-------------------------- MODULE WordCountProofs --------------------------
(***************************************************************************)
(* Proofs about the distributed letter count, for any number of workers,   *)
(* any length of the file, and whether or not recv returns several         *)
(* messages at once and workers die.                                       *)
(***************************************************************************)
EXTENDS WordCount, TLAPS, FiniteSetTheorems, SequenceTheorems

HandlerPc == {"none", "name", "start", "end", "recv", "lock", "load", "store",
              "unlock", "done"}
ClientPc == {"start", "name", "from", "to", "count", "sent", "dead"}
ClientState == [pc : ClientPc, name : {"none", "file", "longer"},
                from : Int, to : Int]

(* The three messages of a task, and how many of them have been sent. *)
Message == [filename : {TRUE}] \cup [long : Int]
Task(w) == <<[filename |-> TRUE], [long |-> startFile(w)], [long |-> rangeEnd(w)]>>
Sends(w) == IF handler[w] \in {"none", "name"} THEN 0
            ELSE IF handler[w] = "start" THEN 1
            ELSE IF handler[w] = "end" THEN 2 ELSE 3

(* What a worker that gets its task counts, if it can open the file. *)
Part(w) == calculate(startFile(w), rangeEnd(w), "file")
-----------------------------------------------------------------------------
(* The types, with those of the records and the messages. *)
Typed ==
  /\ TypeOK
  /\ server \in [pc : {"accept", "failed", "printed", "killed"}, index : 0 .. IPnum]
  /\ client \in [Worker -> ClientState]
  /\ stream \in [Worker -> Seq(Message)]

(* A worker that has not been accepted has done nothing. *)
Accepted ==
  \A w \in Worker : server.index <= w => handler[w] = "none" /\ client[w].pc = "start"

(* On its way to a client are the last messages that were sent to it. *)
InOrder ==
  \A w \in Worker :
    /\ Len(stream[w]) <= Sends(w)
    /\ \A j \in 1 .. Len(stream[w]) :
         stream[w][j] = Task(w)[Sends(w) - Len(stream[w]) + j]

(* What a client has received when it has come to a line, unless the       *)
(* server has gone.  A client whose first recv took more than the name     *)
(* never gets to count, as nothing is sent to it any more.                 *)
Follows(w) ==
  LET Taken == Sends(w) - Len(stream[w])
      Closed == server.pc # "accept" /\ stream[w] = << >>
  IN  /\ client[w].pc = "from" => Taken >= 1 \/ Closed
      /\ client[w].pc = "to" => Taken >= 2 \/ Closed
      /\ server.pc = "accept" =>
           /\ client[w].pc = "to" /\ Taken = 2 => client[w].from = startFile(w)
           /\ client[w].pc \in {"count", "sent"} =>
                /\ Sends(w) = 3
                /\ client[w].from = startFile(w) /\ client[w].to = rangeEnd(w)

Received == \A w \in Worker : Follows(w)

(* The tables: that of a client that has died or has not opened the file   *)
(* is empty, the others hold the part of the worker.                       *)
Tables ==
  \A w \in Worker :
    /\ client[w].pc # "sent" => table[w] = {}
    /\ server.pc = "accept" /\ client[w].pc = "sent" => table[w] \subseteq Part(w)
    /\ handler[w] \in {"lock", "load", "store", "unlock", "done"} =>
         /\ client[w].pc \in {"sent", "dead"}
         /\ client[w].pc = "sent" => table[w] \subseteq Part(w)

(* Between lock and unlock there is one handler at a time, and what it     *)
(* has loaded is still what ans holds when it stores the sum.              *)
Locked ==
  \A w \in Worker :
    /\ handler[w] \in {"load", "store", "unlock"} <=> lock = w
    /\ handler[w] = "store" =>
         sum[w] = [pos \in Position |-> IF pos \in table[w] THEN ans[pos] + 1
                                                            ELSE ans[pos]]

CountInv ==
  Typed /\ Accepted /\ InOrder /\ Received /\ Tables /\ Locked /\ NoLostUpdate
-----------------------------------------------------------------------------
(* The numbers that tasks are made of. *)
LEMMA TaskType ==
  ASSUME Typed, NEW w \in Worker
  PROVE  /\ fileLen \in Nat /\ IPnum \in Nat \ {0} /\ w \in Nat /\ w < IPnum
         /\ fileLen \div IPnum \in Nat
         /\ startFile(w) \in Int /\ rangeEnd(w) \in Int
         /\ Sends(w) \in 0 .. 3
         /\ stream[w] \in Seq(Message) /\ Len(stream[w]) \in Nat
<1>1. fileLen \in Nat /\ IPnum \in Nat \ {0} /\ w \in Nat /\ w < IPnum
  BY WorkersAssumption, FileAssumption DEF Typed, TypeOK, Worker
<1>2. fileLen \div IPnum \in Nat
  BY <1>1
<1> DEFINE d == fileLen \div IPnum
<1>3. d * w \in Int /\ d * (w + 1) - 1 \in Int
  <2> HIDE DEF d
  <2>1. d \in Nat
    BY <1>2 DEF d
  <2> QED
    BY <1>1, <2>1
<1>4. startFile(w) \in Int /\ rangeEnd(w) \in Int
  BY <1>1, <1>3 DEF startFile, rangeEnd, endFile, endFileFinal
<1>5. stream[w] \in Seq(Message) /\ Len(stream[w]) \in Nat
  BY LenProperties DEF Typed
<1> QED
  BY <1>1, <1>2, <1>4, <1>5 DEF Sends

(* A handler sends the three messages of the task one after the other. *)
LEMMA SendProperties ==
  ASSUME Typed, NEW w \in Worker, SendTask(w)
  PROVE  /\ server.pc = "accept"
         /\ UNCHANGED <<fileLen, server, lock, ans, sum, client, table, garbage>>
         /\ handler[w] \in {"name", "start", "end"}
         /\ handler'[w] \in {"start", "end", "recv"}
         /\ handler' = [handler EXCEPT ![w] = handler'[w]]
         /\ Sends(w)' = Sends(w) + 1
         /\ stream' = [stream EXCEPT ![w] = Append(@, Task(w)[Sends(w) + 1])]
         /\ Task(w)[Sends(w) + 1] \in Message
<1>1. w \in DOMAIN handler
  BY DEF Typed, TypeOK
<1>2. startFile(w) \in Int /\ rangeEnd(w) \in Int
  BY TaskType
<1>3. /\ Task(w)[1] = [filename |-> TRUE] /\ Task(w)[1] \in Message
      /\ Task(w)[2] = [long |-> startFile(w)] /\ Task(w)[2] \in Message
      /\ Task(w)[3] = [long |-> rangeEnd(w)] /\ Task(w)[3] \in Message
  BY <1>2 DEF Task, Message
<1>4. ASSUME NEW pc \in {"name", "start", "end"}, NEW message, NEW to,
             Send(w, pc, message, to)
      PROVE  /\ server.pc = "accept" /\ handler[w] = pc /\ handler'[w] = to
             /\ UNCHANGED <<fileLen, server, lock, ans, sum, client, table, garbage>>
             /\ handler' = [handler EXCEPT ![w] = handler'[w]]
             /\ stream' = [stream EXCEPT ![w] = Append(@, message)]
  BY <1>1, <1>4 DEF Send, Runs
<1>5. CASE Send(w, "name", [filename |-> TRUE], "start")
  <2>1. Sends(w) = 0 /\ Sends(w)' = 1
    BY <1>4, <1>5 DEF Sends
  <2> QED
    BY <1>3, <1>4, <1>5, <2>1
<1>6. CASE Send(w, "start", [long |-> startFile(w)], "end")
  <2>1. Sends(w) = 1 /\ Sends(w)' = 2
    BY <1>4, <1>6 DEF Sends
  <2> QED
    BY <1>3, <1>4, <1>6, <2>1
<1>7. CASE Send(w, "end", [long |-> rangeEnd(w)], "recv")
  <2>1. Sends(w) = 2 /\ Sends(w)' = 3
    BY <1>4, <1>7 DEF Sends
  <2> QED
    BY <1>3, <1>4, <1>7, <2>1
<1> QED
  BY <1>5, <1>6, <1>7 DEF SendTask

(* A recv that takes n messages leaves those behind them. *)
Receives(w, n) ==
  \/ RecvName(w, n)
  \/ n = 1 /\ (RecvFrom(w) \/ RecvTo(w))

(* What it leaves are the last messages of those that were there. *)
LEMMA ReceiveProperties ==
  ASSUME Typed, NEW w \in Worker, NEW n \in 1 .. 3, Receives(w, n)
  PROVE  /\ UNCHANGED <<fileLen, server, handler, lock, ans, sum, table, garbage>>
         /\ n \in 1 .. Len(stream[w]) /\ Head(stream[w]) = stream[w][1]
         /\ stream' = [stream EXCEPT ![w] = stream'[w]]
         /\ stream'[w] \in Seq(Message)
         /\ Len(stream'[w]) = Len(stream[w]) - n
         /\ \A j \in 1 .. Len(stream'[w]) : stream'[w][j] = stream[w][n + j]
<1> DEFINE s == stream[w]
<1>1. s \in Seq(Message) /\ Len(s) \in Nat /\ w \in DOMAIN stream
  BY TaskType DEF Typed
<1>2. \A j \in 1 .. Len(s) : s[j] \in Message
  BY <1>1, ElementOfSeq
<1>3. CASE RecvName(w, n)
  <2>1. /\ n \in 1 .. Len(s)
        /\ stream' = [stream EXCEPT ![w] = SubSeq(s, n + 1, Len(s))]
        /\ UNCHANGED <<fileLen, server, handler, lock, ans, sum, table, garbage>>
    BY <1>3 DEF RecvName
  <2>2. stream'[w] = SubSeq(s, n + 1, Len(s))
    BY <1>1, <2>1
  <2> HIDE DEF s
  <2>3. n + 1 \in Int /\ Len(s) \in Int /\ \A j \in n + 1 .. Len(s) : s[j] \in Message
    BY <1>1, <1>2, <2>1
  <2>4. /\ SubSeq(s, n + 1, Len(s)) \in Seq(Message)
        /\ Len(SubSeq(s, n + 1, Len(s))) =
             IF n + 1 <= Len(s) THEN Len(s) - (n + 1) + 1 ELSE 0
        /\ \A j \in 1 .. Len(s) - (n + 1) + 1 :
             SubSeq(s, n + 1, Len(s))[j] = s[n + 1 + j - 1]
    BY <2>3, SubSeqProperties
  <2>5. Len(SubSeq(s, n + 1, Len(s))) = Len(s) - n
    BY <1>1, <2>1, <2>4
  <2>6. \A j \in 1 .. Len(s) - n : SubSeq(s, n + 1, Len(s))[j] = s[n + j]
    BY <1>1, <2>1, <2>4
  <2>7. Head(s) = s[1]
    BY <1>1
  <2> QED
    BY <2>1, <2>2, <2>4, <2>5, <2>6, <2>7 DEF s
<1>4. CASE n = 1 /\ (RecvFrom(w) \/ RecvTo(w))
  <2>1. /\ s # << >> /\ n = 1
        /\ stream' = [stream EXCEPT ![w] = Tail(s)]
        /\ UNCHANGED <<fileLen, server, handler, lock, ans, sum, table, garbage>>
    BY <1>4 DEF RecvFrom, RecvTo
  <2>2. stream'[w] = Tail(s)
    BY <1>1, <2>1
  <2> HIDE DEF s
  <2>3. /\ Tail(s) \in Seq(Message) /\ Len(Tail(s)) = Len(s) - 1
        /\ \A j \in 1 .. Len(Tail(s)) : Tail(s)[j] = s[j + 1]
    BY <1>1, <2>1, HeadTailProperties
  <2>4. Len(s) # 0 /\ Head(s) = s[1]
    BY <1>1, <2>1, EmptySeq
  <2>5. \A j \in 1 .. Len(Tail(s)) : Tail(s)[j] = s[n + j]
    BY <1>1, <2>1, <2>3
  <2> QED
    BY <1>1, <2>1, <2>2, <2>3, <2>4, <2>5 DEF s
<1> QED
  BY <1>3, <1>4 DEF Receives
-----------------------------------------------------------------------------
(* At the start nothing has been sent or counted. *)
LEMMA CountInit == Init => CountInv
<1> SUFFICES ASSUME Init PROVE CountInv
  OBVIOUS
<1>1. fileLen \in Nat /\ IPnum \in Nat \ {0}
  BY WorkersAssumption, FileAssumption DEF Init
<1>2. \A w \in Worker : stream[w] = << >> /\ Len(stream[w]) = 0
  BY EmptySeq DEF Init
<1>3. stream \in [Worker -> Seq(Message)]
  BY EmptySeq DEF Init
<1>4. ans \in [Position -> Nat] /\ sum \in [Worker -> [Position -> Nat]]
  BY DEF Init, Zero
<1>5. Typed
  BY <1>1, <1>2, <1>3, <1>4 DEF ClientState, Init, Typed, TypeOK, ClientPc
<1>6. \A w \in Worker : Sends(w) = 0
  BY DEF Init, Sends
<1>7. Accepted /\ InOrder /\ Received /\ Tables
  BY <1>2, <1>6 DEF Init, Accepted, InOrder, Received, Follows, Tables
<1>8. Locked
  BY <1>1 DEF Init, Locked, Worker
<1>9. NoLostUpdate
  <2>1. Added = {}
    BY DEF Init, Added
  <2>2. \A pos : {w \in Added : pos \in table[w]} = {}
    BY <2>1
  <2>3. \A pos \in Position : ans[pos] = 0
    BY DEF Init, Zero
  <2> QED
    BY <2>2, <2>3, FS_EmptySet DEF NoLostUpdate
<1> QED
  BY <1>5, <1>7, <1>8, <1>9 DEF CountInv
-----------------------------------------------------------------------------
(* A client that receives a number gets one: the name has been taken from  *)
(* the stream before.  The second number is always the end of the part.    *)
LEMMA NumberReceived ==
  ASSUME CountInv, NEW w \in Worker, RecvFrom(w) \/ RecvTo(w)
  PROVE  /\ Head(stream[w]).long \in Int
         /\ RecvFrom(w) /\ Sends(w) - Len(stream[w]) = 1 =>
              Head(stream[w]).long = startFile(w)
         /\ RecvTo(w) => /\ Sends(w) = 3 /\ Len(stream[w]) = 1
                         /\ Head(stream[w]).long = rangeEnd(w)
<1> DEFINE Taken == Sends(w) - Len(stream[w])
<1>1. /\ Sends(w) \in 0 .. 3 /\ Len(stream[w]) \in Nat
      /\ startFile(w) \in Int /\ rangeEnd(w) \in Int
  BY TaskType DEF CountInv
<1>2. 1 \in 1 .. Len(stream[w]) /\ Head(stream[w]) = stream[w][1]
  <2>1. Receives(w, 1)
    BY DEF Receives
  <2> QED
    BY <2>1, ReceiveProperties DEF CountInv
<1>3. Head(stream[w]) = Task(w)[Taken + 1]
  BY <1>2 DEF CountInv, InOrder
<1>4. Task(w)[2].long = startFile(w) /\ Task(w)[3].long = rangeEnd(w)
  BY DEF Task
<1>5. (RecvFrom(w) => Taken >= 1) /\ (RecvTo(w) => Taken >= 2)
  BY DEF CountInv, Received, Follows, RecvFrom, RecvTo
<1>6. /\ Taken >= 1 => Taken \in 1 .. 2
      /\ Taken >= 2 => Taken = 2 /\ Sends(w) = 3 /\ Len(stream[w]) = 1
  <2>1. Len(stream[w]) >= 1
    BY <1>1, <1>2
  <2>2. \A s \in 0 .. 3, l \in Nat :
          l >= 1 => /\ s - l >= 1 => s - l \in 1 .. 2
                    /\ s - l >= 2 => s - l = 2 /\ s = 3 /\ l = 1
    OBVIOUS
  <2> QED
    BY <1>1, <2>1, <2>2, Zenon
<1>7. (Taken = 1 => Taken + 1 = 2) /\ (Taken = 2 => Taken + 1 = 3)
  BY <1>1
<1> HIDE DEF Taken
<1>8. /\ Taken = 1 => Head(stream[w]).long = startFile(w)
      /\ Taken = 2 => Head(stream[w]).long = rangeEnd(w)
  BY <1>3, <1>4, <1>7
<1>9. CASE RecvFrom(w)
  <2>1. Taken = 1 \/ Taken = 2
    BY <1>5, <1>6, <1>9
  <2>2. ~ RecvTo(w)
    BY <1>9 DEF RecvFrom, RecvTo
  <2> QED
    BY <1>1, <1>8, <2>1, <2>2 DEF Taken
<1>10. CASE RecvTo(w)
  <2>1. Taken = 2 /\ Sends(w) = 3 /\ Len(stream[w]) = 1
    BY <1>5, <1>6, <1>10
  <2>2. ~ RecvFrom(w)
    BY <1>10 DEF RecvFrom, RecvTo
  <2> QED
    BY <1>1, <1>8, <2>1, <2>2
<1> QED
  BY <1>9, <1>10

(* What the steps that send and receive nothing do to the shared state. *)
Quiet(w) == \/ RecvTable(w) \/ Lock(w) \/ Load(w) \/ Store(w) \/ Unlock(w)
            \/ RecvEnd(w) \/ Calculate(w) \/ Die(w) \/ SigPipe(w)

(* The steps of the program. *)
LEMMA Steps ==
  ASSUME [Next]_vars
  PROVE  \/ Accept \/ AcceptFailed \/ PrintAns \/ UNCHANGED vars
         \/ \E w \in Worker :
              SendTask(w) \/ Quiet(w) \/ \E n \in 1 .. 3 : Receives(w, n)
<1>1. CASE Accept \/ AcceptFailed \/ PrintAns \/ UNCHANGED vars
  BY <1>1
<1>2. ASSUME NEW w \in Worker, Handler(w) \/ SigPipe(w) \/ Client(w) \/ Die(w)
      PROVE  SendTask(w) \/ Quiet(w) \/ \E n \in 1 .. 3 : Receives(w, n)
  <2>1. CASE Handler(w) \/ SigPipe(w) \/ Die(w)
    BY <2>1 DEF Handler, Quiet
  <2>2. CASE Client(w)
    <3>1. CASE \E n \in 1 .. 3 : RecvName(w, n)
      <4>1. PICK n \in 1 .. 3 : RecvName(w, n)
        BY <3>1
      <4>2. Receives(w, n)
        BY <4>1 DEF Receives
      <4> QED
        BY <4>2
    <3>2. CASE RecvFrom(w) \/ RecvTo(w)
      <4>1. 1 \in 1 .. 3 /\ Receives(w, 1)
        BY <3>2 DEF Receives
      <4> QED
        BY <4>1
    <3>3. CASE RecvEnd(w) \/ Calculate(w)
      BY <3>3 DEF Quiet
    <3> QED
      BY <2>2, <3>1, <3>2, <3>3 DEF Client
  <2> QED
    BY <1>2, <2>1, <2>2
<1> QED
  BY <1>1, <1>2 DEF Next

(* Every step keeps the types. *)
LEMMA TypedStep ==
  ASSUME CountInv, [Next]_vars
  PROVE  Typed'
<1> USE DEF CountInv
<1>1. /\ IPnum \in Nat \ {0} /\ handler \in [Worker -> HandlerPc]
      /\ server.index \in 0 .. IPnum
      /\ ans \in [Position -> Nat] /\ sum \in [Worker -> [Position -> Nat]]
      /\ \A w \in Worker : w \in 0 .. IPnum
  BY WorkersAssumption DEF Typed, TypeOK, HandlerPc, Worker
<1>2. CASE Accept
  <2>1. server.index \in Worker /\ server'.index \in 0 .. IPnum
    BY <1>1, <1>2 DEF Accept, MoreWorkers, Worker, Typed
  <2>2. handler' \in [Worker -> HandlerPc]
    BY <1>1, <1>2 DEF Accept, HandlerPc
  <2>3. client' \in [Worker -> ClientState]
    BY <1>2, <2>1 DEF ClientState, Accept, ClientPc, Typed
  <2>4. server' \in [pc : {"accept", "failed", "printed", "killed"}, index : 0 .. IPnum]
    BY <1>2, <2>1 DEF Accept, Typed
  <2> QED
    BY <1>2, <2>2, <2>3, <2>4
       DEF Accept, Typed, TypeOK, HandlerPc, ClientPc, Position
<1>3. CASE AcceptFailed \/ PrintAns \/ \E w \in Worker : SigPipe(w)
  <2>1. server' \in [pc : {"accept", "failed", "printed", "killed"}, index : 0 .. IPnum]
    BY <1>3 DEF AcceptFailed, PrintAns, SigPipe, Typed
  <2>2. UNCHANGED <<fileLen, handler, lock, ans, sum, stream, client, table, garbage>>
    BY <1>3 DEF AcceptFailed, PrintAns, SigPipe
  <2> QED
    BY <2>1, <2>2 DEF Typed, TypeOK, Position
<1>4. ASSUME NEW w \in Worker, SendTask(w)
      PROVE  Typed'
  <2>1. stream[w] \in Seq(Message) /\ Task(w)[Sends(w) + 1] \in Message
    BY <1>4, SendProperties, TaskType
  <2>2. /\ Append(stream[w], Task(w)[Sends(w) + 1]) \in Seq(Message)
        /\ Len(Append(stream[w], Task(w)[Sends(w) + 1])) = Len(stream[w]) + 1
    BY <2>1, AppendProperties
  <2>3. stream' = [stream EXCEPT ![w] = Append(stream[w], Task(w)[Sends(w) + 1])]
    BY <1>4, SendProperties
  <2>4. stream' \in [Worker -> Seq(Message)] /\ Len(stream'[w]) = Len(stream[w]) + 1
        /\ \A v \in Worker \ {w} : stream'[v] = stream[v]
    BY <2>2, <2>3 DEF Typed
  <2>5. handler' \in [Worker -> HandlerPc]
    BY <1>1, <1>4, SendProperties DEF HandlerPc
  <2>6. Len(stream[w]) + 1 <= 3
    <3>1. Len(stream[w]) <= Sends(w) /\ handler[w] \in {"name", "start", "end"}
      BY <1>4, SendProperties DEF InOrder
    <3>2. Sends(w) <= 2
      BY <3>1 DEF Sends
    <3>3. Sends(w) \in Nat /\ Len(stream[w]) \in Nat
      BY TaskType
    <3> QED
      BY <3>1, <3>2, <3>3
  <2>7. UNCHANGED <<fileLen, server, lock, ans, sum, client, table, garbage>>
    BY <1>4, SendProperties
  <2>8. \A v \in Worker : Len(stream'[v]) <= 3
    BY <2>4, <2>6 DEF Typed, TypeOK
  <2> QED
    BY <2>4, <2>5, <2>7, <2>8 DEF Typed, TypeOK, HandlerPc, Position
<1>5. ASSUME NEW w \in Worker, NEW n \in 1 .. 3, Receives(w, n)
      PROVE  Typed'
  <2>1. /\ stream'[w] \in Seq(Message) /\ stream' = [stream EXCEPT ![w] = stream'[w]]
        /\ Len(stream'[w]) = Len(stream[w]) - n
        /\ UNCHANGED <<fileLen, server, handler, lock, ans, sum, table, garbage>>
    BY <1>5, ReceiveProperties
  <2>2. stream' \in [Worker -> Seq(Message)]
    BY <2>1 DEF Typed
  <2>3. Len(stream[w]) \in Nat /\ Len(stream[w]) <= 3
    BY TaskType DEF Typed, TypeOK
  <2>4. \A v \in Worker : Len(stream'[v]) <= 3
    <3>1. \A v \in Worker \ {w} : stream'[v] = stream[v]
      BY <2>1 DEF Typed
    <3>2. Len(stream'[w]) <= 3
      BY <2>1, <2>3
    <3> QED
      BY <3>1, <3>2 DEF Typed, TypeOK
  <2>5. client' \in [Worker -> ClientState]
    <3>1. CASE RecvName(w, n)
      <4>1. PICK name \in NameRead(w, n) :
              client' = [client EXCEPT ![w].pc = "from", ![w].name = name]
        BY <3>1 DEF RecvName
      <4>2. name \in {"none", "file", "longer"}
        BY <4>1 DEF NameRead
      <4> QED
        BY <4>1, <4>2 DEF ClientState, ClientPc, Typed
    <3>2. CASE RecvFrom(w) \/ RecvTo(w)
      <4>1. Head(stream[w]).long \in Int
        BY <3>2, NumberReceived
      <4>2. client[w] \in ClientState
        BY DEF Typed
      <4>3. CASE RecvFrom(w)
        BY <4>1, <4>2, <4>3 DEF ClientState, RecvFrom, ClientPc, Typed
      <4>4. CASE RecvTo(w)
        BY <4>1, <4>2, <4>4 DEF ClientState, RecvTo, ClientPc, Typed
      <4> QED
        BY <3>2, <4>3, <4>4
    <3> QED
      BY <1>5, <3>1, <3>2 DEF Receives
  <2> QED
    BY <2>1, <2>2, <2>4, <2>5 DEF ClientState, Typed, TypeOK, ClientPc, Position
<1>6. ASSUME NEW w \in Worker, RecvTable(w) \/ Lock(w) \/ Unlock(w)
      PROVE  Typed'
  <2>1. handler' \in [Worker -> HandlerPc]
    BY <1>1, <1>6 DEF RecvTable, Lock, Unlock, HandlerPc
  <2>2. lock' \in 0 .. IPnum
    BY <1>1, <1>6 DEF RecvTable, Lock, Unlock, Released, Typed, TypeOK
  <2>3. garbage' \subseteq Worker
    BY <1>6 DEF RecvTable, Lock, Unlock, Typed, TypeOK
  <2>4. UNCHANGED <<fileLen, server, ans, sum, stream, client, table>>
    BY <1>6 DEF RecvTable, Lock, Unlock
  <2> QED
    BY <2>1, <2>2, <2>3, <2>4 DEF Typed, TypeOK, HandlerPc, Position
<1>7. ASSUME NEW w \in Worker, Load(w) \/ Store(w)
      PROVE  Typed'
  <2>1. handler' \in [Worker -> HandlerPc]
    BY <1>1, <1>7 DEF Load, Store, HandlerPc
  <2>2. sum' \in [Worker -> [Position -> Nat]] /\ ans' \in [Position -> Nat]
    <3>1. CASE Load(w)
      <4> DEFINE s == [pos \in Position |-> IF pos \in table[w] THEN ans[pos] + 1
                                                               ELSE ans[pos]]
      <4>1. s \in [Position -> Nat]
        BY <1>1
      <4>2. sum' = [sum EXCEPT ![w] = s] /\ ans' = ans
        BY <3>1 DEF Load
      <4> HIDE DEF s
      <4> QED
        BY <1>1, <4>1, <4>2
    <3>2. CASE Store(w)
      <4>1. Zero \in [Position -> Nat]
        BY DEF Zero
      <4>2. sum' = [sum EXCEPT ![w] = Zero] /\ ans' = sum[w]
        BY <3>2 DEF Store
      <4> QED
        BY <1>1, <4>1, <4>2
    <3> QED
      BY <1>7, <3>1, <3>2
  <2>3. UNCHANGED <<fileLen, server, lock, stream, client, table, garbage>>
    BY <1>7 DEF Load, Store
  <2> QED
    BY <2>1, <2>2, <2>3 DEF Typed, TypeOK, HandlerPc, Position
<1>8. ASSUME NEW w \in Worker, RecvEnd(w) \/ Calculate(w) \/ Die(w)
      PROVE  Typed'
  <2>1. client' \in [Worker -> ClientState]
    <3>1. PICK pc \in ClientPc : client' = [client EXCEPT ![w].pc = pc]
      BY <1>8 DEF RecvEnd, RecvNothing, Calculate, Die, ClientPc
    <3> QED
      BY <3>1 DEF ClientState, Typed
  <2>2. table' \in [Worker -> SUBSET Position]
    <3>1. table \in [Worker -> SUBSET Position]
      BY DEF Typed, TypeOK
    <3>2. CASE Calculate(w)
      <4>1. calculate(client[w].from, client[w].to, client[w].name) \in SUBSET Position
        BY DEF calculate
      <4> QED
        BY <3>1, <3>2, <4>1 DEF Calculate
    <3>3. CASE RecvEnd(w) \/ Die(w)
      BY <3>1, <3>3 DEF RecvEnd, RecvNothing, Die
    <3> QED
      BY <1>8, <3>2, <3>3
  <2>3. garbage' \subseteq Worker
    BY <1>8 DEF RecvEnd, RecvNothing, Calculate, Die, Typed, TypeOK
  <2>4. UNCHANGED <<fileLen, server, handler, lock, ans, sum, stream>>
    BY <1>8 DEF RecvEnd, RecvNothing, Calculate, Die
  <2> QED
    BY <2>1, <2>2, <2>3, <2>4 DEF ClientState, Typed, TypeOK, ClientPc, Position
<1>9. CASE UNCHANGED vars
  BY <1>9 DEF vars, Typed, TypeOK, Position
<1> QED
  BY <1>2, <1>3, <1>4, <1>5, <1>6, <1>7, <1>8, <1>9, Steps DEF Quiet

(* The other steps of a worker neither send nor receive, and change        *)
(* nothing of the other workers.                                           *)
LEMMA QuietProperties ==
  ASSUME Typed, NEW w \in Worker, Quiet(w)
  PROVE  /\ UNCHANGED <<fileLen, stream>>
         /\ server'.index = server.index
         /\ \A v \in Worker \ {w} : handler'[v] = handler[v] /\ client'[v] = client[v]
         /\ \/ handler' = handler
            \/ /\ handler[w] \in {"recv", "lock", "load", "store", "unlock"}
               /\ handler'[w] \in {"lock", "load", "store", "unlock", "done"}
         /\ client'[w].pc = client[w].pc \/ client[w].pc # "start"
         /\ \A v \in Worker : Sends(v)' = Sends(v)
<1>1. /\ DOMAIN handler = Worker /\ DOMAIN client = Worker
      /\ server \in [pc : {"accept", "failed", "printed", "killed"}, index : 0 .. IPnum]
  BY DEF Typed, TypeOK
<1>2. CASE RecvTable(w) \/ Lock(w) \/ Load(w) \/ Store(w) \/ Unlock(w)
  <2>1. /\ UNCHANGED <<fileLen, stream, server, client>>
        /\ handler[w] \in {"recv", "lock", "load", "store", "unlock"}
        /\ handler'[w] \in {"lock", "load", "store", "unlock", "done"}
        /\ \A v \in Worker \ {w} : handler'[v] = handler[v]
    BY <1>1, <1>2 DEF RecvTable, Lock, Load, Store, Unlock, Runs
  <2>2. \A v \in Worker : Sends(v)' = Sends(v)
    BY <2>1 DEF Sends
  <2> QED
    BY <2>1, <2>2
<1>3. CASE RecvEnd(w) \/ Calculate(w) \/ Die(w) \/ SigPipe(w)
  <2>1. UNCHANGED <<fileLen, stream, handler>> /\ server'.index = server.index
    BY <1>1, <1>3 DEF RecvEnd, RecvNothing, Calculate, Die, SigPipe
  <2>2. \A v \in Worker \ {w} : client'[v] = client[v]
    BY <1>1, <1>3 DEF RecvEnd, RecvNothing, Calculate, Die, SigPipe
  <2>3. client' = client \/ client[w].pc # "start"
    BY <1>3 DEF RecvEnd, RecvNothing, Calculate, Die, SigPipe
  <2>4. \A v \in Worker : Sends(v)' = Sends(v)
    BY <2>1 DEF Sends
  <2> QED
    BY <2>1, <2>2, <2>3, <2>4
<1> QED
  BY <1>2, <1>3 DEF Quiet

(* Accepting a worker sends it nothing yet. *)
LEMMA AcceptProperties ==
  ASSUME CountInv, Accept
  PROVE  /\ server.index \in Worker
         /\ handler[server.index] = "none" /\ handler'[server.index] = "name"
         /\ client[server.index].pc = "start" /\ client'[server.index].pc = "name"
         /\ \A v \in Worker \ {server.index} :
              handler'[v] = handler[v] /\ client'[v] = client[v]
         /\ \A v \in Worker : Sends(v)' = Sends(v)
         /\ server.index \in Nat /\ server'.index = server.index + 1
         /\ server'.pc = "accept" /\ server.pc = "accept"
         /\ UNCHANGED <<fileLen, lock, ans, sum, stream, table, garbage>>
<1>1. /\ DOMAIN handler = Worker /\ client \in [Worker -> ClientState]
      /\ server \in [pc : {"accept", "failed", "printed", "killed"}, index : 0 .. IPnum]
  BY DEF CountInv, Typed, TypeOK
<1>2. server.index \in Worker /\ server.index \in Nat
  BY <1>1, WorkersAssumption DEF Accept, MoreWorkers, Worker
<1>3. handler[server.index] = "none" /\ client[server.index].pc = "start"
  BY <1>2 DEF CountInv, Accepted
<1>4. /\ handler'[server.index] = "name" /\ client'[server.index].pc = "name"
      /\ \A v \in Worker \ {server.index} :
           handler'[v] = handler[v] /\ client'[v] = client[v]
  BY <1>1, <1>2 DEF Accept
<1>5. \A v \in Worker : Sends(v)' = Sends(v)
  BY <1>3, <1>4 DEF Sends
<1>6. server'.index = server.index + 1 /\ server'.pc = "accept" /\ server.pc = "accept"
  BY <1>1 DEF Accept, MoreWorkers
<1> QED
  BY <1>2, <1>3, <1>4, <1>5, <1>6 DEF Accept

(* A receiving client is not one that has not been accepted. *)
LEMMA ReceiveClient ==
  ASSUME Typed, NEW w \in Worker, NEW n \in 1 .. 3, Receives(w, n)
  PROVE  /\ client[w].pc \in {"name", "from", "to"}
         /\ \A v \in Worker \ {w} : client'[v] = client[v] /\ stream'[v] = stream[v]
         /\ \A v \in Worker : Sends(v)' = Sends(v)
<1>1. DOMAIN client = Worker /\ DOMAIN stream = Worker
  BY DEF Typed
<1>2. client[w].pc \in {"name", "from", "to"}
  BY DEF Receives, RecvName, RecvFrom, RecvTo
<1>3. \A v \in Worker \ {w} : client'[v] = client[v]
  BY <1>1 DEF Receives, RecvName, RecvFrom, RecvTo
<1>4. \A v \in Worker \ {w} : stream'[v] = stream[v]
  BY <1>1, ReceiveProperties
<1>5. \A v \in Worker : Sends(v)' = Sends(v)
  BY ReceiveProperties DEF Sends
<1> QED
  BY <1>2, <1>3, <1>4, <1>5

(* The main thread stops without a word to the others. *)
LEMMA StopProperties ==
  ASSUME Typed, AcceptFailed \/ PrintAns \/ UNCHANGED vars
  PROVE  /\ UNCHANGED <<fileLen, handler, lock, ans, sum, stream, client, table, garbage>>
         /\ server'.index = server.index
         /\ server'.pc = server.pc \/ server'.pc # "accept"
         /\ \A v \in Worker : Sends(v)' = Sends(v)
<1>1. UNCHANGED <<fileLen, handler, lock, ans, sum, stream, client, table, garbage>>
  BY DEF AcceptFailed, PrintAns, vars
<1>2. server'.index = server.index /\ (server'.pc = server.pc \/ server'.pc # "accept")
  BY DEF AcceptFailed, PrintAns, vars, Typed
<1>3. \A v \in Worker : Sends(v)' = Sends(v)
  BY <1>1 DEF Sends
<1> QED
  BY <1>1, <1>2, <1>3
-----------------------------------------------------------------------------
(* Workers are accepted one after the other. *)
LEMMA AcceptedStep ==
  ASSUME CountInv, [Next]_vars
  PROVE  Accepted'
<1> USE DEF CountInv
<1>0. server.index \in Nat
  BY WorkersAssumption DEF Typed
<1>1. CASE Accept
  <2>1. \A v \in Worker : server.index + 1 <= v => server.index <= v /\ v # server.index
    BY <1>0, WorkersAssumption DEF Worker
  <2> QED
    BY <1>1, <2>1, AcceptProperties DEF Accepted
<1>2. CASE AcceptFailed \/ PrintAns \/ UNCHANGED vars
  BY <1>2, StopProperties DEF Accepted
<1>3. ASSUME NEW w \in Worker, SendTask(w)
      PROVE  Accepted'
  <2>1. /\ UNCHANGED <<server, client>> /\ handler[w] # "none"
        /\ \A v \in Worker \ {w} : handler'[v] = handler[v]
    BY <1>3, SendProperties DEF Typed, TypeOK
  <2> QED
    BY <2>1 DEF Accepted
<1>4. ASSUME NEW w \in Worker, Quiet(w)
      PROVE  Accepted'
  BY <1>4, QuietProperties DEF Accepted
<1>5. ASSUME NEW w \in Worker, NEW n \in 1 .. 3, Receives(w, n)
      PROVE  Accepted'
  BY <1>5, ReceiveProperties, ReceiveClient DEF Accepted
<1> QED
  BY <1>1, <1>2, <1>3, <1>4, <1>5, Steps

(* Messages arrive in the order they were sent, and none is lost but to a  *)
(* recv that takes it.                                                     *)
LEMMA InOrderStep ==
  ASSUME CountInv, [Next]_vars
  PROVE  InOrder'
<1> USE DEF CountInv
<1>1. fileLen' = fileLen => \A v \in Worker : Task(v)' = Task(v)
  BY DEF Task, startFile, rangeEnd, endFile, endFileFinal
<1>2. CASE /\ UNCHANGED <<fileLen, stream>> /\ \A v \in Worker : Sends(v)' = Sends(v)
  BY <1>1, <1>2 DEF InOrder
<1>3. ASSUME NEW w \in Worker, SendTask(w)
      PROVE  InOrder'
  <2> DEFINE s == stream[w]
             k == Sends(w)
  <2>1. /\ fileLen' = fileLen /\ Sends(w)' = k + 1
        /\ stream' = [stream EXCEPT ![w] = Append(s, Task(w)[k + 1])]
        /\ Task(w)[k + 1] \in Message
        /\ handler' = [handler EXCEPT ![w] = handler'[w]]
    BY <1>3, SendProperties
  <2>2. \A v \in Worker \ {w} : stream'[v] = stream[v] /\ Sends(v)' = Sends(v)
    BY <2>1 DEF Typed, TypeOK, Sends
  <2>3. stream'[w] = Append(s, Task(w)[k + 1])
    BY <2>1 DEF Typed
  <2>4. s \in Seq(Message) /\ Len(s) \in Nat /\ k \in 0 .. 3 /\ Len(s) <= k
    BY TaskType DEF InOrder
  <2> HIDE DEF s
  <2>5. /\ Len(stream'[w]) = Len(s) + 1
        /\ stream'[w][Len(s) + 1] = Task(w)[k + 1]
        /\ \A j \in 1 .. Len(s) : stream'[w][j] = s[j]
    BY <2>1, <2>3, <2>4, AppendProperties
  <2>6. \A j \in 1 .. Len(s) : s[j] = Task(w)[k - Len(s) + j]
    BY DEF InOrder, s
  <2> HIDE DEF k
  <2>7. ASSUME NEW j \in 1 .. Len(s) + 1
        PROVE  stream'[w][j] = Task(w)[(k + 1) - (Len(s) + 1) + j]
    <3>1. (k + 1) - (Len(s) + 1) + j = k - Len(s) + j
      BY <2>4
    <3>2. CASE j \in 1 .. Len(s)
      BY <2>5, <2>6, <3>1, <3>2
    <3>3. CASE j = Len(s) + 1
      <4>1. k - Len(s) + j = k + 1
        BY <2>4, <3>3
      <4> QED
        BY <2>5, <3>1, <3>3, <4>1
    <3> QED
      BY <2>4, <3>2, <3>3
  <2>8. Len(stream'[w]) <= Sends(w)'
    BY <2>1, <2>4, <2>5
  <2> QED
    BY <1>1, <2>1, <2>2, <2>5, <2>7, <2>8 DEF InOrder
<1>4. ASSUME NEW w \in Worker, NEW n \in 1 .. 3, Receives(w, n)
      PROVE  InOrder'
  <2> DEFINE l == Len(stream[w])
             k == Sends(w)
  <2>1. /\ fileLen' = fileLen /\ \A v \in Worker : Sends(v)' = Sends(v)
        /\ \A v \in Worker \ {w} : stream'[v] = stream[v]
    BY <1>4, ReceiveProperties, ReceiveClient
  <2>2. /\ n \in 1 .. l /\ Len(stream'[w]) = l - n
        /\ \A j \in 1 .. l - n : stream'[w][j] = stream[w][n + j]
    BY <1>4, ReceiveProperties
  <2>3. l \in Nat /\ k \in 0 .. 3 /\ l <= k
        /\ \A j \in 1 .. l : stream[w][j] = Task(w)[k - l + j]
    BY TaskType DEF InOrder
  <2>4. Sends(w)' = k
    BY <2>1
  <2> HIDE DEF l, k
  <2>5. ASSUME NEW j \in 1 .. l - n
        PROVE  stream'[w][j] = Task(w)[k - (l - n) + j]
    <3>1. n + j \in 1 .. l /\ k - (l - n) + j = k - l + (n + j)
      BY <2>2, <2>3
    <3> QED
      BY <2>2, <2>3, <3>1
  <2>6. l - n <= k
    BY <2>2, <2>3
  <2> QED
    BY <1>1, <2>1, <2>2, <2>4, <2>5, <2>6 DEF InOrder
<1> QED
  BY <1>2, <1>3, <1>4, Steps, AcceptProperties, StopProperties, QuietProperties

(* A client follows the messages that were sent to it. *)
LEMMA ReceivedStep ==
  ASSUME CountInv, [Next]_vars
  PROVE  Received'
<1> USE DEF CountInv
<1> SUFFICES ASSUME NEW v \in Worker PROVE Follows(v)'
  BY DEF Received
<1>3. Follows(v)
  BY DEF Received
<1>4. /\ Sends(v) \in 0 .. 3 /\ Len(stream[v]) \in Nat
      /\ fileLen' = fileLen => startFile(v)' = startFile(v) /\ rangeEnd(v)' = rangeEnd(v)
  BY TaskType DEF startFile, rangeEnd, endFile, endFileFinal
<1>5. CASE /\ UNCHANGED fileLen /\ stream'[v] = stream[v]
           /\ Sends(v)' = Sends(v) /\ client'[v] = client[v]
           /\ server'.pc = server.pc \/ server'.pc # "accept"
  BY <1>3, <1>4, <1>5 DEF Follows
<1>6. CASE Accept
  BY <1>4, <1>5, <1>6, AcceptProperties DEF Follows
<1>7. CASE AcceptFailed \/ PrintAns \/ UNCHANGED vars
  BY <1>5, <1>7, StopProperties
<1>8. ASSUME NEW w \in Worker, SendTask(w)
      PROVE  Follows(v)'
  <2>1. UNCHANGED <<fileLen, server, client>>
    BY <1>8, SendProperties
  <2>2. CASE v # w
    <3>1. stream'[v] = stream[v] /\ Sends(v)' = Sends(v)
      BY <1>8, <2>2, SendProperties DEF Typed, TypeOK, Sends
    <3> QED
      BY <1>5, <2>1, <3>1
  <2>3. CASE v = w
    <3>1. /\ Sends(v)' = Sends(v) + 1 /\ server.pc = "accept"
          /\ stream'[v] = Append(stream[v], Task(v)[Sends(v) + 1])
          /\ Task(v)[Sends(v) + 1] \in Message
          /\ handler[v] \in {"name", "start", "end"}
      BY <1>8, <2>3, SendProperties DEF Typed
    <3>2. Len(stream'[v]) = Len(stream[v]) + 1
      BY <3>1, TaskType, AppendProperties
    <3>3. Sends(v) # 3
      BY <3>1 DEF Sends
    <3>4. Sends(v)' - Len(stream'[v]) = Sends(v) - Len(stream[v])
      BY <1>4, <3>1, <3>2
    <3>5. client[v].pc \notin {"count", "sent"}
      BY <1>3, <3>1, <3>3 DEF Follows
    <3> QED
      BY <1>3, <1>4, <2>1, <3>1, <3>4, <3>5 DEF Follows
  <2> QED
    BY <2>2, <2>3
<1>9. ASSUME NEW w \in Worker, Quiet(w)
      PROVE  Follows(v)'
  <2>1. /\ UNCHANGED <<fileLen, stream>> /\ Sends(v)' = Sends(v)
        /\ v # w => client'[v] = client[v]
    BY <1>9, QuietProperties
  <2>2. server'.pc = server.pc \/ server'.pc # "accept"
    BY <1>9 DEF Quiet, RecvTable, Lock, Load, Store, Unlock, RecvEnd, RecvNothing,
                Calculate, Die, SigPipe, Typed
  <2>3. CASE client' = client \/ v # w
    BY <1>5, <2>1, <2>2, <2>3
  <2>4. client[w] \in ClientState /\ DOMAIN client = Worker
    BY DEF Typed
  <2>5. CASE RecvEnd(w) /\ v = w
    <3>1. server'.pc # "accept" /\ stream'[v] = << >>
      BY <2>1, <2>5 DEF RecvEnd, RecvNothing
    <3> QED
      BY <3>1 DEF Follows
  <2>6. CASE Calculate(w) /\ v = w
    <3>1. /\ client[v].pc = "count" /\ client'[v].pc = "sent"
          /\ client'[v].from = client[v].from /\ client'[v].to = client[v].to
          /\ server' = server
      BY <2>4, <2>6 DEF Calculate
    <3> QED
      BY <1>3, <1>4, <2>1, <3>1 DEF Follows
  <2>7. CASE Die(w) /\ v = w
    <3>1. client'[v].pc = "dead"
      BY <2>4, <2>7 DEF Die
    <3> QED
      BY <3>1 DEF Follows
  <2> QED
    BY <1>9, <2>3, <2>5, <2>6, <2>7 DEF Quiet, RecvTable, Lock, Load, Store, Unlock,
                                       SigPipe
<1>10. ASSUME NEW w \in Worker, NEW n \in 1 .. 3, Receives(w, n)
       PROVE  Follows(v)'
  <2>1. UNCHANGED <<fileLen, server>> /\ Sends(v)' = Sends(v)
    BY <1>10, ReceiveProperties, ReceiveClient
  <2>2. CASE v # w
    BY <1>5, <1>10, <2>1, <2>2, ReceiveClient
  <2>3. CASE v = w
    <3>1. /\ n \in 1 .. Len(stream[v]) /\ Len(stream'[v]) = Len(stream[v]) - n
      BY <1>10, <2>3, ReceiveProperties
    <3>2. Sends(v)' - Len(stream'[v]) = (Sends(v) - Len(stream[v])) + n
      BY <1>4, <2>1, <3>1
    <3>3. client[v] \in ClientState /\ v \in DOMAIN client
      BY DEF Typed
    <3>4. stream[v] # << >>
      <4>1. Len(stream[v]) # 0
        BY <1>4, <3>1
      <4> QED
        BY <4>1, EmptySeq
    <3>5. Len(stream[v]) <= Sends(v)
      BY DEF InOrder
    <3>6. CASE RecvName(w, n)
      <4>1. client'[v].pc = "from"
        BY <2>3, <3>3, <3>6 DEF RecvName, ClientState
      <4>2. Sends(v)' - Len(stream'[v]) >= 1
        BY <1>4, <3>1, <3>2, <3>5
      <4> QED
        BY <4>1, <4>2 DEF Follows
    <3>7. CASE RecvFrom(w) /\ n = 1
      <4>1. /\ client[v].pc = "from" /\ client'[v].pc = "to"
            /\ client'[v].from = Head(stream[v]).long
        BY <2>3, <3>3, <3>7 DEF RecvFrom, ClientState
      <4>2. Sends(v) - Len(stream[v]) >= 1
        BY <1>3, <3>4, <4>1 DEF Follows
      <4>3. Sends(v)' - Len(stream'[v]) >= 2
        BY <1>4, <3>2, <3>7, <4>2
      <4>4. Sends(v)' - Len(stream'[v]) = 2 => Sends(v) - Len(stream[v]) = 1
        BY <1>4, <3>2, <3>7
      <4>5. Sends(v)' - Len(stream'[v]) = 2 => client'[v].from = startFile(v)'
        BY <1>4, <2>1, <2>3, <3>7, <4>1, <4>4, NumberReceived
      <4> QED
        BY <4>1, <4>3, <4>5 DEF Follows
    <3>8. CASE RecvTo(w) /\ n = 1
      <4>1. /\ client[v].pc = "to" /\ client'[v].pc = "count"
            /\ client'[v].from = client[v].from
            /\ client'[v].to = Head(stream[v]).long
        BY <2>3, <3>3, <3>8 DEF RecvTo, ClientState
      <4>2. /\ Sends(v) = 3 /\ Len(stream[v]) = 1
            /\ Head(stream[v]).long = rangeEnd(v)
        BY <2>3, <3>8, NumberReceived
      <4>3. Sends(v) - Len(stream[v]) = 2
        BY <4>2
      <4>4. server.pc = "accept" => client[v].from = startFile(v)
        BY <1>3, <4>1, <4>3 DEF Follows
      <4> QED
        BY <1>4, <2>1, <4>1, <4>2, <4>4 DEF Follows
    <3> QED
      BY <1>10, <3>6, <3>7, <3>8 DEF Receives
  <2> QED
    BY <2>2, <2>3
<1> QED
  BY <1>6, <1>7, <1>8, <1>9, <1>10, Steps

(* A client computes the table of its part, and a handler takes it only    *)
(* when it is there.                                                       *)
LEMMA TablesStep ==
  ASSUME CountInv, [Next]_vars
  PROVE  Tables'
<1> USE DEF CountInv
<1> DEFINE Done(h) == h \in {"lock", "load", "store", "unlock", "done"}
           Right(v) == /\ client[v].pc # "sent" => table[v] = {}
                       /\ server.pc = "accept" /\ client[v].pc = "sent" =>
                            table[v] \subseteq Part(v)
                       /\ Done(handler[v]) =>
                            /\ client[v].pc \in {"sent", "dead"}
                            /\ client[v].pc = "sent" => table[v] \subseteq Part(v)
<1> SUFFICES ASSUME NEW v \in Worker PROVE Right(v)'
  BY DEF Tables
<1>1. Right(v)
  BY DEF Tables
<1>2. fileLen' = fileLen => Part(v)' = Part(v)
  BY DEF Part, calculate, Position, startFile, rangeEnd, endFile, endFileFinal
<1>3. CASE /\ fileLen' = fileLen /\ client'[v].pc = client[v].pc
           /\ table'[v] = table[v]
           /\ server'.pc = server.pc \/ server'.pc # "accept"
           /\ handler'[v] = handler[v] \/ ~ Done(handler'[v]) \/ Done(handler[v])
  BY <1>1, <1>2, <1>3
<1>4. CASE Accept
  <2>1. CASE v = server.index
    BY <1>1, <1>4, <2>1, AcceptProperties
  <2>2. CASE v # server.index
    BY <1>3, <1>4, <2>2, AcceptProperties
  <2> QED
    BY <2>1, <2>2
<1>5. CASE AcceptFailed \/ PrintAns \/ UNCHANGED vars
  BY <1>3, <1>5, StopProperties
<1>6. ASSUME NEW w \in Worker, SendTask(w)
      PROVE  Right(v)'
  <2>1. handler'[v] = handler[v] \/ ~ Done(handler'[v])
    BY <1>6, SendProperties DEF Typed, TypeOK
  <2> QED
    BY <1>3, <1>6, <2>1, SendProperties
<1>7. ASSUME NEW w \in Worker, NEW n \in 1 .. 3, Receives(w, n)
      PROVE  Right(v)'
  <2>1. UNCHANGED <<fileLen, server, handler, table>>
    BY <1>7, ReceiveProperties
  <2>2. CASE v # w
    BY <1>3, <1>7, <2>1, <2>2, ReceiveClient
  <2>3. CASE v = w
    <3>1. client[v].pc \in {"name", "from", "to"}
      BY <1>7, <2>3, ReceiveClient
    <3>2. client'[v].pc \in {"from", "to", "count"}
      BY <1>7, <2>3 DEF Receives, RecvName, RecvFrom, RecvTo, Typed, ClientState
    <3> QED
      BY <1>1, <2>1, <3>1, <3>2
  <2> QED
    BY <2>2, <2>3
<1>8. ASSUME NEW w \in Worker, Quiet(w)
      PROVE  Right(v)'
  <2>1. /\ fileLen' = fileLen
        /\ v # w => client'[v] = client[v] /\ handler'[v] = handler[v]
    BY <1>8, QuietProperties
  <2>2. server'.pc = server.pc \/ server'.pc # "accept"
    BY <1>8 DEF Quiet, RecvTable, Lock, Load, Store, Unlock, RecvEnd, RecvNothing,
                Calculate, Die, SigPipe, Typed
  <2>3. v # w => table'[v] = table[v]
    BY <1>8 DEF Quiet, RecvTable, Lock, Load, Store, Unlock, RecvEnd, RecvNothing,
                Calculate, Die, SigPipe, Typed, TypeOK
  <2>4. CASE v # w
    BY <1>3, <2>1, <2>2, <2>3, <2>4
  <2>5. /\ w \in DOMAIN handler /\ w \in DOMAIN table /\ w \in DOMAIN client
        /\ client[w] \in ClientState
    BY DEF Typed, TypeOK
  <2>6. CASE v = w /\ RecvTable(w)
    <3>1. server.pc = "accept" /\ client[v].pc \in {"sent", "dead"}
          /\ UNCHANGED <<server, client, table>>
      BY <2>6 DEF RecvTable, Runs
    <3> QED
      BY <1>1, <1>2, <2>1, <3>1
  <2>7. CASE v = w /\ (Lock(w) \/ Load(w) \/ Store(w) \/ Unlock(w) \/ SigPipe(w))
    <3>1. UNCHANGED <<client, table>> /\ (handler' = handler \/ Done(handler[v]))
      BY <2>7 DEF Lock, Load, Store, Unlock, SigPipe, Runs
    <3> QED
      BY <1>3, <2>1, <2>2, <3>1
  <2>8. CASE v = w /\ (RecvEnd(w) \/ Die(w))
    <3>1. /\ UNCHANGED <<handler, table, server>>
          /\ client[v].pc \in {"name", "from", "to", "count"}
          /\ client'[v].pc \in {"from", "to", "count", "dead"}
      BY <2>5, <2>8 DEF RecvEnd, RecvNothing, Die, ClientState
    <3> QED
      BY <1>1, <3>1
  <2>9. CASE v = w /\ Calculate(w)
    <3>1. /\ UNCHANGED <<handler, server>>
          /\ client[v].pc = "count" /\ client'[v].pc = "sent"
          /\ table'[v] = calculate(client[v].from, client[v].to, client[v].name)
      BY <2>5, <2>9 DEF Calculate, ClientState
    <3>2. server.pc = "accept" =>
            client[v].from = startFile(v) /\ client[v].to = rangeEnd(v)
      BY <3>1 DEF Received, Follows
    <3>3. server.pc = "accept" => table'[v] \subseteq Part(v)'
      BY <1>2, <2>1, <3>1, <3>2 DEF Part, calculate
    <3> QED
      BY <1>1, <3>1, <3>3
  <2> QED
    BY <1>8, <2>4, <2>6, <2>7, <2>8, <2>9 DEF Quiet
<1> QED
  BY <1>4, <1>5, <1>6, <1>7, <1>8, Steps

(* What the steps without the lock leave alone. *)
LEMMA OutsideLock ==
  ASSUME CountInv, [Next]_vars,
         ~ \E w \in Worker : Lock(w) \/ Load(w) \/ Store(w) \/ Unlock(w)
  PROVE  /\ UNCHANGED <<fileLen, lock, ans, sum>>
         /\ \A v \in Worker :
              \/ handler'[v] = handler[v]
              \/ {handler[v], handler'[v]} \subseteq
                   {"none", "name", "start", "end", "recv", "lock"}
         /\ \A v \in Worker :
              handler[v] \in {"lock", "load", "store", "unlock", "done"} =>
                table'[v] = table[v]
<1> USE DEF CountInv
<1>1. CASE Accept
  BY <1>1, AcceptProperties
<1>2. CASE AcceptFailed \/ PrintAns \/ UNCHANGED vars
  BY <1>2, StopProperties
<1>3. ASSUME NEW w \in Worker, SendTask(w)
      PROVE  /\ UNCHANGED <<fileLen, lock, ans, sum, table>>
             /\ \A v \in Worker :
                  \/ handler'[v] = handler[v]
                  \/ {handler[v], handler'[v]} \subseteq
                       {"none", "name", "start", "end", "recv", "lock"}
  <2>1. \A v \in Worker \ {w} : handler'[v] = handler[v]
    BY <1>3, SendProperties DEF Typed, TypeOK
  <2> QED
    BY <1>3, <2>1, SendProperties
<1>4. ASSUME NEW w \in Worker, NEW n \in 1 .. 3, Receives(w, n)
      PROVE  UNCHANGED <<fileLen, lock, ans, sum, table, handler>>
  BY <1>4, ReceiveProperties
<1>5. ASSUME NEW w \in Worker, RecvTable(w)
      PROVE  /\ UNCHANGED <<fileLen, lock, ans, sum, table>>
             /\ \A v \in Worker :
                  \/ handler'[v] = handler[v]
                  \/ {handler[v], handler'[v]} \subseteq
                       {"none", "name", "start", "end", "recv", "lock"}
  BY <1>5 DEF RecvTable, Runs, Typed, TypeOK
<1>6. ASSUME NEW w \in Worker, RecvEnd(w) \/ Die(w) \/ SigPipe(w)
      PROVE  UNCHANGED <<fileLen, lock, ans, sum, table, handler>>
  BY <1>6 DEF RecvEnd, RecvNothing, Die, SigPipe
<1>7. ASSUME NEW w \in Worker, Calculate(w)
      PROVE  /\ UNCHANGED <<fileLen, lock, ans, sum, handler>>
             /\ \A v \in Worker :
                  handler[v] \in {"lock", "load", "store", "unlock", "done"} =>
                    table'[v] = table[v]
  <2>1. client[w].pc = "count" /\ \A v \in Worker \ {w} : table'[v] = table[v]
    BY <1>7 DEF Calculate, Typed, TypeOK
  <2>2. handler[w] \notin {"lock", "load", "store", "unlock", "done"}
    BY <2>1 DEF Tables
  <2> QED
    BY <1>7, <2>1, <2>2 DEF Calculate
<1> QED
  BY <1>1, <1>2, <1>3, <1>4, <1>5, <1>6, <1>7, Steps DEF Quiet

(* The lock excludes the other handlers from loading and storing. *)
LEMMA LockedStep ==
  ASSUME CountInv, [Next]_vars
  PROVE  Locked'
<1> USE DEF CountInv
<1> DEFINE Sum(v) == [pos \in Position |-> IF pos \in table[v] THEN ans[pos] + 1
                                                              ELSE ans[pos]]
<1>1. \A v \in Worker : /\ handler[v] \in {"load", "store", "unlock"} <=> lock = v
                        /\ handler[v] = "store" => sum[v] = Sum(v)
  BY DEF Locked
<1>2. SUFFICES \A v \in Worker :
                 /\ handler'[v] \in {"load", "store", "unlock"} <=> lock' = v
                 /\ handler'[v] = "store" => sum'[v] = Sum(v)'
  BY DEF Locked
<1>3. /\ DOMAIN handler = Worker /\ DOMAIN sum = Worker
      /\ IPnum \notin Worker
  BY WorkersAssumption DEF Typed, TypeOK, Worker
<1>4. CASE ~ \E w \in Worker : Lock(w) \/ Load(w) \/ Store(w) \/ Unlock(w)
  <2>1. \A v \in Worker : handler'[v] = "store" =>
          handler[v] = "store" /\ Sum(v)' = Sum(v) /\ sum'[v] = sum[v]
    BY <1>4, OutsideLock DEF Position
  <2>2. \A v \in Worker : handler'[v] \in {"load", "store", "unlock"} <=>
                           handler[v] \in {"load", "store", "unlock"}
    BY <1>4, OutsideLock
  <2>3. lock' = lock
    BY <1>4, OutsideLock
  <2> HIDE DEF Sum
  <2> QED
    BY <1>1, <2>1, <2>2, <2>3
<1>5. ASSUME NEW w \in Worker, Lock(w)
      PROVE  \A v \in Worker :
               /\ handler'[v] \in {"load", "store", "unlock"} <=> lock' = v
               /\ handler'[v] = "store" => sum'[v] = Sum(v)'
  <2>1. lock = IPnum /\ lock' = w /\ handler'[w] = "load"
        /\ \A v \in Worker \ {w} : handler'[v] = handler[v]
    BY <1>3, <1>5 DEF Lock, LockFree
  <2>2. \A v \in Worker : handler[v] \notin {"load", "store", "unlock"}
    BY <1>1, <1>3, <2>1
  <2> HIDE DEF Sum
  <2> QED
    BY <2>1, <2>2
<1>6. ASSUME NEW w \in Worker, Load(w)
      PROVE  \A v \in Worker :
               /\ handler'[v] \in {"load", "store", "unlock"} <=> lock' = v
               /\ handler'[v] = "store" => sum'[v] = Sum(v)'
  <2>1. /\ lock' = lock /\ handler[w] = "load" /\ handler'[w] = "store"
        /\ UNCHANGED <<fileLen, ans, table>> /\ sum' = [sum EXCEPT ![w] = Sum(w)]
        /\ \A v \in Worker \ {w} : handler'[v] = handler[v]
    BY <1>3, <1>6 DEF Load, Runs
  <2>2. Sum(w)' = Sum(w) /\ sum'[w] = Sum(w)
    BY <1>3, <2>1 DEF Position
  <2> HIDE DEF Sum
  <2>3. \A v \in Worker \ {w} : handler[v] \notin {"load", "store", "unlock"}
    BY <1>1, <2>1
  <2> QED
    BY <1>1, <2>1, <2>2, <2>3
<1>7. ASSUME NEW w \in Worker, Store(w) \/ Unlock(w)
      PROVE  \A v \in Worker :
               /\ handler'[v] \in {"load", "store", "unlock"} <=> lock' = v
               /\ handler'[v] = "store" => sum'[v] = Sum(v)'
  <2>1. /\ handler[w] \in {"store", "unlock"}
        /\ \/ handler'[w] = "unlock" /\ lock' = lock
           \/ handler'[w] = "done" /\ lock' = IPnum
        /\ \A v \in Worker \ {w} : handler'[v] = handler[v]
    BY <1>3, <1>7 DEF Store, Unlock, Released, Runs
  <2> HIDE DEF Sum
  <2>2. \A v \in Worker \ {w} : handler[v] \notin {"load", "store", "unlock"}
    BY <1>1, <2>1
  <2> QED
    BY <1>1, <1>3, <2>1, <2>2
<1> HIDE DEF Sum
<1> QED
  BY <1>4, <1>5, <1>6, <1>7

(* Any set of workers is finite. *)
LEMMA WorkersFinite ==
  ASSUME NEW S \in SUBSET Worker
  PROVE  IsFiniteSet(S) /\ Cardinality(S) \in Nat
<1>1. IsFiniteSet(Worker)
  BY WorkersAssumption, FS_Interval DEF Worker
<1> QED
  BY <1>1, FS_Subset, FS_CardinalityType

(* Storing a sum adds one table and loses none. *)
LEMMA NoLostUpdateStep ==
  ASSUME CountInv, [Next]_vars
  PROVE  NoLostUpdate'
<1> USE DEF CountInv
<1> DEFINE In(pos) == {v \in Added : pos \in table[v]}
<1>1. \A pos \in Position : ans[pos] = Cardinality(In(pos))
  BY DEF NoLostUpdate
<1>2. SUFFICES \A pos \in Position' : ans'[pos] = Cardinality(In(pos)')
  BY DEF NoLostUpdate
<1>3. DOMAIN handler = Worker
  BY DEF Typed, TypeOK
<1>4. CASE ~ \E w \in Worker : Lock(w) \/ Load(w) \/ Store(w) \/ Unlock(w)
  <2>1. Position' = Position /\ ans' = ans
    BY <1>4, OutsideLock DEF Position
  <2>2. Added' = Added /\ \A v \in Added : table'[v] = table[v]
    BY <1>4, OutsideLock DEF Added
  <2>3. \A pos \in Position : In(pos)' = In(pos)
    BY <2>2
  <2> HIDE DEF In
  <2> QED
    BY <1>1, <2>1, <2>3
<1>5. ASSUME NEW w \in Worker, Lock(w) \/ Load(w) \/ Unlock(w)
      PROVE  \A pos \in Position' : ans'[pos] = Cardinality(In(pos)')
  <2>1. Position' = Position /\ ans' = ans /\ table' = table
    BY <1>5 DEF Lock, Load, Unlock, Position
  <2>2. Added' = Added
    BY <1>3, <1>5 DEF Lock, Load, Unlock, Runs, Added
  <2>3. \A pos \in Position : In(pos)' = In(pos)
    BY <2>1, <2>2
  <2> HIDE DEF In
  <2> QED
    BY <1>1, <2>1, <2>3
<1>6. ASSUME NEW w \in Worker, Store(w)
      PROVE  \A pos \in Position' : ans'[pos] = Cardinality(In(pos)')
  <2>1. Position' = Position /\ table' = table /\ ans' = sum[w] /\ handler[w] = "store"
    BY <1>6 DEF Store, Runs, Position
  <2>2. Added' = Added \cup {w} /\ w \notin Added
    BY <1>3, <1>6 DEF Store, Runs, Added
  <2>3. sum[w] = [pos \in Position |-> IF pos \in table[w] THEN ans[pos] + 1
                                                           ELSE ans[pos]]
    BY <2>1 DEF Locked
  <2> SUFFICES ASSUME NEW pos \in Position
               PROVE  ans'[pos] = Cardinality(In(pos)')
    BY <2>1
  <2>4. In(pos) \in SUBSET Worker /\ w \notin In(pos)
    BY <2>2 DEF Added
  <2>5. In(pos)' = IF pos \in table[w] THEN In(pos) \cup {w} ELSE In(pos)
    BY <2>1, <2>2
  <2>6. ans'[pos] = IF pos \in table[w] THEN ans[pos] + 1 ELSE ans[pos]
    BY <2>1, <2>3
  <2> HIDE DEF In
  <2>7. Cardinality(In(pos) \cup {w}) = Cardinality(In(pos)) + 1
    BY <2>4, WorkersFinite, FS_AddElement
  <2> QED
    BY <1>1, <2>5, <2>6, <2>7
<1> HIDE DEF In
<1> QED
  BY <1>4, <1>5, <1>6
-----------------------------------------------------------------------------
(* The invariant of the letter count. *)
THEOREM CountInvariance == Spec => []CountInv
<1>1. CountInv /\ [Next]_vars => CountInv'
  BY TypedStep, AcceptedStep, InOrderStep, ReceivedStep, TablesStep, LockedStep,
     NoLostUpdateStep DEF CountInv
<1> QED
  BY <1>1, CountInit, PTL DEF Spec

(* The variables of the server and the clients keep their types; no more   *)
(* than three messages are ever on the way to a client.                    *)
THEOREM CountTypeCorrect == Spec => []TypeOK
<1>1. CountInv => TypeOK
  BY DEF CountInv, Typed
<1> QED
  BY <1>1, CountInvariance, PTL

(* However many handlers there are and however they interleave, ans holds  *)
(* the tables of those that have stored theirs, each of them once.         *)
THEOREM CountLosesNoUpdate == Spec => []NoLostUpdate
<1>1. CountInv => NoLostUpdate
  BY DEF CountInv
<1> QED
  BY <1>1, CountInvariance, PTL
-----------------------------------------------------------------------------
(* A larger index is a larger multiple of the length of a part. *)
LEMMA PartsInOrder ==
  ASSUME NEW q \in Nat, NEW a \in Nat, NEW b \in Nat, a <= b
  PROVE  q * a <= q * b /\ q * (a + 1) = q * a + q /\ q * a \in Nat
  OBVIOUS

(* The parts that the server gives out do not overlap. *)
LEMMA PartsDisjoint ==
  ASSUME Typed, NEW v \in Worker, NEW w \in Worker, v < w,
         NEW pos \in Part(v) \cap Part(w)
  PROVE  FALSE
<1> DEFINE q == fileLen \div IPnum
<1>1. q \in Nat /\ IPnum \in Nat \ {0} /\ fileLen \in Nat
      /\ v \in Nat /\ w \in Nat /\ w < IPnum
  BY TaskType
<1>2. pos \in Position /\ pos < rangeEnd(v) /\ startFile(w) <= pos
  BY DEF Part, calculate
<1>3. pos \in Nat
  BY <1>1, <1>2 DEF Position
<1>4. v # IPnum - 1
  BY <1>1
<1>5. pos < q * (v + 1) - 1 /\ q * w <= pos
  BY <1>2, <1>4 DEF rangeEnd, endFile, startFile
<1> HIDE DEF q
<1>6. v + 1 \in Nat /\ v + 1 <= w
  BY <1>1
<1>7. q * (v + 1) <= q * w /\ q * (v + 1) \in Nat
  BY <1>1, <1>6, PartsInOrder
<1>8. q * w \in Nat
  BY <1>1, PartsInOrder
<1> QED
  BY <1>3, <1>5, <1>7, <1>8

(* Whatever the length of the file and the number of workers, no letter is *)
(* counted twice: a table is that of the part of its worker, the parts do  *)
(* not overlap, and each is added once.                                    *)
THEOREM CountedAtMostOnce == Spec => []CountedOnce
<1>1. CountInv => CountedOnce
  <2> SUFFICES ASSUME CountInv, NEW pos \in Position PROVE ans[pos] <= 1
    BY DEF CountedOnce
  <2> DEFINE S == {w \in Added : pos \in table[w]}
  <2>1. ans[pos] = Cardinality(S)
    BY DEF CountInv, NoLostUpdate
  <2>2. \A w \in S : w \in Worker /\ pos \in Part(w)
    BY DEF CountInv, Tables, Added
  <2>3. \A v, w \in S : v = w
    <3>1. \A v, w \in S : ~ (v < w)
      BY <2>2, PartsDisjoint DEF CountInv
    <3>2. \A v \in S : v \in Nat
      BY <2>2, TaskType DEF CountInv
    <3> HIDE DEF S
    <3> QED
      BY <3>1, <3>2
  <2> HIDE DEF S
  <2>4. CASE S = {}
    BY <2>1, <2>4, FS_EmptySet
  <2>5. CASE S # {}
    <3>1. PICK w \in S : S = {w}
      BY <2>3, <2>5
    <3>2. Cardinality(S) = 1
      BY <3>1, FS_Singleton
    <3> QED
      BY <2>1, <3>2
  <2> QED
    BY <2>4, <2>5
<1> QED
  BY <1>1, CountInvariance, PTL
=============================================================================
