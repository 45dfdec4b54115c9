----------------------------- MODULE WordCount -----------------------------
(***************************************************************************)
(* The distributed letter count (socket-exp/socket-example): a server that *)
(* splits a file among the workers of workers.conf, one handler thread a   *)
(* connection, and the clients that count the letters of their part.       *)
(*                                                                         *)
(* A table of counts is represented by the positions of the file it        *)
(* counts, ans by how often it counts each position; every byte of the     *)
(* file stands for a letter.  The messages on a connection are its three   *)
(* sends: the file name, start and end.                                    *)
(***************************************************************************)
EXTENDS Integers, FiniteSets, Sequences

CONSTANTS
  IPnum,      \* the number of workers in workers.conf (countIP)
  FileLens,   \* the lengths the file may have
  BlockLen,   \* what calculate reads at a time (1000)
  Coalesce,   \* whether one recv may return what several sends sent
  MayDie,     \* whether workers may die before they answer
  CleanStack  \* whether what the buffer holds behind the file name is zero

ASSUME WorkersAssumption == IPnum \in Nat \ {0}
ASSUME FileAssumption == FileLens \subseteq Nat /\ BlockLen \in Nat \ {0}
ASSUME CoalesceAssumption == Coalesce \in BOOLEAN /\ MayDie \in BOOLEAN
ASSUME StackAssumption == CleanStack \in BOOLEAN

VARIABLES
  fileLen,    \* the length of the file, which stat returns
  server,     \* the main thread: the index it accepts next, or its end
  handler,    \* where the handler thread of each worker is
  lock,       \* the holder of output_lock, or IPnum
  ans,        \* how often each position has been counted
  sum,        \* what each handler is about to store in ans
  stream,     \* the data on its way to each client
  client,     \* each client: pc, and the name, start and end it received
  table,      \* the positions in the table each client computed
  garbage     \* the workers whose table holds counts of no letter at all

Worker == 0 .. IPnum - 1
Position == 0 .. fileLen - 1

vars == <<fileLen, server, handler, lock, ans, sum, stream, client, table,
          garbage>>

(* The part of the file given to the worker with this index. *)
startFile(index) == (fileLen \div IPnum) * index
endFile(index) == (fileLen \div IPnum) * (index + 1) - 1
endFileFinal == fileLen

(* Variant: every part ends with the file. *)
EndsWithFile(index) == endFileFinal

rangeEnd(index) == IF index # IPnum - 1 THEN endFile(index) ELSE endFileFinal

(* The counts before anything is counted. *)
Zero == [pos \in Position |-> 0]

(* calculate seeks to start and reads end - start bytes.  Under another    *)
(* name than that of the file, open fails and so does every read.          *)
calculate(start, end, filename) ==
  {pos \in Position : filename = "file" /\ start <= pos /\ pos < end}

Init ==
  /\ fileLen \in FileLens
  /\ server = [pc |-> "accept", index |-> 0]
  /\ handler = [w \in Worker |-> "none"]
  /\ lock = IPnum
  /\ ans = Zero
  /\ sum = [w \in Worker |-> Zero]
  /\ stream = [w \in Worker |-> << >>]
  /\ client = [w \in Worker |-> [pc |-> "start", name |-> "none",
                                 from |-> 0, to |-> 0]]
  /\ table = [w \in Worker |-> {}]
  /\ garbage = {}
-----------------------------------------------------------------------------
(* Variant: one accept too many. *)
OneMoreWorker == server.pc = "accept" /\ server.index <= IPnum

(* The loop over the workers goes on. *)
MoreWorkers == server.pc = "accept" /\ server.index < IPnum

(* The main thread.  Clients are numbered in the order they are accepted;  *)
(* each gets a handler thread.                                             *)
Accept ==
  /\ MoreWorkers
  /\ handler' = [handler EXCEPT ![server.index] = "name"]
  /\ client' = [client EXCEPT ![server.index].pc = "name"]
  /\ server' = [server EXCEPT !.index = @ + 1]
  /\ UNCHANGED <<fileLen, lock, ans, sum, stream, table, garbage>>

AcceptFailed ==
  /\ MoreWorkers
  /\ server' = [server EXCEPT !.pc = "failed"]
  /\ UNCHANGED <<fileLen, handler, lock, ans, sum, stream, client, table,
                 garbage>>

(* pthread_join of the last thread, then ans is printed and main returns,  *)
(* which ends the handlers that are still running.                         *)
PrintAns ==
  /\ server.pc = "accept" /\ server.index = IPnum
  /\ handler[IPnum - 1] = "done"
  /\ server' = [server EXCEPT !.pc = "printed"]
  /\ UNCHANGED <<fileLen, handler, lock, ans, sum, stream, client, table,
                 garbage>>
-----------------------------------------------------------------------------
(* The handler thread of worker w runs until main has returned. *)
Runs(w, pc) == server.pc = "accept" /\ handler[w] = pc

Send(w, pc, message, to) ==
  /\ Runs(w, pc)
  /\ stream' = [stream EXCEPT ![w] = Append(@, message)]
  /\ handler' = [handler EXCEPT ![w] = to]
  /\ UNCHANGED <<fileLen, server, lock, ans, sum, client, table, garbage>>

SendTask(w) ==
  \/ Send(w, "name", [filename |-> TRUE], "start")
  \/ Send(w, "start", [long |-> startFile(w)], "end")
  \/ Send(w, "end", [long |-> rangeEnd(w)], "recv")

(* A second send to a worker that has closed its end may raise SIGPIPE,    *)
(* which nothing in the server handles.                                    *)
SigPipe(w) ==
  /\ \E pc \in {"start", "end"} : Runs(w, pc)
  /\ client[w].pc = "dead"
  /\ server' = [server EXCEPT !.pc = "killed"]
  /\ UNCHANGED <<fileLen, handler, lock, ans, sum, stream, client, table,
                 garbage>>

(* recv of the table.  A worker that died leaves the local array as it     *)
(* was, uninitialized, and the result of recv is not looked at.            *)
RecvTable(w) ==
  /\ Runs(w, "recv")
  /\ client[w].pc \in {"sent", "dead"}
  /\ handler' = [handler EXCEPT ![w] = "lock"]
  /\ garbage' = IF client[w].pc = "dead" THEN garbage \cup {w} ELSE garbage
  /\ UNCHANGED <<fileLen, server, lock, ans, sum, stream, client, table>>

(* Variants: the lock is not waited for, or is kept. *)
NotWaitedFor == TRUE
StillHeld == lock

LockFree == lock = IPnum
Released == IPnum

Lock(w) ==
  /\ Runs(w, "lock")
  /\ LockFree
  /\ lock' = w
  /\ handler' = [handler EXCEPT ![w] = "load"]
  /\ UNCHANGED <<fileLen, server, ans, sum, stream, client, table, garbage>>

(* ans[i] += table[i]: a load and a store. *)
Load(w) ==
  /\ Runs(w, "load")
  /\ sum' = [sum EXCEPT ![w] =
               [pos \in Position |-> IF pos \in table[w] THEN ans[pos] + 1
                                                         ELSE ans[pos]]]
  /\ handler' = [handler EXCEPT ![w] = "store"]
  /\ UNCHANGED <<fileLen, server, lock, ans, stream, client, table,
                 garbage>>

Store(w) ==
  /\ Runs(w, "store")
  /\ ans' = sum[w]
  /\ sum' = [sum EXCEPT ![w] = Zero]
  /\ handler' = [handler EXCEPT ![w] = "unlock"]
  /\ UNCHANGED <<fileLen, server, lock, stream, client, table, garbage>>

(* Unlock, close and pthread_exit. *)
Unlock(w) ==
  /\ Runs(w, "unlock")
  /\ lock' = Released
  /\ handler' = [handler EXCEPT ![w] = "done"]
  /\ UNCHANGED <<fileLen, server, ans, sum, stream, client, table, garbage>>
-----------------------------------------------------------------------------
(* The name a client reads from buf.  The server sends no NUL behind it    *)
(* and the client clears no more than the first bytes of buf: the name     *)
(* goes on with what the stack holds there or, when start came along with  *)
(* it, with start, whose lowest byte is the first.                         *)
NameRead(w, n) ==
  IF n > 1
  THEN {IF stream[w][2].long % 256 = 0 THEN "file" ELSE "longer"}
  ELSE {"file"} \cup (IF CleanStack THEN {} ELSE {"longer"})

(* The client.  The first recv takes up to 1000 bytes: the file name and,  *)
(* if they have arrived too, the numbers behind it.                        *)
RecvName(w, n) ==
  /\ client[w].pc = "name"
  /\ n \in 1 .. Len(stream[w])
  /\ n = 1 \/ Coalesce
  /\ stream' = [stream EXCEPT ![w] = SubSeq(@, n + 1, Len(@))]
  /\ \E name \in NameRead(w, n) :
       client' = [client EXCEPT ![w].pc = "from", ![w].name = name]
  /\ UNCHANGED <<fileLen, server, handler, lock, ans, sum, table, garbage>>

RecvFrom(w) ==
  /\ client[w].pc = "from"
  /\ stream[w] # << >>
  /\ client' = [client EXCEPT ![w].pc = "to", ![w].from = Head(stream[w]).long]
  /\ stream' = [stream EXCEPT ![w] = Tail(@)]
  /\ UNCHANGED <<fileLen, server, handler, lock, ans, sum, table, garbage>>

RecvTo(w) ==
  /\ client[w].pc = "to"
  /\ stream[w] # << >>
  /\ client' = [client EXCEPT ![w].pc = "count", ![w].to = Head(stream[w]).long]
  /\ stream' = [stream EXCEPT ![w] = Tail(@)]
  /\ UNCHANGED <<fileLen, server, handler, lock, ans, sum, table, garbage>>

(* recv returns at once, with nothing, when the server has gone; the first *)
(* bytes of buf are zero then, which is the name of no file.               *)
RecvNothing(w, from, to) ==
  /\ server.pc # "accept" /\ stream[w] = << >>
  /\ client[w].pc = from
  /\ client' = [client EXCEPT ![w].pc = to]
  /\ UNCHANGED <<fileLen, server, handler, lock, ans, sum, stream, table,
                 garbage>>

RecvEnd(w) == \/ RecvNothing(w, "name", "from")
              \/ RecvNothing(w, "from", "to")
              \/ RecvNothing(w, "to", "count")

(* strlen of a full block runs past the buffer: whether it meets letters   *)
(* there depends on what the stack holds.                                  *)
Calculate(w) ==
  /\ client[w].pc = "count"
  /\ table' = [table EXCEPT ![w] =
                 calculate(client[w].from, client[w].to, client[w].name)]
  /\ \/ UNCHANGED garbage
     \/ /\ client[w].name = "file"
        /\ client[w].to - client[w].from >= BlockLen
        /\ garbage' = garbage \cup {w}
  /\ client' = [client EXCEPT ![w].pc = "sent"]
  /\ UNCHANGED <<fileLen, server, handler, lock, ans, sum, stream>>

Die(w) ==
  /\ MayDie
  /\ client[w].pc \in {"name", "from", "to", "count"}
  /\ client' = [client EXCEPT ![w].pc = "dead"]
  /\ UNCHANGED <<fileLen, server, handler, lock, ans, sum, stream, table,
                 garbage>>

Handler(w) == SendTask(w) \/ RecvTable(w) \/ Lock(w) \/ Load(w) \/ Store(w)
              \/ Unlock(w)

Client(w) == (\E n \in 1 .. 3 : RecvName(w, n)) \/ RecvFrom(w) \/ RecvTo(w)
             \/ RecvEnd(w) \/ Calculate(w)

Next ==
  \/ Accept \/ AcceptFailed \/ PrintAns
  \/ \E w \in Worker : Handler(w) \/ SigPipe(w) \/ Client(w) \/ Die(w)

Spec == Init /\ [][Next]_vars

(* Every thread and every client is scheduled, and all the clients that    *)
(* workers.conf lists connect.                                             *)
FairSpec ==
  /\ Spec
  /\ WF_vars(Accept) /\ WF_vars(PrintAns)
  /\ \A w \in Worker : WF_vars(Handler(w)) /\ WF_vars(Client(w))
-----------------------------------------------------------------------------
TypeOK ==
  /\ fileLen \in FileLens
  /\ server.pc \in {"accept", "failed", "printed", "killed"}
  /\ server.index \in 0 .. IPnum
  /\ handler \in [Worker -> {"none", "name", "start", "end", "recv", "lock",
                             "load", "store", "unlock", "done"}]
  /\ lock \in 0 .. IPnum
  /\ ans \in [Position -> Nat] /\ sum \in [Worker -> [Position -> Nat]]
  /\ \A w \in Worker : Len(stream[w]) <= 3
  /\ \A w \in Worker :
       /\ client[w].pc \in
            {"start", "name", "from", "to", "count", "sent", "dead"}
       /\ client[w].name \in {"none", "file", "longer"}
  /\ table \in [Worker -> SUBSET Position]
  /\ garbage \subseteq Worker

(* The workers whose table has been added. *)
Added == {w \in Worker : handler[w] \in {"unlock", "done"}}

(* No addition is lost or repeated: ans holds the tables of the handlers   *)
(* that have stored theirs, whichever way the handlers interleave.         *)
NoLostUpdate ==
  \A pos \in Position :
    ans[pos] = Cardinality({w \in Added : pos \in table[w]})

(* No letter is counted twice, whatever the file length and the number of  *)
(* workers: the parts of two workers do not overlap.                       *)
CountedOnce == \A pos \in Position : ans[pos] <= 1

(* The server comes to print a result, also if workers die while they work *)
(* on their part, unless accept fails or a worker dies so early that       *)
(* sending it its task kills the server.                                   *)
EventuallyPrints == <>(server.pc \in {"printed", "failed", "killed"})

(* The printed result counts every letter of the file: it holds the tables *)
(* of all workers, and together they leave no position out.                *)
EveryLetterCounted ==
  server.pc = "printed" => \A pos \in Position : ans[pos] > 0
=============================================================================
