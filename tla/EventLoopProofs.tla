-------------------------- MODULE EventLoopProofs --------------------------
(***************************************************************************)
(* Proofs about the receive loop, for any number of interfaces and frames: *)
(* recvfrom never blocks, a frame is handled once, and no interface keeps  *)
(* another from being served; and about the switch program that runs it,   *)
(* which shows handle_packet nothing but what Switch assumes.              *)
(***************************************************************************)
EXTENDS EventLoop, TLAPS, SequenceTheorems

(* handle_packet runs for an interface that poll reported. *)
InHand ==
  /\ packet # NoPacket => i # 0 /\ i \in revents
  /\ sent => packet # NoPacket

(* A frame that waits to be received has arrived and has not been handled, *)
(* and it waits in one place.                                              *)
Waiting(k, n) ==
  k \in Ifs /\ n \in 1 .. Len(queue[k]) /\ Incoming(queue[k][n])
Unhandled ==
  /\ \A f \in 1 .. MaxFrames : f > arrived => handled[f] = 0
  /\ \A k \in Ifs : \A n \in 1 .. Len(queue[k]) :
       Waiting(k, n) => /\ queue[k][n].id <= arrived
                        /\ handled[queue[k][n].id] = 0
  /\ \A k, l \in Ifs :
       \A n \in 1 .. Len(queue[k]), m \in 1 .. Len(queue[l]) :
         (Waiting(k, n) /\ Waiting(l, m) /\ queue[k][n].id = queue[l][m].id)
           => k = l /\ n = m

(* The scan has passed the interfaces up to this one. *)
Passed == IF packet = NoPacket THEN i - 1 ELSE i

(* How often an interface can have been passed over at this place of the   *)
(* scan, depending on whether poll reported it and on whether its turn is  *)
(* over.                                                                   *)
BypassLimit(k) ==
  IF i = 0 THEN nifs - 1
  ELSE IF k \in revents
       THEN IF k > Passed THEN (nifs - 1) + Passed ELSE Passed - k
       ELSE IF k > Passed THEN Passed ELSE Passed - 1
Overtaken ==
  /\ bypassed \in [Ifs -> Nat]
  /\ \A k \in Ifs : bypassed[k] <= BypassLimit(k)
  /\ \A k \in Ifs : queue[k] = << >> => bypassed[k] = 0
  /\ \A k \in Ifs \ open : queue[k] = << >>

LoopInv ==
  TypeOK /\ NeverBlocks /\ InHand /\ Unhandled /\ HandledOnce /\ Overtaken
-----------------------------------------------------------------------------
(* A frame is not the absence of one. *)
LEMMA FrameIsAPacket == \A f \in Frame : f # NoPacket /\ f.id \in 1 .. MaxFrames
  BY BoundsAssumption DEF Frame, NoPacket

(* What waits in a socket is a frame. *)
LEMMA QueuedFrames ==
  ASSUME TypeOK
  PROVE  \A k \in Ifs : \A n \in 1 .. Len(queue[k]) :
           queue[k][n] \in Frame /\ queue[k][n].id \in 1 .. MaxFrames
<1> SUFFICES ASSUME NEW k \in Ifs, NEW n \in 1 .. Len(queue[k])
             PROVE  queue[k][n] \in Frame
  BY FrameIsAPacket
<1>1. queue[k] \in Seq(Frame)
  BY DEF TypeOK
<1> QED
  BY <1>1, ElementOfSeq

(* The end of an iteration leaves the scan at an interface or in poll. *)
LEMMA NextIfaceType ==
  ASSUME i \in 0 .. nifs, i # 0, NextIface
  PROVE  i' \in 0 .. nifs /\ (i' = 0 \/ i' = i + 1) /\ (i' = 0 => i = nifs)
  BY NifsAssumption DEF NextIface

(* The sockets hold frames, as many as they have room for. *)
QueuesOK ==
  /\ queue \in [Ifs -> Seq(Frame)]
  /\ \A k \in Ifs : Len(queue[k]) <= MaxQueue

(* What is left in the sockets once the frame at the head of one is taken. *)
LEMMA DequeueProperties ==
  ASSUME QueuesOK, i \in Ifs, queue[i] # << >>, Dequeue
  PROVE  /\ queue' \in [Ifs -> Seq(Frame)]
         /\ \A k \in Ifs : Len(queue'[k]) <= MaxQueue
         /\ Head(queue[i]) \in Frame /\ Head(queue[i]) = queue[i][1]
         /\ 1 \in 1 .. Len(queue[i])
         /\ \A k \in Ifs : k # i => queue'[k] = queue[k]
         /\ \A n \in 1 .. Len(queue'[i]) :
              n + 1 \in 1 .. Len(queue[i]) /\ queue'[i][n] = queue[i][n + 1]
<1>1. queue \in [Ifs -> Seq(Frame)] /\ queue[i] \in Seq(Frame)
  BY DEF QueuesOK
<1>2. queue' = [queue EXCEPT ![i] = Tail(queue[i])]
  BY DEF Dequeue
<1>3. /\ Head(queue[i]) \in Frame
      /\ Tail(queue[i]) \in Seq(Frame)
      /\ Len(Tail(queue[i])) = Len(queue[i]) - 1
      /\ \A n \in 1 .. Len(Tail(queue[i])) : Tail(queue[i])[n] = queue[i][n + 1]
  BY <1>1, HeadTailProperties
<1>4. Len(queue[i]) \in Nat \ {0}
  BY <1>1, EmptySeq
<1>5. queue'[i] = Tail(queue[i]) /\ \A k \in Ifs : k # i => queue'[k] = queue[k]
  BY <1>1, <1>2
<1>6. queue' \in [Ifs -> Seq(Frame)]
  BY <1>1, <1>2, <1>3
<1>7. \A k \in Ifs : Len(queue'[k]) <= MaxQueue
  BY <1>3, <1>4, <1>5, BoundsAssumption DEF QueuesOK
<1>8. Head(queue[i]) = queue[i][1]
  BY <1>1
<1> QED
  BY <1>3, <1>4, <1>5, <1>6, <1>7, <1>8

(* Frame f has been added to the sockets of some of the interfaces ifs. *)
Enqueued(ifs, f) ==
  /\ queue' \in [Ifs -> Seq(Frame)]
  /\ \A k \in Ifs : Len(queue'[k]) <= MaxQueue
  /\ \A k \in Ifs : queue[k] # << >> => queue'[k] # << >>
  /\ \A k \in Ifs : \A n \in 1 .. Len(queue'[k]) :
       \/ n \in 1 .. Len(queue[k]) /\ queue'[k][n] = queue[k][n]
       \/ k \in ifs /\ n = Len(queue[k]) + 1 /\ queue'[k][n] = f

(* Appending a frame to the queues that have room for it adds it. *)
LEMMA EnqueueProperties ==
  ASSUME QueuesOK, NEW f \in Frame, NEW ifs,
         queue' = [k \in Ifs |-> IF k \in ifs /\ Len(queue[k]) < MaxQueue
                                 THEN Append(queue[k], f) ELSE queue[k]]
  PROVE  Enqueued(ifs, f)
<1> SUFFICES ASSUME NEW k \in Ifs
             PROVE  /\ queue'[k] \in Seq(Frame)
                    /\ Len(queue'[k]) <= MaxQueue
                    /\ queue[k] # << >> => queue'[k] # << >>
                    /\ \A n \in 1 .. Len(queue'[k]) :
                         \/ n \in 1 .. Len(queue[k]) /\ queue'[k][n] = queue[k][n]
                         \/ k \in ifs /\ n = Len(queue[k]) + 1 /\ queue'[k][n] = f
  BY DEF Enqueued
<1>1. queue[k] \in Seq(Frame) /\ Len(queue[k]) \in Nat /\ Len(queue[k]) <= MaxQueue
  BY LenProperties DEF QueuesOK
<1>2. CASE k \in ifs /\ Len(queue[k]) < MaxQueue
  <2>1. queue'[k] = Append(queue[k], f)
    BY <1>2
  <2>2. /\ Append(queue[k], f) \in Seq(Frame)
        /\ Len(Append(queue[k], f)) = Len(queue[k]) + 1
        /\ \A n \in 1 .. Len(queue[k]) : Append(queue[k], f)[n] = queue[k][n]
        /\ Append(queue[k], f)[Len(queue[k]) + 1] = f
    BY <1>1, AppendProperties
  <2>3. queue'[k] # << >>
    BY <1>1, <2>1, <2>2, EmptySeq
  <2> QED
    BY <1>1, <1>2, <2>1, <2>2, <2>3, BoundsAssumption
<1>3. CASE ~(k \in ifs /\ Len(queue[k]) < MaxQueue)
  BY <1>1, <1>3
<1> QED
  BY <1>2, <1>3

(* The frame that arrives next. *)
NewFrame == [id |-> arrived + 1, outgoing |-> FALSE]

(* A frame with a new number arrives. *)
LEMMA ArriveQueue ==
  ASSUME TypeOK, NEW k \in Ifs, Arrive(k)
  PROVE  NewFrame \in Frame /\ Enqueued({k}, NewFrame)
<1>1. arrived + 1 \in 1 .. MaxFrames
  BY BoundsAssumption DEF TypeOK, Arrive
<1>2. queue \in [Ifs -> Seq(Frame)]
  BY DEF TypeOK
<1>3. queue' = [l \in Ifs |-> IF l \in {k} /\ Len(queue[l]) < MaxQueue
                              THEN Append(queue[l], NewFrame) ELSE queue[l]]
  BY <1>2 DEF Arrive, NewFrame
<1>4. NewFrame \in Frame
  BY <1>1 DEF NewFrame, Frame
<1> QED
  BY <1>3, <1>4, EnqueueProperties DEF QueuesOK, TypeOK

(* The copy of a frame that a socket it leaves by captures. *)
CapturedCopy == [packet EXCEPT !.outgoing = TRUE]

(* The sockets of the interfaces a frame leaves by capture a copy of it. *)
LEMMA TransmitQueue ==
  ASSUME TypeOK, NEW ifs, Transmit(ifs)
  PROVE  /\ CapturedCopy \in Frame /\ CapturedCopy.outgoing = TRUE
         /\ Enqueued(ifs \cap open, CapturedCopy)
<1>1. packet \in Frame
  BY DEF Transmit, TypeOK
<1>2. CapturedCopy \in Frame /\ CapturedCopy.outgoing = TRUE
  BY <1>1 DEF CapturedCopy, Frame
<1>3. queue' = [l \in Ifs |->
                  IF l \in ifs \cap open /\ Len(queue[l]) < MaxQueue
                  THEN Append(queue[l], CapturedCopy) ELSE queue[l]]
  BY DEF Transmit, CapturedCopy
<1> QED
  BY <1>2, <1>3, EnqueueProperties DEF QueuesOK, TypeOK

(* recvfrom is called for an interface whose socket holds a frame. *)
LEMMA SocketIsReady ==
  ASSUME LoopInv, AtSocket
  PROVE  i \in Ifs /\ i # 0 /\ queue[i] # << >> /\ packet = NoPacket /\ ~ sent
<1>1. i \in Ifs /\ i # 0
  BY NifsAssumption DEF LoopInv, TypeOK, AtSocket, Ifs
<1> QED
  BY <1>1 DEF LoopInv, NeverBlocks, InHand, AtSocket

(* The frame that is received is one. *)
LEMMA ReceivedFrame ==
  ASSUME LoopInv, Receive
  PROVE  /\ packet' = queue[i][1] /\ packet' \in Frame /\ packet' # NoPacket
         /\ packet'.id \in 1 .. MaxFrames /\ Waiting(i, 1)
  BY SocketIsReady, DequeueProperties, FrameIsAPacket
     DEF QueuesOK, TypeOK, LoopInv, Receive, Waiting
-----------------------------------------------------------------------------
(* The loop starts with empty sockets. *)
LEMMA LoopInit == Init => LoopInv
<1> SUFFICES ASSUME Init PROVE LoopInv
  OBVIOUS
<1>1. << >> \in Seq(Frame) /\ Len(<< >>) = 0
  BY EmptySeq
<1>2. \A k \in Ifs : queue[k] = << >> /\ queue[k] \in Seq(Frame)
                     /\ Len(queue[k]) = 0
  BY <1>1 DEF Init
<1>3. TypeOK
  <2>1. open \subseteq Ifs
    BY DEF Init, SwitchOpens, NatOpens
  <2>2. queue \in [Ifs -> Seq(Frame)] /\ \A k \in Ifs : Len(queue[k]) <= MaxQueue
    BY <1>2, BoundsAssumption DEF Init
  <2>3. handled \in [1 .. MaxFrames -> Nat]
    BY DEF Init
  <2>4. i \in 0 .. nifs /\ arrived \in 0 .. MaxFrames /\ errors \in 0 .. MaxErrors
    BY NifsAssumption, BoundsAssumption DEF Init
  <2>5. /\ stack \in {"switch", "nat"} /\ revents \subseteq Ifs
        /\ packet \in Frame \cup {NoPacket} /\ sent \in BOOLEAN
        /\ running \in BOOLEAN
    BY Zenon DEF Init
  <2> QED
    BY <2>1, <2>2, <2>3, <2>4, <2>5 DEF TypeOK
<1>4. NeverBlocks /\ InHand
  BY DEF Init, NeverBlocks, InHand
<1>5. Unhandled /\ HandledOnce
  BY <1>2 DEF Init, Unhandled, HandledOnce
<1>6. Overtaken
  BY <1>2, NifsAssumption DEF Init, Overtaken, BypassLimit
<1> QED
  BY <1>3, <1>4, <1>5, <1>6 DEF LoopInv

(* Every step keeps the types. *)
LEMMA TypeStep ==
  ASSUME LoopInv, [Next]_vars
  PROVE  TypeOK'
<1> USE DEF LoopInv
<1>1. ASSUME NEW k \in Ifs, Arrive(k)
      PROVE  TypeOK'
  <2>1. /\ queue' \in [Ifs -> Seq(Frame)]
        /\ \A l \in Ifs : Len(queue'[l]) <= MaxQueue
    BY <1>1, ArriveQueue DEF Enqueued
  <2>2. arrived' \in 0 .. MaxFrames
    BY <1>1, BoundsAssumption DEF Arrive, TypeOK
  <2> QED
    BY <1>1, <2>1, <2>2 DEF Arrive, TypeOK
<1>2. CASE Poll
  BY <1>2, NifsAssumption DEF Poll, Readable, TypeOK
<1>3. CASE PollFailed
  BY <1>3 DEF PollFailed, TypeOK
<1>4. CASE NotReadable
  BY <1>4, NextIfaceType DEF NotReadable, TypeOK
<1>5. CASE RecvError
  <2>1. i' \in 0 .. nifs
    BY <1>5, SocketIsReady, NextIfaceType DEF RecvError, TypeOK
  <2>2. errors' \in 0 .. MaxErrors
    BY <1>5, BoundsAssumption DEF RecvError, TypeOK
  <2> QED
    BY <1>5, <2>1, <2>2 DEF RecvError, TypeOK
<1>6. CASE RecvOutgoing \/ NoMemory
  <2>1. i' \in 0 .. nifs
    BY <1>6, SocketIsReady, NextIfaceType DEF RecvOutgoing, NoMemory, TypeOK
  <2>2. /\ queue' \in [Ifs -> Seq(Frame)]
        /\ \A k \in Ifs : Len(queue'[k]) <= MaxQueue
    BY <1>6, SocketIsReady, DequeueProperties DEF QueuesOK, TypeOK, RecvOutgoing, NoMemory
  <2> QED
    BY <1>6, <2>1, <2>2 DEF RecvOutgoing, NoMemory, TypeOK
<1>7. CASE Receive
  <2>1. /\ queue' \in [Ifs -> Seq(Frame)]
        /\ \A k \in Ifs : Len(queue'[k]) <= MaxQueue
    BY <1>7, SocketIsReady, DequeueProperties DEF QueuesOK, TypeOK, Receive
  <2>2. packet' \in Frame /\ packet'.id \in 1 .. MaxFrames
    BY <1>7, ReceivedFrame
  <2>3. handled' \in [1 .. MaxFrames -> Nat]
    BY <1>7, <2>2 DEF Receive, TypeOK
  <2> QED
    BY <1>7, <2>1, <2>2, <2>3 DEF Receive, TypeOK
<1>8. CASE Return
  <2>1. i' \in 0 .. nifs
    BY <1>8, NextIfaceType DEF Return, InHand, TypeOK
  <2> QED
    BY <1>8, <2>1 DEF Return, TypeOK
<1>9. ASSUME NEW ifs \in SUBSET Ifs, Transmit(ifs)
      PROVE  TypeOK'
  <2>1. /\ queue' \in [Ifs -> Seq(Frame)]
        /\ \A l \in Ifs : Len(queue'[l]) <= MaxQueue
    BY <1>9, TransmitQueue DEF Enqueued
  <2> QED
    BY <1>9, <2>1 DEF Transmit, TypeOK
<1>10. CASE UNCHANGED vars
  BY <1>10 DEF vars, TypeOK
<1> QED
  BY <1>1, <1>2, <1>3, <1>4, <1>5, <1>6, <1>7, <1>8, <1>9, <1>10
     DEF Next, Loop

(* A frame that a socket held for poll is not taken from it before the     *)
(* scan comes to it.                                                       *)
LEMMA BlockStep ==
  ASSUME LoopInv, [Next]_vars
  PROVE  NeverBlocks'
<1> USE DEF LoopInv
<1>1. ASSUME NEW k \in Ifs, Arrive(k)
      PROVE  NeverBlocks'
  BY <1>1, ArriveQueue DEF Enqueued, Arrive, NeverBlocks, TypeOK
<1>2. CASE Poll
  BY <1>2 DEF Poll, Readable, NeverBlocks
<1>3. CASE PollFailed
  BY <1>3 DEF PollFailed, NeverBlocks
<1>4. CASE NotReadable
  <2>1. i' = 0 \/ i' = i + 1
    BY <1>4, NextIfaceType DEF NotReadable, TypeOK
  <2> QED
    BY <1>4, <2>1, NifsAssumption DEF NotReadable, NeverBlocks, TypeOK, Ifs
<1>5. CASE RecvError
  <2>1. i \in Ifs /\ (i' = 0 \/ i' = i + 1)
    BY <1>5, SocketIsReady, NextIfaceType DEF RecvError, TypeOK
  <2> QED
    BY <1>5, <2>1, NifsAssumption DEF RecvError, NeverBlocks, TypeOK, Ifs
<1>6. CASE RecvOutgoing \/ NoMemory
  <2>1. i \in Ifs /\ (i' = 0 \/ i' = i + 1)
    BY <1>6, SocketIsReady, NextIfaceType DEF RecvOutgoing, NoMemory, TypeOK
  <2>2. \A k \in Ifs : k # i => queue'[k] = queue[k]
    BY <1>6, SocketIsReady, DequeueProperties DEF QueuesOK, TypeOK, RecvOutgoing, NoMemory
  <2>3. revents' = revents /\ packet' = packet /\ revents \subseteq Ifs
    BY <1>6 DEF RecvOutgoing, NoMemory, TypeOK
  <2> QED
    BY <2>1, <2>2, <2>3, NifsAssumption DEF NeverBlocks, Ifs
<1>7. CASE Receive
  <2>1. packet' # NoPacket
    BY <1>7, ReceivedFrame
  <2>2. i \in Ifs /\ \A k \in Ifs : k # i => queue'[k] = queue[k]
    BY <1>7, SocketIsReady, DequeueProperties DEF QueuesOK, TypeOK, Receive
  <2> QED
    BY <1>7, <2>1, <2>2, NifsAssumption DEF Receive, NeverBlocks, TypeOK, Ifs
<1>8. CASE Return
  <2>1. i \in Ifs /\ (i' = 0 \/ i' = i + 1)
    BY <1>8, NextIfaceType DEF Return, InHand, TypeOK
  <2> QED
    BY <1>8, <2>1, NifsAssumption DEF Return, NeverBlocks, TypeOK, Ifs
<1>9. ASSUME NEW ifs \in SUBSET Ifs, Transmit(ifs)
      PROVE  NeverBlocks'
  BY <1>9, TransmitQueue DEF Enqueued, Transmit, NeverBlocks, TypeOK
<1>10. CASE UNCHANGED vars
  BY <1>10 DEF vars, NeverBlocks
<1> QED
  BY <1>1, <1>2, <1>3, <1>4, <1>5, <1>6, <1>7, <1>8, <1>9, <1>10
     DEF Next, Loop

(* The call of handle_packet stays with its interface. *)
LEMMA InHandStep ==
  ASSUME LoopInv, [Next]_vars
  PROVE  InHand'
<1> USE DEF LoopInv
<1>1. CASE RecvError \/ RecvOutgoing \/ NoMemory
  BY <1>1, SocketIsReady DEF RecvError, RecvOutgoing, NoMemory, InHand
<1>2. CASE Receive
  BY <1>2, SocketIsReady, ReceivedFrame DEF Receive, AtSocket, InHand
<1>3. CASE Poll \/ PollFailed \/ NotReadable \/ Return
  BY <1>3 DEF Poll, PollFailed, NotReadable, Return, InHand
<1>4. CASE \E k \in Ifs : Arrive(k)
  BY <1>4 DEF Arrive, InHand
<1>5. CASE \E ifs \in SUBSET Ifs : Transmit(ifs)
  BY <1>5 DEF Transmit, InHand
<1>6. CASE UNCHANGED vars
  BY <1>6 DEF vars, InHand
<1> QED
  BY <1>1, <1>2, <1>3, <1>4, <1>5, <1>6 DEF Next, Loop

(* Where a frame was in its queue before the head of one was taken. *)
Before(k, n) == IF k = i THEN n + 1 ELSE n

(* Taking the head of a queue leaves the other waiting frames waiting. *)
LEMMA DequeueWaiting ==
  ASSUME TypeOK, i \in Ifs, queue[i] # << >>, Dequeue,
         NEW k \in Ifs, NEW n \in 1 .. Len(queue'[k]), Waiting(k, n)'
  PROVE  /\ Before(k, n) \in 1 .. Len(queue[k]) /\ Waiting(k, Before(k, n))
         /\ queue'[k][n] = queue[k][Before(k, n)]
         /\ ~ (k = i /\ Before(k, n) = 1)
<1>1. /\ Before(k, n) \in 1 .. Len(queue[k])
      /\ queue'[k][n] = queue[k][Before(k, n)]
  BY DequeueProperties DEF QueuesOK, TypeOK, Before
<1>2. ~ (k = i /\ Before(k, n) = 1)
  BY DEF Before
<1> QED
  BY <1>1, <1>2 DEF Waiting, Incoming

(* The frames that are left are still different ones. *)
LEMMA DequeueUnique ==
  ASSUME TypeOK, Unhandled, i \in Ifs, queue[i] # << >>, Dequeue,
         NEW l \in Ifs, NEW n \in 1 .. Len(queue'[l]), Waiting(l, n)',
         NEW j \in Ifs, NEW m \in 1 .. Len(queue'[j]), Waiting(j, m)',
         queue'[l][n].id = queue'[j][m].id
  PROVE  l = j /\ n = m
<1>1. /\ Before(l, n) \in 1 .. Len(queue[l]) /\ Waiting(l, Before(l, n))
      /\ queue'[l][n] = queue[l][Before(l, n)]
  BY DequeueWaiting
<1>2. /\ Before(j, m) \in 1 .. Len(queue[j]) /\ Waiting(j, Before(j, m))
      /\ queue'[j][m] = queue[j][Before(j, m)]
  BY DequeueWaiting
<1>3. l = j /\ Before(l, n) = Before(j, m)
  BY <1>1, <1>2 DEF Unhandled
<1> QED
  BY <1>3 DEF Before

(* No waiting frame becomes one that has been handled. *)
LEMMA UnhandledStep ==
  ASSUME LoopInv, [Next]_vars
  PROVE  Unhandled' /\ HandledOnce'
<1> USE DEF LoopInv
<1>1. ASSUME NEW k \in Ifs, Arrive(k)
      PROVE  Unhandled' /\ HandledOnce'
  <2>1. /\ arrived' = arrived + 1 /\ handled' = handled
        /\ arrived \in Nat /\ arrived + 1 \in 1 .. MaxFrames
    BY <1>1, BoundsAssumption DEF Arrive, TypeOK
  <2>2. handled[arrived + 1] = 0
    BY <2>1 DEF Unhandled
  <2>3. ASSUME NEW l \in Ifs, NEW n \in 1 .. Len(queue'[l]), Waiting(l, n)'
        PROVE  \/ /\ n \in 1 .. Len(queue[l]) /\ Waiting(l, n)
                  /\ queue'[l][n] = queue[l][n]
                  /\ queue[l][n].id <= arrived
               \/ /\ l = k /\ n = Len(queue[k]) + 1
                  /\ queue'[l][n].id = arrived + 1
    BY <1>1, <2>3, ArriveQueue DEF Enqueued, NewFrame, Waiting, Incoming, Unhandled
  <2>4. \A l \in Ifs : \A n \in 1 .. Len(queue[l]) :
          queue[l][n].id \in Nat
    BY QueuedFrames, BoundsAssumption
  <2>5. ASSUME NEW l \in Ifs, NEW n \in 1 .. Len(queue'[l]), Waiting(l, n)'
        PROVE  queue'[l][n].id <= arrived' /\ handled'[queue'[l][n].id] = 0
    <3>1. CASE n \in 1 .. Len(queue[l]) /\ queue'[l][n] = queue[l][n]
      <4>1. Waiting(l, n)
        BY <2>5, <3>1 DEF Waiting, Incoming
      <4>2. queue[l][n].id <= arrived /\ handled[queue[l][n].id] = 0
        BY <3>1, <4>1 DEF Unhandled
      <4> QED
        BY <2>1, <2>4, <3>1, <4>2
    <3>2. CASE queue'[l][n].id = arrived + 1
      BY <2>1, <2>2, <3>2
    <3> QED
      BY <2>3, <2>5, <3>1, <3>2
  <2>6. ASSUME NEW l \in Ifs, NEW n \in 1 .. Len(queue'[l]), Waiting(l, n)',
               NEW j \in Ifs, NEW m \in 1 .. Len(queue'[j]), Waiting(j, m)',
               queue'[l][n].id = queue'[j][m].id
        PROVE  l = j /\ n = m
    <3> DEFINE Old(q, r) == /\ r \in 1 .. Len(queue[q]) /\ Waiting(q, r)
                            /\ queue'[q][r] = queue[q][r]
                            /\ queue[q][r].id <= arrived
               New(q, r) == /\ q = k /\ r = Len(queue[k]) + 1
                            /\ queue'[q][r].id = arrived + 1
    <3>1. (Old(l, n) \/ New(l, n)) /\ (Old(j, m) \/ New(j, m))
      BY <2>3, <2>6
    <3>2. CASE Old(l, n) /\ Old(j, m)
      BY <2>6, <3>2 DEF Unhandled
    <3>3. CASE New(l, n) /\ New(j, m)
      BY <3>3
    <3>4. CASE (Old(l, n) /\ New(j, m)) \/ (New(l, n) /\ Old(j, m))
      BY <2>1, <2>4, <2>6, <3>4
    <3> QED
      BY <3>1, <3>2, <3>3, <3>4
  <2>7. \A f \in 1 .. MaxFrames : f > arrived' => handled'[f] = 0
    BY <2>1 DEF Unhandled
  <2>8. HandledOnce'
    BY <2>1 DEF HandledOnce
  <2> QED
    BY <2>5, <2>6, <2>7, <2>8 DEF Unhandled
<1>2. CASE RecvOutgoing \/ NoMemory
  <2>1. i \in Ifs /\ queue[i] # << >> /\ Dequeue
    BY <1>2, SocketIsReady DEF RecvOutgoing, NoMemory
  <2>2. arrived' = arrived /\ handled' = handled
    BY <1>2 DEF RecvOutgoing, NoMemory
  <2>3. ASSUME NEW l \in Ifs, NEW n \in 1 .. Len(queue'[l]), Waiting(l, n)'
        PROVE  queue'[l][n].id <= arrived' /\ handled'[queue'[l][n].id] = 0
    BY <2>1, <2>2, <2>3, DequeueWaiting DEF Unhandled
  <2>4. ASSUME NEW l \in Ifs, NEW n \in 1 .. Len(queue'[l]), Waiting(l, n)',
               NEW j \in Ifs, NEW m \in 1 .. Len(queue'[j]), Waiting(j, m)',
               queue'[l][n].id = queue'[j][m].id
        PROVE  l = j /\ n = m
    BY <2>1, <2>4, DequeueUnique
  <2> QED
    BY <2>2, <2>3, <2>4 DEF Unhandled, HandledOnce
<1>3. CASE Receive
  <2>1. i \in Ifs /\ queue[i] # << >> /\ Dequeue /\ 1 \in 1 .. Len(queue[i])
    BY <1>3, SocketIsReady, DequeueProperties DEF QueuesOK, TypeOK, Receive
  <2>2. /\ packet' = queue[i][1] /\ packet'.id \in 1 .. MaxFrames
        /\ Waiting(i, 1)
    BY <1>3, ReceivedFrame
  <2>3. /\ arrived' = arrived
        /\ handled' = [handled EXCEPT ![packet'.id] = handled[packet'.id] + 1]
        /\ handled \in [1 .. MaxFrames -> Nat] /\ arrived \in Nat
    BY <1>3, BoundsAssumption DEF Receive, TypeOK
  <2>4. handled[packet'.id] = 0 /\ packet'.id <= arrived
    BY <2>1, <2>2 DEF Unhandled
  <2>5. HandledOnce'
    BY <2>2, <2>3, <2>4 DEF HandledOnce
  <2>6. ASSUME NEW l \in Ifs, NEW n \in 1 .. Len(queue'[l]), Waiting(l, n)'
        PROVE  queue'[l][n].id <= arrived' /\ handled'[queue'[l][n].id] = 0
    <3>1. /\ Before(l, n) \in 1 .. Len(queue[l]) /\ Waiting(l, Before(l, n))
          /\ queue'[l][n] = queue[l][Before(l, n)]
          /\ ~ (l = i /\ Before(l, n) = 1)
      BY <2>1, <2>6, DequeueWaiting
    <3>2. queue'[l][n].id # packet'.id
      BY <2>1, <2>2, <3>1 DEF Unhandled
    <3>3. queue[l][Before(l, n)].id <= arrived /\ handled[queue[l][Before(l, n)].id] = 0
      BY <3>1 DEF Unhandled
    <3>4. queue'[l][n].id \in 1 .. MaxFrames
      BY <3>1, QueuedFrames
    <3> QED
      BY <2>3, <3>1, <3>2, <3>3, <3>4
  <2>7. ASSUME NEW l \in Ifs, NEW n \in 1 .. Len(queue'[l]), Waiting(l, n)',
               NEW j \in Ifs, NEW m \in 1 .. Len(queue'[j]), Waiting(j, m)',
               queue'[l][n].id = queue'[j][m].id
        PROVE  l = j /\ n = m
    BY <2>1, <2>7, DequeueUnique
  <2>8. \A f \in 1 .. MaxFrames : f > arrived' => handled'[f] = 0
    BY <2>2, <2>3, <2>4 DEF Unhandled
  <2> QED
    BY <2>5, <2>6, <2>7, <2>8 DEF Unhandled
<1>4. ASSUME NEW ifs \in SUBSET Ifs, Transmit(ifs)
      PROVE  Unhandled' /\ HandledOnce'
  <2>1. arrived' = arrived /\ handled' = handled
    BY <1>4 DEF Transmit
  <2>2. \A l \in Ifs : \A n \in 1 .. Len(queue'[l]) :
          Waiting(l, n)' => /\ n \in 1 .. Len(queue[l]) /\ Waiting(l, n)
                            /\ queue'[l][n] = queue[l][n]
    BY <1>4, TransmitQueue DEF Enqueued, Waiting, Incoming
  <2>3. ASSUME NEW l \in Ifs, NEW n \in 1 .. Len(queue'[l]), Waiting(l, n)'
        PROVE  queue'[l][n].id <= arrived' /\ handled'[queue'[l][n].id] = 0
    BY <2>1, <2>2, <2>3 DEF Unhandled
  <2>4. ASSUME NEW l \in Ifs, NEW n \in 1 .. Len(queue'[l]), Waiting(l, n)',
               NEW j \in Ifs, NEW m \in 1 .. Len(queue'[j]), Waiting(j, m)',
               queue'[l][n].id = queue'[j][m].id
        PROVE  l = j /\ n = m
    BY <2>2, <2>4 DEF Unhandled
  <2> QED
    BY <2>1, <2>3, <2>4 DEF Unhandled, HandledOnce
<1>5. CASE UNCHANGED <<queue, arrived, handled>>
  BY <1>5 DEF Unhandled, HandledOnce, Waiting, Incoming
<1> QED
  BY <1>1, <1>2, <1>3, <1>4, <1>5
     DEF Next, Loop, Poll, PollFailed, NotReadable, RecvError, Return, vars

(* An interface that is served starts anew, and the others are passed over *)
(* once more, as the limits of the next place of the scan allow.           *)
LEMMA ServedStep ==
  ASSUME LoopInv, AtSocket, Served, revents' = revents, open' = open,
         \/ NextIface /\ packet' = packet
         \/ i' = i /\ packet' # NoPacket,
         \A k \in Ifs : k # i => queue'[k] = queue[k]
  PROVE  Overtaken'
<1>1. /\ i \in Ifs /\ packet = NoPacket /\ i \in revents
      /\ nifs \in Nat /\ i \in 1 .. nifs
  BY SocketIsReady, NifsAssumption DEF AtSocket, Ifs
<1>2. /\ bypassed \in [Ifs -> Nat]
      /\ \A k \in Ifs : bypassed[k] <= BypassLimit(k)
      /\ \A k \in Ifs : queue[k] = << >> => bypassed[k] = 0
      /\ \A k \in Ifs \ open : queue[k] = << >>
  BY DEF LoopInv, Overtaken
<1>3. /\ bypassed' \in [Ifs -> Nat]
      /\ bypassed'[i] = 0
      /\ \A k \in Ifs : queue[k] = << >> => bypassed'[k] = 0
      /\ \A k \in Ifs : bypassed'[k] <= bypassed[k] + 1
  BY <1>1, <1>2 DEF Served
<1>4. ASSUME NEW k \in Ifs
      PROVE  bypassed'[k] <= BypassLimit(k)'
  <2>1. bypassed[k] \in Nat /\ bypassed'[k] \in Nat /\ k \in 1 .. nifs
    BY <1>2, <1>3 DEF Ifs
  <2>2. \/ i' = i /\ packet' # NoPacket
        \/ i' = i + 1 /\ packet' = NoPacket
        \/ i' = 0 /\ i = nifs
    BY <1>1 DEF NextIface
  <2>3. CASE k = i
    BY <1>1, <1>3, <2>1, <2>2, <2>3 DEF BypassLimit, Passed
  <2>4. CASE k # i
    <3>1. k > i \/ k < i
      BY <1>1, <2>1, <2>4
    <3>2. bypassed[k] <= BypassLimit(k) /\ bypassed'[k] <= bypassed[k] + 1
      BY <1>2, <1>3
    <3> QED
      BY <1>1, <2>1, <2>2, <2>4, <3>1, <3>2 DEF BypassLimit, Passed
  <2> QED
    BY <2>3, <2>4
<1>5. \A k \in Ifs : queue'[k] = << >> => bypassed'[k] = 0
  BY <1>2, <1>3
<1>6. \A k \in Ifs \ open' : queue'[k] = << >>
  <2>1. i \in open
    BY <1>1, <1>2, SocketIsReady
  <2> QED
    BY <1>2, <2>1
<1> QED
  BY <1>3, <1>4, <1>5, <1>6 DEF Overtaken

(* Every step keeps to the limits. *)
LEMMA OvertakenStep ==
  ASSUME LoopInv, [Next]_vars
  PROVE  Overtaken'
<1>1. /\ bypassed \in [Ifs -> Nat]
      /\ \A k \in Ifs : bypassed[k] \in Nat /\ bypassed[k] <= BypassLimit(k)
      /\ \A k \in Ifs : queue[k] = << >> => bypassed[k] = 0
      /\ \A k \in Ifs \ open : queue[k] = << >>
  BY DEF LoopInv, Overtaken
<1>2. nifs \in Nat \ {0} /\ i \in 0 .. nifs /\ \A k \in Ifs : k \in 1 .. nifs
  BY NifsAssumption DEF LoopInv, TypeOK, Ifs
<1>3. ASSUME NEW k \in Ifs, Arrive(k)
      PROVE  Overtaken'
  <2>1. /\ \A l \in Ifs : queue[l] # << >> => queue'[l] # << >>
        /\ \A l \in Ifs : l # k => queue'[l] = queue[l]
    BY <1>3, ArriveQueue DEF LoopInv, Enqueued, Arrive, TypeOK
  <2> QED
    BY <1>1, <1>3, <2>1 DEF Arrive, Overtaken, BypassLimit, Passed
<1>4. CASE Poll
  <2>1. packet = NoPacket /\ packet' = packet /\ i = 0 /\ i' = 1
    BY <1>4 DEF LoopInv, InHand, Poll
  <2>2. ASSUME NEW k \in Ifs
        PROVE  bypassed[k] <= BypassLimit(k)'
    <3>1. bypassed[k] <= nifs - 1
      BY <1>1, <2>1 DEF BypassLimit
    <3>2. k \notin revents' => bypassed[k] = 0
      BY <1>1, <1>4 DEF Poll, Readable
    <3> QED
      BY <1>1, <1>2, <2>1, <3>1, <3>2 DEF BypassLimit, Passed
  <2> QED
    BY <1>1, <1>4, <2>2 DEF Poll, Overtaken
<1>5. CASE NotReadable
  <2>1. /\ packet = NoPacket /\ packet' = packet /\ revents' = revents
        /\ i \notin revents /\ i # 0
    BY <1>5 DEF LoopInv, InHand, NotReadable
  <2>2. (i' = i + 1 /\ i < nifs) \/ (i' = 0 /\ i = nifs)
    BY <1>2, <1>5 DEF NotReadable, NextIface
  <2>3. ASSUME NEW k \in Ifs
        PROVE  bypassed[k] <= BypassLimit(k)'
    <3>1. k < i \/ k > i \/ k = i
      BY <1>2
    <3>2. k \in 1 .. nifs /\ bypassed[k] \in Nat /\ bypassed[k] <= BypassLimit(k)
      BY <1>1, <1>2
    <3> QED
      BY <1>2, <2>1, <2>2, <3>1, <3>2 DEF BypassLimit, Passed
  <2> QED
    BY <1>1, <1>5, <2>3 DEF NotReadable, Overtaken
<1>6. CASE RecvError
  BY <1>6, ServedStep DEF RecvError
<1>7. CASE RecvOutgoing \/ NoMemory
  <2>1. AtSocket /\ Dequeue /\ Served /\ NextIface /\ packet' = packet
        /\ revents' = revents /\ open' = open
    BY <1>7 DEF RecvOutgoing, NoMemory
  <2>2. \A k \in Ifs : k # i => queue'[k] = queue[k]
    BY <2>1, SocketIsReady, DequeueProperties DEF QueuesOK, TypeOK, LoopInv
  <2> QED
    BY <2>1, <2>2, ServedStep
<1>8. CASE Receive
  <2>1. packet' # NoPacket
    BY <1>8, ReceivedFrame
  <2>2. AtSocket /\ Dequeue /\ Served /\ i' = i
        /\ revents' = revents /\ open' = open
    BY <1>8 DEF Receive
  <2>3. \A k \in Ifs : k # i => queue'[k] = queue[k]
    BY <2>2, SocketIsReady, DequeueProperties DEF QueuesOK, TypeOK, LoopInv
  <2> QED
    BY <2>1, <2>2, <2>3, ServedStep
<1>9. CASE Return
  <2>1. /\ packet # NoPacket /\ packet' = NoPacket /\ revents' = revents
        /\ i \in revents /\ i # 0
    BY <1>9 DEF LoopInv, InHand, Return
  <2>2. (i' = i + 1 /\ i < nifs) \/ (i' = 0 /\ i = nifs)
    BY <1>2, <1>9 DEF Return, NextIface
  <2>3. ASSUME NEW k \in Ifs
        PROVE  bypassed[k] <= BypassLimit(k)'
    <3>1. k < i \/ k > i \/ k = i
      BY <1>2
    <3>2. k \in 1 .. nifs /\ bypassed[k] \in Nat /\ bypassed[k] <= BypassLimit(k)
      BY <1>1, <1>2
    <3> QED
      BY <1>2, <2>1, <2>2, <3>1, <3>2 DEF BypassLimit, Passed
  <2> QED
    BY <1>1, <1>9, <2>3 DEF Return, Overtaken
<1>10. ASSUME NEW ifs \in SUBSET Ifs, Transmit(ifs)
       PROVE  Overtaken'
  <2>1. /\ \A l \in Ifs : queue[l] # << >> => queue'[l] # << >>
        /\ \A l \in Ifs \ open : queue'[l] = queue[l]
    BY <1>10, TransmitQueue DEF LoopInv, Enqueued, Transmit
  <2> QED
    BY <1>1, <1>10, <2>1 DEF Transmit, Overtaken, BypassLimit, Passed
<1>11. CASE UNCHANGED <<bypassed, i, revents, packet, queue, open>>
  BY <1>1, <1>11 DEF Overtaken, BypassLimit, Passed
<1> QED
  BY <1>3, <1>4, <1>5, <1>6, <1>7, <1>8, <1>9, <1>10, <1>11
     DEF Next, Loop, PollFailed, vars
-----------------------------------------------------------------------------
(* The invariant of the loop holds for every number of interfaces and of   *)
(* frames, for both programs.                                              *)
THEOREM LoopInvariance == Spec => []LoopInv
<1>1. LoopInv /\ [Next]_vars => LoopInv'
  BY TypeStep, BlockStep, InHandStep, UnhandledStep, OvertakenStep DEF LoopInv
<1> QED
  BY <1>1, LoopInit, PTL DEF Spec

(* The variables of ustack_run keep their types, and a socket never holds  *)
(* more than it can buffer.                                                *)
THEOREM LoopTypeCorrect == Spec => []TypeOK
<1>1. LoopInv => TypeOK
  BY DEF LoopInv
<1> QED
  BY <1>1, LoopInvariance, PTL

(* The scan of ustack_run never calls recvfrom on an empty socket, however *)
(* frames arrive, are captured, are dropped or fail to be received.        *)
THEOREM LoopNeverBlocks == Spec => []NeverBlocks
<1>1. LoopInv => NeverBlocks
  BY DEF LoopInv
<1> QED
  BY <1>1, LoopInvariance, PTL

(* handle_packet is called at most once for a frame, although the sockets  *)
(* capture what it sends.                                                  *)
THEOREM LoopHandlesOnce == Spec => []HandledOnce
<1>1. LoopInv => HandledOnce
  BY DEF LoopInv
<1> QED
  BY <1>1, LoopInvariance, PTL

(* No interface is passed over more often than the rest of one scan and    *)
(* the part of the next one before its turn.                               *)
THEOREM LoopBoundsBypass == Spec => []BoundedBypass
<1>1. LoopInv => BoundedBypass
  <2> SUFFICES ASSUME LoopInv, NEW k \in Ifs
               PROVE  bypassed[k] <= (nifs - 1) + (k - 1)
    BY DEF BoundedBypass
  <2>1. /\ nifs \in Nat \ {0} /\ i \in 0 .. nifs /\ k \in 1 .. nifs
        /\ bypassed[k] \in Nat /\ bypassed[k] <= BypassLimit(k)
    BY NifsAssumption DEF LoopInv, Overtaken, TypeOK, Ifs
  <2> QED
    BY <2>1 DEF BypassLimit, Passed
<1> QED
  BY <1>1, LoopInvariance, PTL

-----------------------------------------------------------------------------
(* The switch program: the loop above, and handle_packet of Switch. *)
CONSTANTS MAC, Group, Mobile, MAC_PORT_TIMEOUT, SweepPeriod
VARIABLES mac_port_map, idle, pc, cur, tx, attach, quiet, header, out

Stack == INSTANCE SwitchStack

StackTypes ==
  /\ QueuesOK
  /\ open \subseteq Ifs /\ revents \subseteq Ifs /\ i \in 0 .. nifs
  /\ packet \in Frame \cup {NoPacket}
  /\ arrived \in 0 .. MaxFrames
  /\ DOMAIN header = 1 .. MaxFrames
  /\ attach \in [MAC -> Ifs]

(* A frame that waits at interface k was sent by a host at k, and the host *)
(* is still there unless it may move.                                      *)
SentFrom(f, k) ==
  /\ f <= arrived
  /\ header[f].src \in MAC /\ header[f].dst \in MAC \cup Group
  /\ header[f].src \in Mobile \/ attach[header[f].src] = k
Addressed ==
  \A k \in Ifs : \A n \in 1 .. Len(queue[k]) :
    Incoming(queue[k][n]) => SentFrom(queue[k][n].id, k)

StackInv == StackTypes /\ NeverBlocks /\ InHand /\ Addressed

(* The loop of the program is that of EventLoop: the same sockets, frames  *)
(* and interfaces.                                                         *)
LEMMA StackNames ==
  /\ Stack!Iface = Ifs /\ Stack!L!Ifs = Ifs
  /\ Stack!L!Frame = Frame /\ Stack!L!NoPacket = NoPacket
  /\ Stack!L!AtSocket = AtSocket
  /\ \A f : Stack!L!Incoming(f) = Incoming(f)
  /\ Stack!L!Readable = Readable
  BY DEF Stack!Iface, Stack!L!Ifs, Ifs, Stack!L!Frame, Frame, Stack!L!NoPacket, NoPacket,
         Stack!L!AtSocket, AtSocket, Stack!L!Incoming, Incoming, Stack!L!Readable, Readable

(* The steps of the sockets and of the scan. *)
LEMMA StackMoves ==
  /\ Stack!L!Dequeue <=> Dequeue
  /\ Stack!L!NextIface <=> NextIface
  BY DEF Stack!L!Dequeue, Dequeue, Stack!L!NextIface, NextIface

(* No frame arrives and no socket is opened. *)
Kept == UNCHANGED <<open, arrived, header>>

(* A call of recvfrom finds a frame. *)
LEMMA StackSocketIsReady ==
  ASSUME StackInv, AtSocket
  PROVE  i \in Ifs /\ i # 0 /\ queue[i] # << >> /\ packet = NoPacket /\ ~ sent
<1>1. i \in Ifs /\ i # 0
  BY NifsAssumption DEF StackInv, StackTypes, AtSocket, Ifs
<1> QED
  BY <1>1 DEF StackInv, NeverBlocks, InHand, AtSocket

(* Taking the head of a queue leaves the others as they were. *)
LEMMA StackDequeue ==
  ASSUME StackInv, AtSocket, Dequeue, Kept, attach' = attach
  PROVE  /\ QueuesOK' /\ Addressed'
         /\ \A k \in Ifs : k # i => queue'[k] = queue[k]
         /\ Head(queue[i]) \in Frame
         /\ Incoming(Head(queue[i])) => SentFrom(Head(queue[i]).id, i)
<1>1. i \in Ifs /\ queue[i] # << >> /\ QueuesOK
  BY StackSocketIsReady DEF StackInv, StackTypes
<1>2. /\ queue' \in [Ifs -> Seq(Frame)]
      /\ \A k \in Ifs : Len(queue'[k]) <= MaxQueue
      /\ Head(queue[i]) \in Frame /\ Head(queue[i]) = queue[i][1]
      /\ 1 \in 1 .. Len(queue[i])
      /\ \A k \in Ifs : k # i => queue'[k] = queue[k]
      /\ \A n \in 1 .. Len(queue'[i]) :
           n + 1 \in 1 .. Len(queue[i]) /\ queue'[i][n] = queue[i][n + 1]
  BY <1>1, DequeueProperties
<1>3. \A k \in Ifs : \A n \in 1 .. Len(queue'[k]) :
        \E m \in 1 .. Len(queue[k]) : queue'[k][n] = queue[k][m]
  BY <1>2
<1>4. ASSUME NEW f, NEW k, SentFrom(f, k)
      PROVE  SentFrom(f, k)'
  BY <1>4 DEF SentFrom, Kept
<1>5. Addressed'
  <2> SUFFICES ASSUME NEW k \in Ifs, NEW n \in 1 .. Len(queue'[k]), Incoming(queue'[k][n])
               PROVE  SentFrom(queue[k][n].id, k)'
    BY DEF Addressed, Ifs, Incoming
  <2>1. PICK m \in 1 .. Len(queue[k]) : queue'[k][n] = queue[k][m]
    BY <1>3
  <2>2. SentFrom(queue[k][m].id, k)
    BY <2>1 DEF StackInv, Addressed
  <2> QED
    BY <2>1, <2>2 DEF SentFrom, Kept
<1> QED
  BY <1>1, <1>2, <1>5 DEF QueuesOK, StackInv, Addressed

(* The steps of the loop outside of handle_packet: poll returns, or an     *)
(* interface is passed over, at which a frame may have been dropped.       *)
LEMMA LoopStepCases ==
  ASSUME StackInv, Stack!LoopStep
  PROVE  /\ UNCHANGED <<packet, sent, open, arrived, header, attach>>
         /\ UNCHANGED <<mac_port_map, idle, pc, cur, tx, attach, quiet>>
         /\ \/ /\ i = 0 /\ i' = 1
               /\ revents' = Readable /\ UNCHANGED queue
            \/ /\ i # 0 /\ NextIface /\ UNCHANGED revents
               /\ \/ UNCHANGED queue /\ (i \notin revents \/ AtSocket)
                  \/ AtSocket /\ Dequeue
<1>1. /\ UNCHANGED <<packet, sent, header, attach>>
      /\ UNCHANGED <<mac_port_map, idle, pc, cur, tx, attach, quiet>>
  BY DEF Stack!LoopStep, Stack!switchVars
<1> DEFINE Goal == /\ UNCHANGED <<open, arrived>>
                   /\ \/ /\ i = 0 /\ i' = 1
                         /\ revents' = Readable /\ UNCHANGED queue
                      \/ /\ i # 0 /\ NextIface /\ UNCHANGED revents
                         /\ \/ UNCHANGED queue /\ (i \notin revents \/ AtSocket)
                            \/ AtSocket /\ Dequeue
<1>2. AtSocket => i # 0
  BY StackSocketIsReady
<1>3. ASSUME Stack!L!Poll PROVE Goal
  BY <1>3, StackNames DEF Stack!L!Poll
<1>4. ASSUME Stack!L!NotReadable PROVE Goal
  BY <1>4, StackMoves DEF Stack!L!NotReadable
<1>5. ASSUME Stack!L!RecvError PROVE Goal
  BY <1>2, <1>5, StackNames, StackMoves DEF Stack!L!RecvError
<1>6. ASSUME Stack!L!RecvOutgoing PROVE Goal
  BY <1>2, <1>6, StackNames, StackMoves DEF Stack!L!RecvOutgoing
<1>7. ASSUME Stack!L!NoMemory PROVE Goal
  BY <1>7 DEF Stack!L!NoMemory
<1>8. ASSUME Stack!L!Receive PROVE Goal
  <2>1. AtSocket /\ Dequeue /\ packet' = Head(queue[i]) /\ UNCHANGED <<open, arrived>>
    BY <1>8, StackNames, StackMoves DEF Stack!L!Receive
  <2>2. Head(queue[i]) \in Frame
    BY <1>1, <2>1, StackDequeue DEF Kept
  <2>3. packet = NoPacket
    BY <2>1 DEF AtSocket
  <2> QED
    BY <1>1, <2>1, <2>2, <2>3, FrameIsAPacket
<1>9. ASSUME Stack!L!Return PROVE Goal
  BY <1>1, <1>9 DEF Stack!L!Return
<1>10. ASSUME NEW ifs, Stack!L!Transmit(ifs)
       PROVE  FALSE
  BY <1>1, <1>10 DEF Stack!L!Transmit
<1>11. Goal
  BY <1>3, <1>4, <1>5, <1>6, <1>7, <1>8, <1>9, <1>10 DEF Stack!LoopStep, Stack!L!Loop
<1> QED
  BY <1>1, <1>11

(* The program starts with empty sockets. *)
LEMMA StackInitInv == Stack!Init => StackInv
<1> SUFFICES ASSUME Stack!Init PROVE StackInv
  OBVIOUS
<1>1. /\ queue = [k \in Ifs |-> << >>] /\ revents = {} /\ i = 0 /\ packet = NoPacket
      /\ sent = FALSE /\ arrived = 0
  BY StackNames DEF Stack!Init, Stack!L!Init
<1>2. open \subseteq Ifs
  BY StackNames DEF Stack!Init, Stack!L!Init, Stack!L!SwitchOpens
<1>3. attach \in [MAC -> Ifs] /\ DOMAIN header = 1 .. MaxFrames
  BY StackNames DEF Stack!Init, Stack!S!Init
<1>4. << >> \in Seq(Frame) /\ Len(<< >>) = 0
  BY EmptySeq
<1>5. \A k \in Ifs : queue[k] = << >> /\ queue[k] \in Seq(Frame) /\ Len(queue[k]) = 0
  BY <1>1, <1>4
<1>6. QueuesOK
  BY <1>1, <1>5, BoundsAssumption DEF QueuesOK
<1>7. i \in 0 .. nifs /\ arrived \in 0 .. MaxFrames
  BY <1>1, NifsAssumption, BoundsAssumption
<1>8. NeverBlocks /\ InHand
  BY <1>1 DEF NeverBlocks, InHand
<1>9. Addressed
  BY <1>5 DEF Addressed
<1> QED
  BY <1>1, <1>2, <1>3, <1>6, <1>7, <1>8, <1>9 DEF StackInv, StackTypes

(* A host sends a frame.  The frames that wait already have lower numbers. *)
LEMMA StackArrive ==
  ASSUME StackInv, NEW m \in MAC, NEW d \in MAC \cup Group, Stack!Arrive(m, d)
  PROVE  StackInv'
<1> DEFINE k == attach[m]
           f == arrived + 1
<1>1. /\ k \in open /\ arrived < MaxFrames /\ Len(queue[k]) < MaxQueue
      /\ arrived' = f
      /\ queue' = [queue EXCEPT ![k] = Append(queue[k], NewFrame)]
      /\ UNCHANGED <<open, revents, i, packet, sent>>
  BY DEF Stack!Arrive, Stack!L!Arrive, NewFrame
<1>2. /\ header' = [header EXCEPT ![f] = [src |-> m, dst |-> d, in |-> k]]
      /\ attach' = attach
  BY <1>1 DEF Stack!Arrive, Stack!switchVars
<1>3. k \in Ifs /\ f \in 1 .. MaxFrames /\ arrived \in Nat
  BY <1>1, BoundsAssumption DEF StackInv, StackTypes
<1>4. NewFrame \in Frame /\ NewFrame.id = f
  BY <1>3 DEF NewFrame, Frame
<1> HIDE DEF k, f
<1>5. QueuesOK /\ queue \in [Ifs -> Seq(Frame)]
  BY DEF StackInv, StackTypes, QueuesOK
<1>6. queue' = [l \in Ifs |-> IF l \in {k} /\ Len(queue[l]) < MaxQueue
                              THEN Append(queue[l], NewFrame) ELSE queue[l]]
  BY <1>1, <1>3, <1>5
<1>7. Enqueued({k}, NewFrame)
  BY <1>4, <1>5, <1>6, EnqueueProperties
<1>8. QueuesOK'
  BY <1>7 DEF Enqueued, QueuesOK
<1>9. f \in DOMAIN header /\ DOMAIN header' = DOMAIN header
  BY <1>2, <1>3 DEF StackInv, StackTypes
<1>10. StackTypes'
  <2>1. arrived' \in 0 .. MaxFrames
    BY <1>1, <1>3
  <2> QED
    BY <1>1, <1>2, <1>8, <1>9, <2>1 DEF StackInv, StackTypes
<1>11. NeverBlocks' /\ InHand'
  BY <1>1, <1>7 DEF StackInv, StackTypes, NeverBlocks, InHand, Enqueued
<1>12. Addressed'
  <2> SUFFICES ASSUME NEW l \in Ifs, NEW n \in 1 .. Len(queue'[l]), Incoming(queue'[l][n])
               PROVE  SentFrom(queue[l][n].id, l)'
    BY DEF Addressed, Ifs, Incoming
  <2>1. CASE n \in 1 .. Len(queue[l]) /\ queue'[l][n] = queue[l][n]
    <3>1. PICK g : g = queue[l][n].id
      OBVIOUS
    <3>2. SentFrom(g, l)
      BY <2>1, <3>1 DEF StackInv, Addressed
    <3>3. g \in Nat /\ g \in DOMAIN header
      <4>1. queue[l] \in Seq(Frame)
        BY <1>5
      <4>2. queue[l][n] \in Frame
        BY <2>1, <4>1, ElementOfSeq
      <4> QED
        BY <3>1, <4>2, BoundsAssumption DEF Frame, StackInv, StackTypes
    <3>4. g <= arrived' /\ g # f
      BY <1>1, <1>3, <3>2, <3>3 DEF SentFrom, f
    <3>5. header'[g] = header[g]
      BY <1>2, <3>3, <3>4
    <3>6. SentFrom(g, l)'
      BY <1>2, <3>2, <3>4, <3>5 DEF SentFrom
    <3> QED
      BY <2>1, <3>1, <3>6 DEF SentFrom
  <2>2. CASE l \in {k} /\ queue'[l][n] = NewFrame
    <3>1. queue'[l][n].id = f /\ l = k
      BY <1>4, <2>2
    <3>2. header'[f] = [src |-> m, dst |-> d, in |-> k]
      BY <1>2, <1>9
    <3>3. header'[f].src = m /\ header'[f].dst = d
      BY <3>2
    <3>4. f <= arrived'
      BY <1>1, <1>3
    <3> QED
      BY <1>2, <3>1, <3>3, <3>4 DEF SentFrom, k
  <2> QED
    BY <1>7, <2>1, <2>2 DEF Enqueued
<1> QED
  BY <1>10, <1>11, <1>12 DEF StackInv

(* The loop goes on outside of handle_packet. *)
LEMMA StackLoopStep ==
  ASSUME StackInv, Stack!LoopStep
  PROVE  StackInv'
<1>1. UNCHANGED <<packet, sent, open, arrived, header, attach>>
  BY LoopStepCases
<1>2. CASE /\ i = 0 /\ i' = 1
           /\ revents' = Readable /\ UNCHANGED queue
  <2>1. StackTypes'
    BY <1>1, <1>2, NifsAssumption DEF StackInv, StackTypes, Readable, QueuesOK
  <2>2. NeverBlocks'
    BY <1>1, <1>2 DEF NeverBlocks, Readable
  <2>3. InHand' /\ Addressed'
    BY <1>1, <1>2 DEF StackInv, InHand, Addressed, SentFrom
  <2> QED
    BY <2>1, <2>2, <2>3 DEF StackInv
<1>3. CASE /\ i # 0 /\ NextIface /\ UNCHANGED revents
           /\ \/ UNCHANGED queue /\ (i \notin revents \/ AtSocket)
              \/ AtSocket /\ Dequeue
  <2>1. i' \in 0 .. nifs /\ (i' = 0 \/ i' = i + 1)
    BY <1>3, NextIfaceType DEF StackInv, StackTypes
  <2>2. /\ QueuesOK' /\ Addressed'
        /\ \A k \in Ifs : k # i => queue'[k] = queue[k]
    <3>1. CASE UNCHANGED queue
      BY <1>1, <3>1 DEF StackInv, StackTypes, QueuesOK, Addressed, SentFrom
    <3>2. CASE AtSocket /\ Dequeue
      BY <1>1, <3>2, StackDequeue DEF Kept
    <3> QED
      BY <1>3, <3>1, <3>2
  <2>3. StackTypes'
    BY <1>1, <1>3, <2>1, <2>2 DEF StackInv, StackTypes
  <2>4. NeverBlocks'
    <3>1. \A k \in revents : k \in Ifs /\ k \in Nat /\ i \in Nat
      BY NifsAssumption DEF StackInv, StackTypes, Ifs
    <3> QED
      BY <1>1, <1>3, <2>1, <2>2, <3>1 DEF StackInv, NeverBlocks
  <2>5. InHand'
    <3>1. packet = NoPacket
      BY <1>3 DEF StackInv, InHand, AtSocket
    <3> QED
      BY <1>1, <3>1 DEF StackInv, InHand
  <2> QED
    BY <2>2, <2>3, <2>4, <2>5 DEF StackInv
<1> QED
  BY <1>2, <1>3, LoopStepCases

(* The frame that handle_packet is called with is one that Switch assumes: *)
(* sent by a host that is, or may have been, where the frame came in.      *)
LEMMA StackReceive ==
  ASSUME StackInv, Stack!Receive
  PROVE  /\ StackInv'
         /\ \E m \in MAC, d \in MAC \cup Group, in \in Stack!Iface : Stack!S!Recv(m, d, in)
<1>1. /\ AtSocket /\ Incoming(Head(queue[i])) /\ packet' = Head(queue[i]) /\ Dequeue
      /\ UNCHANGED <<open, revents, i, sent, arrived, header>>
  BY StackNames, StackMoves DEF Stack!Receive, Stack!L!Receive
<1>2. Stack!S!Enter(header[packet'.id].src, header[packet'.id].dst, i)
  BY DEF Stack!Receive
<1>3. attach' = attach
  BY <1>2 DEF Stack!S!Enter
<1>4. i \in Ifs /\ i # 0 /\ ~ sent
  BY <1>1, StackSocketIsReady
<1>5. /\ QueuesOK' /\ Addressed'
      /\ \A k \in Ifs : k # i => queue'[k] = queue[k]
      /\ Head(queue[i]) \in Frame /\ SentFrom(Head(queue[i]).id, i)
  BY <1>1, <1>3, StackDequeue DEF Kept
<1>6. packet' \in Frame /\ packet' # NoPacket
  BY <1>1, <1>5, FrameIsAPacket
<1>7. StackTypes'
  BY <1>1, <1>3, <1>5, <1>6 DEF StackInv, StackTypes
<1>8. NeverBlocks'
  <2>1. \A k \in revents : k \in Ifs /\ k \in Nat /\ i \in Nat
    BY NifsAssumption DEF StackInv, StackTypes, Ifs
  <2> QED
    BY <1>1, <1>5, <1>6, <2>1 DEF StackInv, NeverBlocks
<1>9. InHand'
  BY <1>1, <1>4, <1>6 DEF InHand, AtSocket
<1>10. PICK m, d : m = header[packet'.id].src /\ d = header[packet'.id].dst
  OBVIOUS
<1>11. /\ m \in MAC /\ d \in MAC \cup Group /\ (m \in Mobile \/ attach[m] = i)
  BY <1>1, <1>5, <1>10 DEF SentFrom
<1>12. Stack!S!Recv(m, d, i)
  BY <1>2, <1>10, <1>11 DEF Stack!S!Recv, Stack!S!Enter
<1> QED
  BY <1>4, <1>5, <1>7, <1>8, <1>9, <1>11, <1>12, StackNames DEF StackInv

(* handle_packet sends the frame, and the sockets capture copies of it. *)
LEMMA StackForward ==
  ASSUME StackInv, Stack!Forward
  PROVE  StackInv'
<1>1. PICK ifs : ifs = tx'
  OBVIOUS
<1>2. /\ packet # NoPacket
      /\ queue' = [k \in Ifs |->
                     IF k \in ifs \cap open /\ Len(queue[k]) < MaxQueue
                     THEN Append(queue[k], CapturedCopy) ELSE queue[k]]
      /\ UNCHANGED <<open, revents, i, packet, arrived, header>>
  BY <1>1, StackNames DEF Stack!Forward, Stack!L!Transmit, CapturedCopy
<1>3. attach' = attach
  BY DEF Stack!Forward, Stack!S!Forward
<1>4. packet \in Frame
  BY <1>2 DEF StackInv, StackTypes
<1>5. CapturedCopy \in Frame /\ ~ Incoming(CapturedCopy)
  BY <1>4 DEF CapturedCopy, Frame, Incoming
<1>6. Enqueued(ifs \cap open, CapturedCopy)
  BY <1>2, <1>5, EnqueueProperties DEF StackInv, StackTypes
<1>7. StackTypes'
  BY <1>2, <1>3, <1>6 DEF StackInv, StackTypes, QueuesOK, Enqueued
<1>8. NeverBlocks' /\ InHand'
  BY <1>2, <1>6 DEF StackInv, StackTypes, NeverBlocks, InHand, Enqueued
<1>9. Addressed'
  <2> SUFFICES ASSUME NEW l \in Ifs, NEW n \in 1 .. Len(queue'[l]), Incoming(queue'[l][n])
               PROVE  SentFrom(queue[l][n].id, l)'
    BY DEF Addressed, Ifs, Incoming
  <2>1. n \in 1 .. Len(queue[l]) /\ queue'[l][n] = queue[l][n]
    BY <1>5, <1>6 DEF Enqueued
  <2>2. SentFrom(queue[l][n].id, l)
    BY <2>1 DEF StackInv, Addressed
  <2> QED
    BY <1>2, <1>3, <2>1, <2>2 DEF SentFrom
<1> QED
  BY <1>7, <1>8, <1>9 DEF StackInv

(* handle_packet returns to the loop. *)
LEMMA StackReturn ==
  ASSUME StackInv, Stack!Return
  PROVE  StackInv'
<1>1. /\ sent /\ sent' = FALSE /\ packet' = NoPacket /\ NextIface
      /\ UNCHANGED <<open, queue, revents, arrived, header>>
  BY StackNames, StackMoves DEF Stack!Return, Stack!L!Return
<1>2. attach' = attach
  BY DEF Stack!Return, Stack!S!KnownSource, Stack!S!Learn
<1>3. i # 0 /\ i \in 0 .. nifs
  BY <1>1 DEF StackInv, StackTypes, InHand
<1>4. i' \in 0 .. nifs /\ (i' = 0 \/ i' = i + 1)
  BY <1>1, <1>3, NextIfaceType
<1>5. StackTypes'
  BY <1>1, <1>2, <1>4 DEF StackInv, StackTypes, QueuesOK
<1>6. NeverBlocks'
  <2>1. \A k \in revents : k \in Nat /\ i \in Nat
    BY NifsAssumption DEF StackInv, StackTypes, Ifs
  <2> QED
    BY <1>1, <1>3, <1>4, <2>1 DEF StackInv, NeverBlocks
<1>7. InHand' /\ Addressed'
  BY <1>1, <1>2 DEF StackInv, InHand, Addressed, SentFrom
<1> QED
  BY <1>5, <1>6, <1>7 DEF StackInv

(* Only hosts that may move do. *)
LEMMA StackElsewhere ==
  ASSUME StackInv,
         Stack!NewSource \/ Stack!SweepThread \/ Stack!Environment \/ Stack!PollFailed
  PROVE  StackInv'
<1>1. UNCHANGED <<open, queue, revents, i, packet, sent, arrived, header>>
  BY DEF Stack!NewSource, Stack!SweepThread, Stack!Environment, Stack!PollFailed,
         Stack!L!PollFailed, Stack!loopVars
<1>2. /\ attach' \in [MAC -> Ifs]
      /\ \A m \in MAC : m \in Mobile \/ attach'[m] = attach[m]
  <2>1. attach \in [MAC -> Ifs]
    BY DEF StackInv, StackTypes
  <2>2. CASE attach' = attach
    BY <2>1, <2>2
  <2>3. ASSUME NEW m \in Mobile, NEW iface \in Stack!Iface, Stack!S!Move(m, iface)
        PROVE  /\ attach' \in [MAC -> Ifs]
               /\ \A n \in MAC : n \in Mobile \/ attach'[n] = attach[n]
    <3>1. attach' = [attach EXCEPT ![m] = iface] /\ iface \in Ifs
      BY <2>3, StackNames DEF Stack!S!Move
    <3> QED
      BY <2>1, <3>1
  <2> QED
    BY <2>2, <2>3 DEF Stack!NewSource, Stack!SweepThread, Stack!Environment, Stack!PollFailed,
         Stack!switchVars, Stack!S!NewSource, Stack!S!SweepThread, Stack!S!Clock
<1>3. StackTypes' /\ NeverBlocks' /\ InHand'
  BY <1>1, <1>2 DEF StackInv, StackTypes, QueuesOK, NeverBlocks, InHand
<1>4. Addressed'
  <2> SUFFICES ASSUME NEW l \in Ifs, NEW n \in 1 .. Len(queue[l]), Incoming(queue[l][n])
               PROVE  SentFrom(queue[l][n].id, l)'
    BY <1>1 DEF Addressed, Ifs, Incoming
  <2>1. SentFrom(queue[l][n].id, l)
    BY DEF StackInv, Addressed
  <2> QED
    BY <1>1, <1>2, <2>1 DEF SentFrom
<1> QED
  BY <1>3, <1>4 DEF StackInv

(* So every step keeps the invariant. *)
LEMMA StackStep == StackInv /\ [Stack!Next]_Stack!vars => StackInv'
<1> SUFFICES ASSUME StackInv, [Stack!Next]_Stack!vars
             PROVE  StackInv'
  OBVIOUS
<1>1. CASE UNCHANGED Stack!vars
  BY <1>1 DEF Stack!vars, Stack!loopVars, Stack!switchVars, StackInv, StackTypes, QueuesOK,
              NeverBlocks, InHand, Addressed, SentFrom
<1> QED
  BY <1>1, StackArrive, StackLoopStep, StackReceive, StackForward, StackReturn,
     StackElsewhere DEF Stack!Next, Stack!MainThread

(* And every step is one of Switch, or leaves what Switch speaks of. *)
LEMMA StackRefines ==
  ASSUME StackInv, [Stack!Next]_Stack!vars
  PROVE  [Stack!S!Next]_Stack!S!vars
<1> DEFINE Same == UNCHANGED <<mac_port_map, idle, pc, cur, tx, attach, quiet>>
<1>1. Same => UNCHANGED Stack!S!vars
  BY DEF Stack!S!vars
<1>2. CASE UNCHANGED Stack!vars
  BY <1>1, <1>2 DEF Stack!vars, Stack!switchVars
<1>3. ASSUME NEW m, NEW d, Stack!Arrive(m, d)
      PROVE  Same
  BY <1>3 DEF Stack!Arrive, Stack!switchVars
<1>4. Stack!LoopStep => Same
  BY LoopStepCases
<1>5. Stack!PollFailed => Same
  BY DEF Stack!PollFailed, Stack!switchVars
<1>6. Stack!Receive => Stack!S!Next
  BY StackReceive DEF Stack!S!Next
<1>7. Stack!Forward \/ Stack!NewSource \/ Stack!Return => Stack!S!Next
  BY DEF Stack!Forward, Stack!NewSource, Stack!Return, Stack!S!Next, Stack!S!PacketThread
<1>8. Stack!SweepThread \/ Stack!Environment => Stack!S!Next
  BY DEF Stack!SweepThread, Stack!Environment, Stack!S!Next
<1> HIDE DEF Same
<1> QED
  BY <1>1, <1>2, <1>3, <1>4, <1>5, <1>6, <1>7, <1>8 DEF Stack!Next, Stack!MainThread

(* The frames that wait in the sockets of the switch program come from     *)
(* hosts where these are plugged in, and recvfrom never stalls it.         *)
THEOREM StackInvariance == Stack!Spec => []StackInv
<1> QED
  BY StackInitInv, StackStep, PTL DEF Stack!Spec

(* The whole switch program, with its loop, its sockets that capture what  *)
(* is sent and its sweeping thread, implements Switch: handle_packet is    *)
(* only ever called with frames that Switch assumes, so that the theorems  *)
(* about Switch hold of the program.                                       *)
THEOREM StackImplementsSwitch == Stack!Spec => Stack!ImplementsSwitch
<1>1. Stack!Init => Stack!S!Init
  BY DEF Stack!Init
<1>2. StackInv /\ [Stack!Next]_Stack!vars => [Stack!S!Next]_Stack!S!vars
  BY StackRefines
<1> QED
  BY <1>1, <1>2, StackInvariance, PTL DEF Stack!Spec, Stack!ImplementsSwitch, Stack!S!Spec
=============================================================================
