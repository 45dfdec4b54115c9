----------------------------- MODULE EventLoop -----------------------------
(***************************************************************************)
(* The receive loop that both stacks run (ustack_run of switch_stack and   *)
(* of nat_stack, main.c): poll all the interfaces, then scan them in order *)
(* and receive one frame from each that poll reported readable.            *)
(*                                                                         *)
(* The sockets are the kernel's: a raw socket also captures frames that    *)
(* leave by its interface, marked PACKET_OUTGOING.  What handle_packet     *)
(* does is left open here; it may send the frame out of any interfaces,    *)
(* while further frames arrive.                                            *)
(***************************************************************************)
EXTENDS Naturals, FiniteSets, Sequences

CONSTANTS
  nifs,        \* the number of interfaces
  MaxFrames,   \* bound on the frames that arrive
  MaxQueue,    \* what a socket buffers; the kernel drops the rest
  MaxErrors    \* bound on the calls of recvfrom that fail

ASSUME NifsAssumption == nifs \in Nat \ {0}
ASSUME BoundsAssumption ==
  MaxFrames \in Nat /\ MaxQueue \in Nat /\ MaxErrors \in Nat

VARIABLES
  stack,       \* which of the two programs runs: "switch" or "nat"
  open,        \* the interfaces whose socket could be opened
  queue,       \* the frames buffered by the socket of each interface
  revents,     \* the interfaces the last poll reported readable
  i,           \* the interface the scan is at; 0 while in poll
  packet,      \* the frame handle_packet has been called with
  sent,        \* whether handle_packet has sent it
  running,     \* whether the loop is
  handled,     \* how often handle_packet was called for each frame
  arrived,     \* the number of frames that have arrived
  errors,      \* the number of failed receptions
  bypassed     \* history: the receptions from other interfaces since a
               \* frame has been waiting at this one

vars == <<stack, open, queue, revents, i, packet, sent, running, handled,
          arrived, errors, bypassed>>

Ifs == 1 .. nifs
Frame == [id : 1 .. MaxFrames, outgoing : BOOLEAN]
NoPacket == [id |-> 0, outgoing |-> FALSE]

(* The sets of interfaces that may end up open.  open_device failing       *)
(* leaves an interface of the switch with fd -1, which poll ignores; for   *)
(* the translator, read_iface_info then exits.                             *)
SwitchOpens == SUBSET Ifs
NatOpens == {Ifs}

(* init_all_ifaces: the interfaces are polled for input. *)
Init ==
  /\ stack \in {"switch", "nat"}
  /\ open \in IF stack = "nat" THEN NatOpens ELSE SwitchOpens
  /\ queue = [k \in Ifs |-> << >>]
  /\ revents = {}
  /\ i = 0
  /\ packet = NoPacket
  /\ sent = FALSE
  /\ running = TRUE
  /\ handled = [f \in 1 .. MaxFrames |-> 0]
  /\ arrived = 0
  /\ errors = 0
  /\ bypassed = [k \in Ifs |-> 0]
-----------------------------------------------------------------------------
(* A frame arrives at an interface. *)
Arrive(k) ==
  /\ k \in open
  /\ arrived < MaxFrames
  /\ Len(queue[k]) < MaxQueue
  /\ arrived' = arrived + 1
  /\ queue' = [queue EXCEPT ![k] = Append(@, [id |-> arrived + 1,
                                              outgoing |-> FALSE])]
  /\ UNCHANGED <<stack, open, revents, i, packet, sent, running, handled,
                 errors, bypassed>>

(* Variants: every interface is reported, or the last one never is. *)
AllOpen == IF \A k \in open : queue[k] = << >> THEN {} ELSE open
AllButLast == {k \in open : k < nifs /\ queue[k] # << >>}

(* The interfaces with POLLIN. *)
Readable == {k \in open : queue[k] # << >>}

(* poll returns when some interface is readable. *)
Poll ==
  /\ running /\ i = 0
  /\ Readable # {}
  /\ revents' = Readable
  /\ i' = 1
  /\ UNCHANGED <<stack, open, queue, packet, sent, running, handled, arrived,
                 errors, bypassed>>

(* poll fails: the loop ends, and with it the program. *)
PollFailed ==
  /\ running /\ i = 0
  /\ running' = FALSE
  /\ UNCHANGED <<stack, open, queue, revents, i, packet, sent, handled,
                 arrived, errors, bypassed>>

(* Variants: the scan runs past the last interface, or starts again. *)
ScanPastLast == i' = IF i > nifs THEN 0 ELSE i + 1
ScanRestarts == i' = 0

(* The end of an iteration of the scan; after the last, poll again. *)
NextIface == i' = IF i = nifs THEN 0 ELSE i + 1

NotReadable ==
  /\ i # 0 /\ i \notin revents
  /\ NextIface
  /\ UNCHANGED <<stack, open, queue, revents, packet, sent, running, handled,
                 arrived, errors, bypassed>>

(* The loop is about to call recvfrom for interface i. *)
AtSocket == i \in revents /\ packet = NoPacket

(* The history of who waits, when interface i is served. *)
Served ==
  bypassed' = [k \in Ifs |-> IF k = i \/ queue[k] = << >> THEN 0
                             ELSE bypassed[k] + 1]

Dequeue == queue' = [queue EXCEPT ![i] = Tail(@)]

(* recvfrom returns an error, which is only logged. *)
RecvError ==
  /\ AtSocket
  /\ errors < MaxErrors
  /\ errors' = errors + 1
  /\ NextIface /\ Served
  /\ UNCHANGED <<stack, open, queue, revents, packet, sent, running, handled,
                 arrived>>

(* Variant: the loop also handles what the interface itself sent. *)
AnyFrame(f) == TRUE

(* Not PACKET_OUTGOING. *)
Incoming(f) == ~ f.outgoing

(* The frame left by this interface: it is dropped. *)
RecvOutgoing ==
  /\ AtSocket /\ ~ Incoming(Head(queue[i]))
  /\ Dequeue /\ NextIface /\ Served
  /\ UNCHANGED <<stack, open, revents, packet, sent, running, handled,
                 arrived, errors>>

(* The copy cannot be allocated: the frame is lost. *)
NoMemory ==
  /\ stack = "nat"
  /\ AtSocket /\ Incoming(Head(queue[i]))
  /\ Dequeue /\ NextIface /\ Served
  /\ UNCHANGED <<stack, open, revents, packet, sent, running, handled,
                 arrived, errors>>

(* fd_to_iface, and handle_packet is called. *)
Receive ==
  /\ AtSocket /\ Incoming(Head(queue[i]))
  /\ packet' = Head(queue[i])
  /\ handled' = [handled EXCEPT ![packet'.id] = @ + 1]
  /\ Dequeue /\ Served
  /\ UNCHANGED <<stack, open, revents, i, sent, running, arrived, errors>>

(* handle_packet sends the frame out of some interfaces, whose sockets     *)
(* capture it.                                                             *)
Transmit(ifs) ==
  /\ packet # NoPacket /\ ~ sent
  /\ sent' = TRUE
  /\ queue' = [k \in Ifs |->
                 IF k \in ifs \cap open /\ Len(queue[k]) < MaxQueue
                 THEN Append(queue[k], [packet EXCEPT !.outgoing = TRUE])
                 ELSE queue[k]]
  /\ UNCHANGED <<stack, open, revents, i, packet, running, handled, arrived,
                 errors, bypassed>>

(* handle_packet returns. *)
Return ==
  /\ sent
  /\ sent' = FALSE
  /\ packet' = NoPacket
  /\ NextIface
  /\ UNCHANGED <<stack, open, queue, revents, running, handled, arrived,
                 errors, bypassed>>

Loop ==
  \/ Poll \/ NotReadable \/ RecvError \/ RecvOutgoing \/ NoMemory
  \/ Receive \/ Return \/ \E ifs \in SUBSET Ifs : Transmit(ifs)

Next == (\E k \in Ifs : Arrive(k)) \/ Loop \/ PollFailed

Spec == Init /\ [][Next]_vars

(* The thread of the loop is scheduled. *)
FairSpec == Spec /\ WF_vars(Loop)
-----------------------------------------------------------------------------
TypeOK ==
  /\ stack \in {"switch", "nat"}
  /\ open \subseteq Ifs
  /\ queue \in [Ifs -> Seq(Frame)]
  /\ \A k \in Ifs : Len(queue[k]) <= MaxQueue
  /\ revents \subseteq Ifs
  /\ i \in 0 .. nifs
  /\ packet \in Frame \cup {NoPacket}
  /\ sent \in BOOLEAN
  /\ running \in BOOLEAN
  /\ handled \in [1 .. MaxFrames -> Nat]
  /\ arrived \in 0 .. MaxFrames
  /\ errors \in 0 .. MaxErrors

(* An interface that poll reported still has a frame when the scan comes   *)
(* to it, so recvfrom on its blocking socket never stalls the loop.        *)
NeverBlocks ==
  i # 0 => \A k \in revents :
             (k > i \/ (k = i /\ packet = NoPacket)) => queue[k] # << >>

(* A frame is handled once, although its copies come back through the      *)
(* sockets of the interfaces it was sent out of.                           *)
HandledOnce == \A f \in 1 .. MaxFrames : handled[f] <= 1

(* While a frame waits at interface k, the loop turns to the others at     *)
(* most for the rest of the scan in progress and for those before k in the *)
(* next one: no interface can starve another.                              *)
BoundedBypass == \A k \in Ifs : bypassed[k] <= (nifs - 1) + (k - 1)

(* A frame that has arrived is eventually received, unless poll fails.     *)
Received ==
  \A k \in Ifs, f \in 1 .. MaxFrames :
    (\E n \in DOMAIN queue[k] : queue[k][n].id = f)
      ~> (~running \/ \A n \in DOMAIN queue[k] : queue[k][n].id # f)
=============================================================================
