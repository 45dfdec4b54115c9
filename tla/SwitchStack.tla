---------------------------- MODULE SwitchStack ----------------------------
(***************************************************************************)
(* The whole switch program: the receive loop of EventLoop calls the       *)
(* handle_packet of Switch, while the sweeping thread runs, frames arrive  *)
(* and hosts move.  The frames of the loop carry addresses here, and what  *)
(* handle_packet sends is what the sockets capture.                        *)
(***************************************************************************)
EXTENDS Naturals, Sequences

CONSTANTS
  MAC, Group, Mobile, MAC_PORT_TIMEOUT, SweepPeriod,   \* see Switch
  nifs, MaxFrames, MaxQueue, MaxErrors                 \* see EventLoop

VARIABLES
  open, queue, revents, i, packet, sent, running, handled, arrived, errors,
  bypassed,                                            \* see EventLoop
  mac_port_map, idle, pc, cur, tx, attach, quiet,      \* see Switch
  header,      \* the addresses of each frame and where it came in
  out          \* history: the interfaces each frame was put on

loopVars == <<open, queue, revents, i, packet, sent, running, handled,
              arrived, errors, bypassed>>
switchVars == <<mac_port_map, idle, pc, cur, tx, attach, quiet>>
vars == <<loopVars, switchVars, header, out>>

Iface == 1 .. nifs

L == INSTANCE EventLoop WITH stack <- "switch"
S == INSTANCE Switch

Init ==
  /\ L!Init
  /\ S!Init
  /\ header = [f \in 1 .. MaxFrames |-> S!NoFrame]
  /\ out = [f \in 1 .. MaxFrames |-> {}]
-----------------------------------------------------------------------------
(* A host sends a frame, which arrives where the host is plugged in. *)
Arrive(m, d) ==
  /\ L!Arrive(attach[m])
  /\ header' = [header EXCEPT ![arrived'] =
                  [src |-> m, dst |-> d, in |-> attach[m]]]
  /\ UNCHANGED <<switchVars, out>>

(* The steps of the loop outside of handle_packet. *)
LoopStep ==
  /\ L!Loop
  /\ UNCHANGED <<packet, sent, switchVars, header, out>>

PollFailed ==
  /\ L!PollFailed
  /\ UNCHANGED <<switchVars, header, out>>

(* handle_packet(iface, buf, len): the interface is the one whose socket   *)
(* the frame was received from.                                            *)
Receive ==
  /\ L!Receive
  /\ S!Enter(header[packet'.id].src, header[packet'.id].dst, i)
  /\ UNCHANGED <<header, out>>

(* Its first half.  A frame cannot be sent by an interface that could not  *)
(* be opened.                                                              *)
Forward ==
  /\ S!Forward
  /\ L!Transmit(tx')
  /\ out' = [out EXCEPT ![packet.id] = @ \cup (tx' \cap open)]
  /\ UNCHANGED header

(* Its second half, up to its return. *)
NewSource ==
  /\ S!NewSource
  /\ UNCHANGED <<loopVars, header, out>>

Return ==
  /\ S!KnownSource \/ S!Learn
  /\ L!Return
  /\ UNCHANGED <<header, out>>

(* The sweeping thread; it ends with the program. *)
SweepThread ==
  /\ running
  /\ S!SweepThread
  /\ UNCHANGED <<loopVars, header, out>>

(* Time passes, and hosts move. *)
Environment ==
  /\ S!Clock \/ \E m \in Mobile, iface \in Iface : S!Move(m, iface)
  /\ UNCHANGED <<loopVars, header, out>>

MainThread == LoopStep \/ Receive \/ Forward \/ NewSource \/ Return

Next ==
  \/ \E m \in MAC, d \in MAC \cup Group : Arrive(m, d)
  \/ MainThread \/ PollFailed \/ SweepThread \/ Environment

Spec == Init /\ [][Next]_vars

(* The main thread is scheduled. *)
FairSpec == Spec /\ WF_vars(MainThread)
-----------------------------------------------------------------------------
(* Fed from the sockets, handle_packet sees what Switch assumes: frames of *)
(* hosts that never move come from where these are plugged in, however     *)
(* many copies of them the sockets of other interfaces have captured.  So  *)
(* the theorems about Switch hold of the whole program.                    *)
ImplementsSwitch == S!Spec

(* Where frame f has to be put: on all the other interfaces if it is for a *)
(* group, on that of its destination if this is a host that stays.         *)
Destination(f) ==
  LET d == header[f].dst
  IN  (IF d \in Group THEN Iface
       ELSE IF d \in MAC \ Mobile THEN {attach[d]} ELSE {})
      \cap (open \ {header[f].in})

(* Every frame that has reached a socket is put on the segments it has to  *)
(* reach, whatever is swept, learned or moved while it waits, unless poll  *)
(* fails.                                                                  *)
Delivered ==
  \A f \in 1 .. MaxFrames :
    (f <= arrived) ~> (~ running \/ Destination(f) \subseteq out[f])
=============================================================================
