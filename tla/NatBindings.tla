---------------------------- MODULE NatBindings ----------------------------
(***************************************************************************)
(* What an address translator promises: the specification that both        *)
(* versions of it, nat.c and nat_new_2.c, are checked against.             *)
(*                                                                         *)
(* An endpoint keeps the external port it was first given, a port keeps    *)
(* leading to the endpoint it was first given to, and every packet is      *)
(* rewritten accordingly.  Nothing is said of how mappings are stored.     *)
(***************************************************************************)
CONSTANTS
  external_ip,   \* the address of the translator
  None,          \* no packet
  Spare          \* the port given out when no other is left

VARIABLES
  bind,          \* the port of each endpoint that has one
  owner,         \* the endpoint that each port in use leads to
  rcvd,          \* the packet being translated
  sent           \* the packet just sent

vars == <<bind, owner, rcvd, sent>>

Init ==
  /\ DOMAIN bind = {}
  /\ DOMAIN owner = {}
  /\ rcvd = None
  /\ sent = None

(* f with x added to its domain, unless it is there already. *)
Extend(f, x, y) ==
  [z \in DOMAIN f \cup {x} |-> IF z \in DOMAIN f THEN f[z] ELSE y]

Inward == rcvd.dst.ip = external_ip
Masked(port) == [rcvd EXCEPT !.src = [ip |-> external_ip, port |-> port]]
-----------------------------------------------------------------------------
Arrive ==
  /\ rcvd = None
  /\ rcvd' # None
  /\ sent' = None
  /\ UNCHANGED <<bind, owner>>

(* An echo request for the translator itself is answered. *)
Answer ==
  /\ rcvd = None
  /\ sent' # None /\ sent'.proto = "ICMP"
  /\ UNCHANGED <<bind, owner, rcvd>>

Inbound ==
  /\ rcvd # None /\ Inward
  /\ rcvd.dst.port \in DOMAIN owner
  /\ sent' = [rcvd EXCEPT !.dst = owner[rcvd.dst.port]]
  /\ rcvd' = None
  /\ UNCHANGED <<bind, owner>>

Outbound ==
  /\ rcvd # None /\ ~ Inward
  /\ rcvd.src \in DOMAIN bind
  /\ sent' = Masked(bind[rcvd.src])
  /\ rcvd' = None
  /\ UNCHANGED <<bind, owner>>

(* A packet that finds no binding makes one for its source, with a port    *)
(* that leads nowhere yet.                                                 *)
Assign(port) ==
  /\ rcvd # None
  /\ IF Inward THEN rcvd.dst.port \notin DOMAIN owner
               ELSE rcvd.src \notin DOMAIN bind
  /\ port \notin DOMAIN owner \/ port = Spare
  /\ bind' = Extend(bind, rcvd.src, port)
  /\ owner' = Extend(owner, port, rcvd.src)
  /\ rcvd' = None

(* Its source is then replaced if it leaves, as that of all later packets. *)
Bind(port) ==
  /\ Assign(port)
  /\ sent' = IF Inward THEN rcvd ELSE Masked(port)

Known == Arrive \/ Answer \/ Inbound \/ Outbound

Next == Known \/ \E port \in DOMAIN owner' : Bind(port)

Step == [Next]_vars

Spec == Init /\ [][Next]_vars

(* The bindings, and the packets of those who have one already: nothing is *)
(* said of what becomes of the packet that makes a binding.                *)
KeepNext == Known \/ \E port \in DOMAIN owner' : Assign(port)

KeepStep == [KeepNext]_vars

KeepSpec == Init /\ [][KeepNext]_vars
-----------------------------------------------------------------------------
(* The reply to a packet that was sent under a port comes back to the host *)
(* that sent it, as long as the port is not the one that is shared.        *)
RepliesReturn ==
  \A e \in DOMAIN bind :
    /\ bind[e] \in DOMAIN owner
    /\ bind[e] # Spare => owner[bind[e]] = e
=============================================================================
