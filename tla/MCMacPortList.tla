--------------------------- MODULE MCMacPortList ---------------------------
(* Small instances of MacPortList for TLC. *)
EXTENDS MacPortList

CONSTANTS a, b

TwoHosts == {a, b}
=============================================================================
