--------------------------- MODULE MCSwitchStack ---------------------------
(* A small instance of SwitchStack for TLC. *)
EXTENDS SwitchStack

CONSTANTS a, b, bcast

TwoHosts == {a, b}
OneMoves == {a}
Everyone == {bcast}
=============================================================================
