----------------------------- MODULE MCSwitch -----------------------------
(* A small instance of Switch for TLC. *)
EXTENDS Switch

CONSTANTS a, b, bcast, p1, p2, p3

TwoHosts == {a, b}
OneMoves == {a}
Everyone == {bcast}
ThreePorts == {p1, p2, p3}
=============================================================================
