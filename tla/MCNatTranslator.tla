-------------------------- MODULE MCNatTranslator --------------------------
(* Small instances of NatTranslator for TLC. *)
EXTENDS NatTranslator

CONSTANTS h1, h2, w, nat_in, nat_out

OneInside == {h1}
TwoInside == {h1, h2}
OneOutside == {w}
=============================================================================
