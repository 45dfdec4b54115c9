----------------------------- MODULE MCNatHash -----------------------------
(* Small instances of NatHash for TLC. *)
EXTENDS NatHash

CONSTANTS h1, h2, w, nat_in, nat_out

TwoInside == {h1, h2}
OneOutside == {w}

(* Buckets that every kind of copies share: the two copies of h2's mapping *)
(* if it has port 13, external copies, an internal and an external one.    *)
Mixed == [e \in Endpoint |-> IF e.ip = h1 THEN 0 ELSE e.port % 2]
=============================================================================
