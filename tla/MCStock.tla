------------------------------ MODULE MCStock ------------------------------
(* Instances of Stock for TLC. *)
EXTENDS Stock, TLC

CONSTANTS p1

Of(q) == [product |-> p1, qty |-> q]
MCBaskets == {<<Of(2)>>, <<Of(1), Of(-1)>>}
MCDeltas == {-2, 1}
MCLevels == {-1, 3}
MCSymmetry == Permutations(Requests)
=============================================================================
