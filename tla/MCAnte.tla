------------------------------- MODULE MCAnte -------------------------------
(* Four transactions of two senders. *)
EXTENDS Ante, TLC
CONSTANTS n1, n2, t1, t2, t3, t4
MCSender == [t \in Tx |-> IF t \in {t1, t2} THEN "alice" ELSE "bob"]
(* A proposer that replays, repeats itself and exceeds the limit. *)
MCForeign == {<<t1, t1>>, <<t1, t2, t3>>}
MCSymmetry == Permutations(Node)
=============================================================================
