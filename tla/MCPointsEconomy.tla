-------------------------- MODULE MCPointsEconomy --------------------------
(* Instances of PointsEconomy for TLC. *)
EXTENDS PointsEconomy, TLC

CONSTANTS u1, u2, c1

MCPublisher == c1 :> u1
MCTerms == {<<2, 1>>, <<-1, -1>>}
MCAmounts == {-1, 2}
MCGenPoints == (u1 :> 2) @@ (u2 :> 0)
(* A publisher whose budget is below zero is credited and never runs out:  *)
(* such campaigns are checked with two of the calls.                       *)
MCCalls == budget[c1] < 0 => Cardinality({r \in Requests : pc[r] # "idle"}) < 3
MCSymmetry ==
  Permutations(Requests \ Errands) \cup Permutations(Errands) \cup Permutations(Runners)
=============================================================================
