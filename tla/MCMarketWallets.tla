-------------------------- MODULE MCMarketWallets --------------------------
(* Instances of MarketWallets for TLC. *)
EXTENDS MarketWallets, TLC

CONSTANTS u1, u2

MCGenMoney == (u1 :> 3) @@ (u2 :> 0)
MCAmounts == {-1, 2}
MCShift == [a \in Amounts |-> 10]
MCSymmetry == Permutations(Requests)
=============================================================================
