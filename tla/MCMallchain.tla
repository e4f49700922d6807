---------------------------- MODULE MCMallchain ----------------------------
(* Instances of Mallchain for TLC. *)
EXTENDS Mallchain, TLC

CONSTANTS a1, a2

MCGenWallet == (a1 :> 2)
MCGenKes == (a1 :> 800)
MCGenPoints == (a2 :> 3)
=============================================================================
