--------------------------- MODULE MCChainExport ---------------------------
(* One address of the genesis file and two that come later. *)
EXTENDS ChainExport, TLC

CONSTANTS a1, a2, a3

MCGenWallet == (a1 :> 2)
MCGenKes == (a1 :> 800) @@ (a2 :> 800)
MCGenPoints == (a1 :> 3)
=============================================================================
