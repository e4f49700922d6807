---------------------------- MODULE MCMintGuard ----------------------------
(* Two messages of a block and two simulations served beside them. *)
EXTENDS MintGuard
CONSTANTS d1, d2, s1, s2
=============================================================================
