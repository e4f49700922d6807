------------------------------ MODULE MCMlcoin ------------------------------
(* Instances of Mlcoin for TLC. *)
EXTENDS Mlcoin, TLC

CONSTANTS a1, a2

(* Two traders: one holds KES and a small wallet, the other an allocation  *)
(* that Circulating does not count, as the Founder and Team wallets of     *)
(* DefaultGenesis.                                                         *)
MCGenWallet == (a1 :> 2) @@ (a2 :> 64)
MCGenKes == (a1 :> 800)

(* A balance for words of seven bits, where volumes pass the largest int64 *)
(* and rates outgrow the word.                                             *)
MCSmallKes == (a1 :> 127)
=============================================================================
