---------------------------- MODULE ChainExport ----------------------------
(***************************************************************************)
(* The chain exported to a genesis file and started again from it, between *)
(* any two messages of Mallchain.  InitGenesis stores a record under the   *)
(* Index field it carries; the handlers create records under the address   *)
(* and leave Index empty, so such a record comes back under the key "",    *)
(* where no handler looks, and of several only the last one listed stays.  *)
(***************************************************************************)
EXTENDS Mallchain

CONSTANT MaxRestarts   \* bound: the restarts considered

(* A genesis file is a list. *)
ASSUME ExportAssumption == MaxRestarts \in Nat /\ IsFiniteSet(DOMAIN GenWallet)

VARIABLES
  lost,       \* the records under "": the wallet's and the points' numbers
  restarts,   \* bound and history: restarts so far
  untouched   \* history: nothing happened since the last restart

exportVars == <<lost, restarts, untouched>>
chainVars == <<allVars, exportVars>>

(* A record of the genesis file carries its Index for good, as handlers    *)
(* rewrite the record they read.                                           *)
Indexed(gen, f) == DOMAIN f \cap DOMAIN gen
NotIndexed(gen, f) == DOMAIN f \ DOMAIN gen

(* What InitGenesis finds of an exported store: under the addresses the    *)
(* indexed records, under "" one of those without.  In the order of the    *)
(* keys "" comes first, so that an older record there is overwritten.      *)
Kept(gen, f) == [a \in Indexed(gen, f) |-> f[a]]
UnderEmptyForgotten(gen, f, old) ==   \* mutant
  IF NotIndexed(gen, f) = {} THEN {-1} ELSE {f[a] : a \in NotIndexed(gen, f)}
UnderEmpty(gen, f, old) ==
  IF NotIndexed(gen, f) = {} THEN {old} ELSE {f[a] : a \in NotIndexed(gen, f)}

CirculatingDefault(c) == GenCirculating   \* mutant
CirculatingKept(c) == c

ExportInit ==
  /\ MallInit
  /\ lost = [wallet |-> -1, points |-> -1]
  /\ restarts = 0
  /\ untouched = FALSE

(* ExportGenesis and InitGenesis of the three modules.  KES balances, the  *)
(* market, both logs, their sequence and the currency rates are in no      *)
(* exported list; x/bank exports its own balances.  Badges carry no Index. *)
Restart ==
  /\ restarts < MaxRestarts
  /\ restarts' = restarts + 1
  /\ untouched' = TRUE
  /\ wallet' = Kept(GenWallet, wallet)
  /\ points' = Kept(GenPoints, points)
  /\ \E w \in UnderEmpty(GenWallet, wallet, lost.wallet),
        p \in UnderEmpty(GenPoints, points, lost.points) :
       lost' = [wallet |-> w, points |-> p]
  /\ completed' = Kept(GenPoints, completed)
  /\ lastEarned' = Kept(GenPoints, lastEarned)
  /\ badges' = {}
  /\ circ' = CirculatingKept(circ)
  /\ kes' = [a \in {} |-> 0]
  /\ market' = [buy |-> 62, sell |-> 58, buyVol |-> 0, sellVol |-> 0]
  /\ seq' = 0
  /\ txs' = [n \in {} |-> 0]
  /\ trades' = [n \in {} |-> 0]
  /\ rates' = [c \in {} |-> 0]
  /\ UNCHANGED <<bank, height, awarded>>

Message == MallNext /\ untouched' = FALSE /\ UNCHANGED <<lost, restarts>>
ExportNext == Message \/ Restart
ExportSpec == ExportInit /\ [][ExportNext]_chainVars

-----------------------------------------------------------------------------
(* The coins in all wallets, with the record lost under "", never exceed   *)
(* what the first genesis file gave out and Circulating has grown by: a    *)
(* restart keeps records and Circulating in step, so it neither puts a     *)
(* coin into two records nor hides an issued one from the supply cap.      *)
Held(f) == SumFunctionOnSet(f, DOMAIN f)
Dropped == IF lost.wallet < 0 THEN 0 ELSE lost.wallet
CoinsCounted == Held(wallet) + Dropped + GenCirculating <= Held(GenWallet) + circ

(* What is lost is lost at the first restart: a second one in a row        *)
(* changes nothing more.                                                   *)
RestartIsIdempotent ==
  [][restarts' # restarts /\ untouched =>
       UNCHANGED <<vars, points, completed, lastEarned, badges, lost>>]_chainVars

(* app/export.go:18-19: the export is the state of the application, so a   *)
(* restart from it changes no balance.  Refuted by balance_claim.          *)
RestartKeepsBalances ==
  [][restarts' # restarts =>
       UNCHANGED <<wallet, kes, points, badges>>]_chainVars
=============================================================================
