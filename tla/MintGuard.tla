----------------------------- MODULE MintGuard -----------------------------
(***************************************************************************)
(* The guard of MintToWallet: one flag in the memory of the one mlcoin     *)
(* keeper of a node, set and cleared around a function by                  *)
(* WithMintingEnabled.  Purchases (x/mlcoin) and conversions (x/mallpoints)*)
(* mint through it, and so do the gas simulations of both messages, which  *)
(* the node serves in goroutines of their own while it delivers a block.   *)
(*                                                                         *)
(* A run is one execution of such a handler.  The two assignments of the   *)
(* flag are made under the mutex, each a step.  MintToWallet takes the     *)
(* keeper by value: the flag it tests is the one that was copied, without  *)
(* the mutex, when it was called, so that copy is the reading step and     *)
(* locking the mutex afterwards orders nothing.                            *)
(***************************************************************************)
CONSTANTS
  Delivered,   \* the handlers that block delivery executes, one at a time
  Simulated    \* the handlers that Simulate requests execute, concurrently

Run == Delivered \cup Simulated

VARIABLES
  internalMinting,  \* Keeper.internalMinting
  pc,               \* where a run is
  result,           \* what MintToWallet answered the run
  disturbed         \* history: another run cleared the flag since this one set it

vars == <<internalMinting, pc, result, disturbed>>

Inside == {r \in Run : pc[r] \in {"enabled", "called", "returned"}}

Init ==
  /\ internalMinting = FALSE
  /\ pc = [r \in Run |-> "idle"]
  /\ result = [r \in Run |-> "none"]
  /\ disturbed = [r \in Run |-> FALSE]

(* The flag is set; the function is about to be called. *)
SetLost(b) == FALSE   \* mutant
Set(b) == b
Enable(r) ==
  /\ pc[r] = "idle"
  /\ r \in Delivered => Inside \cap Delivered = {}
  /\ internalMinting' = Set(TRUE)
  /\ pc' = [pc EXCEPT ![r] = "enabled"]
  /\ disturbed' = [disturbed EXCEPT ![r] = FALSE]
  /\ UNCHANGED result

(* MintToWallet is called on a copy of the keeper. *)
Call(r) ==
  /\ pc[r] = "enabled"
  /\ pc' = [pc EXCEPT ![r] = IF internalMinting THEN "called" ELSE "returned"]
  /\ result' = [result EXCEPT ![r] = IF internalMinting THEN "none" ELSE "unauthorized"]
  /\ UNCHANGED <<internalMinting, disturbed>>

(* The rest of MintToWallet: it mints, refuses the amount, or panics when  *)
(* the gas of the message runs out.                                        *)
Answers == {"minted", "refused", "panicked"}
Mint(r) ==
  /\ pc[r] = "called"
  /\ pc' = [pc EXCEPT ![r] = "returned"]
  /\ \E res \in Answers : result' = [result EXCEPT ![r] = res]
  /\ UNCHANGED <<internalMinting, disturbed>>

(* The deferred function runs however the function ended. *)
ClearOnSuccess(r) == IF result[r] = "minted" THEN FALSE ELSE internalMinting   \* mutant
Clear(r) == FALSE
Disable(r) ==
  /\ pc[r] = "returned"
  /\ internalMinting' = Clear(r)
  /\ pc' = [pc EXCEPT ![r] = "idle"]
  /\ result' = [result EXCEPT ![r] = "none"]
  /\ disturbed' = [s \in Run |-> disturbed[s] \/ (s # r /\ s \in Inside)]

Next == \E r \in Run : Enable(r) \/ Call(r) \/ Mint(r) \/ Disable(r)

(* A handler never waits for another one: once it has set the flag it runs *)
(* to its end.  Whether a message arrives is not promised.                 *)
Fairness == \A r \in Run : WF_vars(Call(r)) /\ WF_vars(Mint(r)) /\ WF_vars(Disable(r))
Spec == Init /\ [][Next]_vars /\ Fairness

-----------------------------------------------------------------------------
(* Each variable holds one of its values, and exactly the runs MintToWallet *)
(* has returned to have an answer.                                          *)
TypeOK ==
  /\ internalMinting \in BOOLEAN
  /\ pc \in [Run -> {"idle", "enabled", "called", "returned"}]
  /\ result \in [Run -> {"none", "unauthorized", "minted", "refused", "panicked"}]
  /\ disturbed \in [Run -> BOOLEAN]
  /\ \A r \in Run : result[r] # "none" <=> pc[r] = "returned"

(* The guard is open only while some run is inside WithMintingEnabled: no  *)
(* error, panic or overlap of two runs leaves minting enabled for a caller *)
(* that did not ask for it.                                                *)
ClosedAtRest == internalMinting => Inside # {}

(* A run that opted in is turned away only if another run cleared the flag *)
(* between its own setting it and its call: alone, it may always mint.     *)
RefusalNeedsOverlap ==
  \A r \in Run : pc[r] = "returned" /\ result[r] = "unauthorized" => disturbed[r]

(* Whatever handlers overlap and however they end, an open guard is closed *)
(* again.                                                                  *)
GuardCloses == internalMinting ~> ~internalMinting

(* mint_test.go:27-31 enables minting, mints and requires success; the     *)
(* comment of keeper.go:90-91 promises the opted-in path the same.  The    *)
(* run named guard_claim refutes it for a delivery beside one simulation.  *)
OptedInIsAuthorized == \A r \in Delivered : result[r] # "unauthorized"
=============================================================================
