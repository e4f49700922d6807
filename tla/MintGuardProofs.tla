-------------------------- MODULE MintGuardProofs --------------------------
(* The guard's safety for any number of deliveries and simulations. *)
EXTENDS MintGuard, TLAPS

(* A run that has set the flag finds it set, or was disturbed. *)
GuardInv ==
  /\ TypeOK
  /\ ClosedAtRest
  /\ \A r \in Inside : pc[r] = "enabled" => internalMinting \/ disturbed[r]
  /\ RefusalNeedsOverlap

LEMMA GuardInit == Init => GuardInv
  BY DEF Init, GuardInv, TypeOK, ClosedAtRest, RefusalNeedsOverlap, Inside

LEMMA EnableKeepsGuard ==
  ASSUME GuardInv, NEW r \in Run, Enable(r)
  PROVE  GuardInv'
<1>1. TypeOK'
  BY DEF GuardInv, TypeOK, Enable, Set
<1>2. ClosedAtRest'
  BY DEF GuardInv, TypeOK, ClosedAtRest, Enable, Inside
<1>3. internalMinting'
  BY DEF Enable, Set
<1>4. RefusalNeedsOverlap'
  BY DEF GuardInv, TypeOK, RefusalNeedsOverlap, Enable
<1> QED
  BY <1>1, <1>2, <1>3, <1>4 DEF GuardInv

LEMMA CallKeepsGuard ==
  ASSUME GuardInv, NEW r \in Run, Call(r)
  PROVE  GuardInv'
<1>1. TypeOK'
  BY DEF GuardInv, TypeOK, Call
<1>2. ClosedAtRest'
  BY DEF GuardInv, TypeOK, ClosedAtRest, Call, Inside
<1>3. \A s \in Inside' : pc'[s] = "enabled" => internalMinting' \/ disturbed'[s]
  BY DEF GuardInv, TypeOK, Call, Inside
<1>4. RefusalNeedsOverlap'
  BY DEF GuardInv, TypeOK, RefusalNeedsOverlap, Call, Inside
<1> QED
  BY <1>1, <1>2, <1>3, <1>4 DEF GuardInv

LEMMA MintKeepsGuard ==
  ASSUME GuardInv, NEW r \in Run, Mint(r)
  PROVE  GuardInv'
<1>1. TypeOK'
  BY DEF GuardInv, TypeOK, Mint, Answers
<1>2. ClosedAtRest'
  BY DEF GuardInv, TypeOK, ClosedAtRest, Mint, Inside
<1>3. \A s \in Inside' : pc'[s] = "enabled" => internalMinting' \/ disturbed'[s]
  BY DEF GuardInv, TypeOK, Mint, Inside
<1>4. RefusalNeedsOverlap'
  BY DEF GuardInv, TypeOK, RefusalNeedsOverlap, Mint, Answers
<1> QED
  BY <1>1, <1>2, <1>3, <1>4 DEF GuardInv

LEMMA DisableKeepsGuard ==
  ASSUME GuardInv, NEW r \in Run, Disable(r)
  PROVE  GuardInv'
<1>1. TypeOK'
  BY DEF GuardInv, TypeOK, Disable, Clear
<1>2. ClosedAtRest'
  BY DEF ClosedAtRest, Disable, Clear
<1>3. \A s \in Inside' : pc'[s] = "enabled" => disturbed'[s]
  BY DEF GuardInv, TypeOK, Disable, Inside
<1>4. RefusalNeedsOverlap'
  BY DEF GuardInv, TypeOK, RefusalNeedsOverlap, Disable
<1> QED
  BY <1>1, <1>2, <1>3, <1>4 DEF GuardInv

LEMMA StutterKeepsGuard == GuardInv /\ UNCHANGED vars => GuardInv'
  BY DEF GuardInv, TypeOK, ClosedAtRest, RefusalNeedsOverlap, Inside, vars

LEMMA GuardInvariant == Spec => []GuardInv
<1>1. GuardInv /\ [Next]_vars => GuardInv'
  BY EnableKeepsGuard, CallKeepsGuard, MintKeepsGuard, DisableKeepsGuard,
     StutterKeepsGuard DEF Next
<1> QED
  BY GuardInit, <1>1, PTL DEF Spec

(* However many handlers run at once and whether they mint, are refused or *)
(* panic, minting is never left enabled once all of them are out of        *)
(* WithMintingEnabled.                                                     *)
THEOREM GuardIsClosedAtRest == Spec => []ClosedAtRest
<1>1. GuardInv => ClosedAtRest
  BY DEF GuardInv
<1> QED
  BY GuardInvariant, <1>1, PTL

(* A caller that opted in is refused only when another run cleared the     *)
(* flag under it.                                                          *)
THEOREM RefusedOnlyByOverlap == Spec => []RefusalNeedsOverlap
<1>1. GuardInv => RefusalNeedsOverlap
  BY DEF GuardInv
<1> QED
  BY GuardInvariant, <1>1, PTL
=============================================================================
