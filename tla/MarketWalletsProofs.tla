------------------------ MODULE MarketWalletsProofs ------------------------
(***************************************************************************)
(* Proofs about MarketWallets, for any number of owners and requests and   *)
(* any amounts.                                                            *)
(***************************************************************************)
EXTENDS MarketWallets, LedgerLemmas

(* One step of request r. *)
Loads(r) ==
  \E k \in Kinds, u \in Users, v \in Users, a \in Amounts, t \in BOOLEAN : Load(r, k, u, v, a, t)
Moves(r) ==
  \/ Loads(r)
  \/ Step(r)

(* A negative amount was added to the balance of u, or put in its escrow.  *)
Lowered(u) == \E r \in AddedTo(u) : amt[r] < 0
Below(u) == \E r \in HeldBy(u) : amt[r] < 0

(* What a request knows of its copies.  The tests of Affords hold of the   *)
(* copies until they are saved, whatever has become of the wallets, and a  *)
(* copy is below zero only for the reason its wallet was.                  *)
Tested ==
  \A r \in Requests :
    /\ pc[r] # "idle" => amt[r] \in Amounts /\ Accepted(kind[r], amt[r], text[r])
    /\ pc[r] \in {"loaded", "ready"} /\ kind[r] \in Debits => copy[r] >= amt[r]
    /\ pc[r] \in {"loaded", "ready"} /\ kind[r] \in Releases => copyR[r] >= amt[r]
Copied ==
  \A r \in Requests :
    /\ replicaSet => (copy[r] < 0 => Lowered(who[r])) /\ (copyTo[r] < 0 => Lowered(peer[r]))
    /\ copyR[r] < 0 => Below(who[r])
    /\ pc[r] \in {"idle", "loaded"} => copyTo[r] = 0

WalletInv == TypeOK /\ Tested /\ Copied /\ NoOverdraft /\ EscrowCovered

LEMMA InitInv == Init => WalletInv
<1> SUFFICES ASSUME Init PROVE WalletInv
  OBVIOUS
<1>1. (CHOOSE u \in Users : TRUE) \in Users
  BY WalletAssumption
<1>2. TypeOK
  BY <1>1, WalletAssumption DEF Init, TypeOK, Kinds
<1>3. Tested /\ Copied /\ NoOverdraft /\ EscrowCovered
  BY WalletAssumption DEF Init, Tested, Copied, NoOverdraft, EscrowCovered
<1> QED
  BY <1>2, <1>3 DEF WalletInv

(* The value of += is a number, and not below zero unless the amount or    *)
(* the number it is added to is.                                           *)
LEMMA PlusIsInt ==
  ASSUME NEW x \in Int, NEW a \in Amounts, NEW t \in BOOLEAN, t => a >= 0
  PROVE  /\ Plus(x, a, t) \in Int
         /\ Plus(x, a, t) < 0 => x < 0 \/ a < 0
<1>1. a \in Int /\ Shift[a] \in Nat
  BY WalletAssumption
<1> DEFINE p == x * Shift[a]
<1>2. p \in Int /\ (x >= 0 => p >= 0)
  BY <1>1
<1>3. Plus(x, a, t) = IF ~t THEN x + a ELSE IF x < 0 THEN p - a ELSE p + a
  BY DEF Plus
<1> HIDE DEF p
<1> QED
  BY <1>1, <1>2, <1>3

(* A request keeps its parameters, and what it has done stays done. *)
LEMMA HistoryStays ==
  ASSUME TypeOK, NEW r \in Requests, Moves(r)
  PROVE  /\ replicaSet' = replicaSet
         /\ \A s \in Requests :
              /\ pc[s] # "idle" => /\ kind'[s] = kind[s] /\ amt'[s] = amt[s]
                                  /\ who'[s] = who[s] /\ peer'[s] = peer[s]
              /\ pc[s] \in {"done", "failed"} => pc'[s] = pc[s]
              /\ pc[s] = "saved" /\ kind[s] = "refund" => pc'[s] \in {"saved", "done"}
<1> USE DEF TypeOK
<1>1. CASE Loads(r)
  BY <1>1 DEF Loads, Load
<1>2. CASE LoadPeer(r)
  BY <1>2 DEF LoadPeer
<1>3. CASE CommitDeposit(r) \/ CommitSend(r) \/ Abort(r) \/ SendFrom(r) \/ SendTo(r)
  BY <1>3 DEF CommitDeposit, CommitSend, Abort, SendFrom, SendTo, Leave, request
<1>4. CASE LogSend(r) \/ LogReceive(r)
  BY <1>4 DEF LogSend, LogReceive, Leave, request
<1>5. CASE SaveMoney(r) \/ Hold(r) \/ Release(r)
  BY <1>5 DEF SaveMoney, Hold, Release, Leave, request
<1>6. CASE Refund(r) \/ Log(r)
  BY <1>6 DEF Refund, Log, Leave, request
<1> QED
  BY <1>1, <1>2, <1>3, <1>4, <1>5, <1>6 DEF Moves, Step

LEMMA SignsStay ==
  ASSUME TypeOK, NEW r \in Requests, Moves(r), NEW u \in Users
  PROVE  /\ Lowered(u) => Lowered(u)'
         /\ Below(u) => Below(u)'
BY HistoryStays DEF Lowered, Below, AddedTo, HeldBy

(* A load tests what it copies. *)
LEMMA LoadKeepsInv ==
  ASSUME WalletInv, NEW r \in Requests, NEW k \in Kinds, NEW u \in Users,
         NEW v \in Users, NEW a \in Amounts, NEW t \in BOOLEAN, Load(r, k, u, v, a, t)
  PROVE  WalletInv'
<1>0. TypeOK /\ Tested /\ Copied /\ NoOverdraft /\ EscrowCovered /\ Moves(r)
  BY DEF WalletInv, Moves, Loads
<1>1. a \in Int
  BY WalletAssumption
<1>2. TypeOK'
  BY <1>0, <1>1 DEF Load, TypeOK, store
<1>3. Tested'
  BY <1>0, <1>1 DEF Load, Affords, Tested, TypeOK, store
<1>4. \A w \in Users : (Lowered(w) => Lowered(w)') /\ (Below(w) => Below(w)')
  BY <1>0, SignsStay
<1>5. /\ replicaSet => (money[u] < 0 => Lowered(u))
      /\ reserved[u] < 0 => Below(u)
  BY <1>0 DEF NoOverdraft, EscrowCovered, Lowered, Below
<1>6. \A s \in Requests : who[s] \in Users /\ peer[s] \in Users
  BY <1>0 DEF TypeOK
<1>7. Copied'
  <2>1. /\ replicaSet' = replicaSet /\ copyTo' = copyTo
        /\ who' = [who EXCEPT ![r] = u] /\ peer' = [peer EXCEPT ![r] = v]
        /\ copy' = [copy EXCEPT ![r] = money[u]] /\ copyR' = [copyR EXCEPT ![r] = reserved[u]]
    BY DEF Load
  <2>2. replicaSet => copyTo[r] >= 0
    BY <1>0 DEF Load, Copied
  <2>3. pc' = [pc EXCEPT ![r] = IF k = "send" THEN "loaded" ELSE "ready"] /\ pc[r] = "idle"
    BY DEF Load
  <2> QED
    BY <1>0, <1>4, <1>5, <1>6, <2>1, <2>2, <2>3 DEF Copied, TypeOK
<1>8. NoOverdraft' /\ EscrowCovered'
  BY <1>0, <1>4 DEF Load, store, NoOverdraft, EscrowCovered, Lowered, Below
<1> QED
  BY <1>2, <1>3, <1>7, <1>8 DEF WalletInv

LEMMA LoadPeerKeepsInv ==
  ASSUME WalletInv, NEW r \in Requests, LoadPeer(r)
  PROVE  WalletInv'
<1>0. TypeOK /\ Tested /\ Copied /\ NoOverdraft /\ EscrowCovered /\ Moves(r)
  BY DEF WalletInv, Moves, Step
<1>1. TypeOK' /\ Tested'
  BY <1>0 DEF LoadPeer, TypeOK, Tested, store
<1>2. \A w \in Users : (Lowered(w) => Lowered(w)') /\ (Below(w) => Below(w)')
  BY <1>0, SignsStay
<1>3. replicaSet => (money[peer[r]] < 0 => Lowered(peer[r]))
  BY <1>0 DEF NoOverdraft, Lowered, TypeOK
<1>4. Copied'
  <2>1. /\ UNCHANGED <<replicaSet, who, peer, copy, copyR>>
        /\ copyTo' = [copyTo EXCEPT ![r] = money[peer[r]]] /\ pc' = [pc EXCEPT ![r] = "ready"]
    BY DEF LoadPeer
  <2>2. \A s \in Requests : who[s] \in Users /\ peer[s] \in Users
    BY <1>0 DEF TypeOK
  <2> QED
    BY <1>0, <1>2, <1>3, <2>1, <2>2 DEF Copied, TypeOK
<1>5. NoOverdraft' /\ EscrowCovered'
  BY <1>0, <1>2 DEF LoadPeer, store, NoOverdraft, EscrowCovered, Lowered, Below
<1> QED
  BY <1>1, <1>4, <1>5 DEF WalletInv

(* Only a send is ever noted, and only without transactions is it half way. *)
Placed ==
  \A r \in Requests :
    /\ pc[r] = "noted" => kind[r] = "send"
    /\ kind[r] = "send" /\ pc[r] \in {"half", "saved", "noted"} => ~replicaSet

(* A request that moves on and keeps its copies: only the stores and the   *)
(* step it goes to are left to look at.                                    *)
States == {"idle", "loaded", "ready", "half", "saved", "noted", "done", "failed", "aborted"}
Later == {"half", "saved", "noted", "done", "failed", "aborted"}

LEMMA StoresSuffice ==
  ASSUME WalletInv, NEW r \in Requests, Moves(r), pc[r] # "idle", NEW next \in Later, Leave(r, next),
         money' \in [Users -> Int], log' \in [Users -> Int],
         reserved' \in [Users -> Int], astray' \subseteq Users,
         \A u \in Users :
           /\ replicaSet /\ money'[u] < 0 => money[u] < 0 \/ Lowered(u)'
           /\ reserved'[u] < 0 => reserved[u] < 0 \/ Below(u)'
  PROVE  WalletInv'
<1>0. TypeOK /\ Tested /\ Copied /\ NoOverdraft /\ EscrowCovered
  BY DEF WalletInv
<1>1. /\ UNCHANGED <<replicaSet, kind, who, peer, amt, text, copy, copyR, copyTo>>
      /\ pc' = [pc EXCEPT ![r] = next]
  BY DEF Leave, request
<1>2. TypeOK'
  BY <1>0, <1>1 DEF TypeOK, Later
<1>3. Tested'
  BY <1>0, <1>1 DEF Tested, TypeOK, Later
<1>4. \A u \in Users : (Lowered(u) => Lowered(u)') /\ (Below(u) => Below(u)')
  BY <1>0, SignsStay
<1>5. Copied'
  <2>1. \A s \in Requests : who[s] \in Users /\ peer[s] \in Users
    BY <1>0 DEF TypeOK
  <2> QED
    BY <1>0, <1>1, <1>4, <2>1 DEF Copied, TypeOK, Later
<1>6. NoOverdraft'
  <2> SUFFICES ASSUME replicaSet, NEW u \in Users, money'[u] < 0 PROVE Lowered(u)'
    BY <1>1 DEF NoOverdraft, Lowered
  <2>1. money[u] < 0 => Lowered(u)
    BY <1>0 DEF NoOverdraft, Lowered
  <2> QED
    BY <1>4, <2>1
<1>7. EscrowCovered'
  <2> SUFFICES ASSUME NEW u \in Users, reserved'[u] < 0 PROVE Below(u)'
    BY DEF EscrowCovered, Below
  <2>1. reserved[u] < 0 => Below(u)
    BY <1>0 DEF EscrowCovered, Below
  <2> QED
    BY <1>4, <2>1
<1> QED
  BY <1>2, <1>3, <1>5, <1>6, <1>7 DEF WalletInv

LEMMA LogsTyped ==
  ASSUME TypeOK, NEW r \in Requests
  PROVE  /\ LogOne(r) \in [Users -> Int]
         /\ LogBoth(who[r], peer[r], amt[r]) \in [Users -> Int]
BY DEF TypeOK, LogOne, LogBoth

(* What is known of the request that moves. *)
LEMMA Known ==
  ASSUME WalletInv, NEW r \in Requests, pc[r] # "idle"
  PROVE  /\ TypeOK
         /\ amt[r] \in Int /\ copy[r] \in Int /\ copyR[r] \in Int /\ copyTo[r] \in Int
         /\ who[r] \in Users /\ peer[r] \in Users /\ kind[r] \in Kinds
         /\ Accepted(kind[r], amt[r], text[r])
         /\ replicaSet => (copy[r] < 0 => Lowered(who[r])) /\ (copyTo[r] < 0 => Lowered(peer[r]))
         /\ copyR[r] < 0 => Below(who[r])
         /\ \A x \in Int : /\ Plus(x, amt[r], text[r]) \in Int
                           /\ Plus(x, amt[r], text[r]) < 0 => x < 0 \/ amt[r] < 0
<1>1. TypeOK /\ amt[r] \in Amounts /\ text[r] \in BOOLEAN /\ (text[r] => amt[r] >= 0)
      /\ Accepted(kind[r], amt[r], text[r])
  BY DEF WalletInv, Tested, Accepted, TypeOK
<1>2. \A x \in Int : /\ Plus(x, amt[r], text[r]) \in Int
                     /\ Plus(x, amt[r], text[r]) < 0 => x < 0 \/ amt[r] < 0
  BY <1>1, PlusIsInt
<1>3. /\ amt[r] \in Int /\ copy[r] \in Int /\ copyR[r] \in Int /\ copyTo[r] \in Int
      /\ who[r] \in Users /\ peer[r] \in Users /\ kind[r] \in Kinds
  BY <1>1 DEF TypeOK
<1>4. /\ replicaSet => (copy[r] < 0 => Lowered(who[r])) /\ (copyTo[r] < 0 => Lowered(peer[r]))
      /\ copyR[r] < 0 => Below(who[r])
  BY DEF WalletInv, Copied
<1> QED
  BY <1>1, <1>2, <1>3, <1>4

(* The steps inside a transaction. *)
LEMMA CommitKeepsInv ==
  ASSUME WalletInv, NEW r \in Requests,
         CommitDeposit(r) \/ CommitSend(r) \/ Abort(r)
  PROVE  WalletInv'
<1>1. Moves(r) /\ pc[r] # "idle" /\ pc[r] = "ready"
  BY DEF Moves, Step, CommitDeposit, CommitSend, Abort
<1>2. TypeOK /\ Tested
  BY DEF WalletInv
<1>3. \A u \in Users : Lowered(u) => Lowered(u)'
  BY <1>1, <1>2, SignsStay
<1>4. CASE CommitDeposit(r)
  <2>1. amt[r] > 0
    BY <1>1, <1>4, Known DEF CommitDeposit, Accepted
  <2> DEFINE new == copy[r] + amt[r]
  <2>2. new \in Int /\ (replicaSet /\ new < 0 => Lowered(who[r]))
    BY <1>1, <2>1, Known
  <2>3. money' = [money EXCEPT ![who[r]] = new]
    BY <1>4 DEF CommitDeposit
  <2> HIDE DEF new
  <2>4. money' \in [Users -> Int]
        /\ \A u \in Users : replicaSet /\ money'[u] < 0 => money[u] < 0 \/ Lowered(u)'
    BY <1>2, <1>3, <2>2, <2>3 DEF TypeOK
  <2>5. log' \in [Users -> Int] /\ reserved' = reserved /\ reserved' \in [Users -> Int] /\ astray' \subseteq Users
    BY <1>2, <1>4, LogsTyped DEF CommitDeposit, MarkAstray, TypeOK
  <2>6. Leave(r, "done")
    BY <1>4 DEF CommitDeposit
  <2> QED
    BY <1>1, <2>4, <2>5, <2>6, StoresSuffice DEF Later
<1>5. CASE CommitSend(r)
  <2> DEFINE from == copy[r] - amt[r]
             to == Plus(copyTo[r], amt[r], text[r])
  <2>1. from \in Int /\ to \in Int /\ from >= 0 /\ (to < 0 => copyTo[r] < 0 \/ amt[r] < 0)
    BY <1>1, <1>2, <1>5, Known DEF CommitSend, Tested, Debits
  <2>2. /\ money' = [[money EXCEPT ![who[r]] = from] EXCEPT ![peer[r]] = to]
        /\ Leave(r, "done") /\ kind[r] = "send" /\ replicaSet
    BY <1>5 DEF CommitSend
  <2> HIDE DEF from, to
  <2>3. PICK v \in Users : v = peer[r]
    BY <1>2 DEF TypeOK
  <2>4. amt[r] < 0 => Lowered(v)'
    BY <1>2, <2>2, <2>3 DEF Lowered, AddedTo, Leave, request, TypeOK
  <2>7. copyTo[r] < 0 => Lowered(v)
    BY <1>1, <2>2, <2>3, Known
  <2>8. to < 0 => Lowered(v)'
    BY <1>3, <2>1, <2>4, <2>7
  <2>5. money' \in [Users -> Int]
        /\ \A u \in Users : replicaSet /\ money'[u] < 0 => money[u] < 0 \/ Lowered(u)'
    BY <1>2, <2>1, <2>2, <2>3, <2>8 DEF TypeOK
  <2>6. log' \in [Users -> Int] /\ reserved' = reserved /\ reserved' \in [Users -> Int] /\ astray' \subseteq Users
    BY <1>2, <1>5, LogsTyped DEF CommitSend, TypeOK
  <2> QED
    BY <1>1, <2>2, <2>5, <2>6, StoresSuffice DEF Later
<1>6. CASE Abort(r)
  <2>1. UNCHANGED store /\ Leave(r, "aborted")
    BY <1>6 DEF Abort
  <2>2. /\ money' = money /\ money' \in [Users -> Int] /\ log' \in [Users -> Int]
        /\ reserved' = reserved /\ reserved' \in [Users -> Int] /\ astray' \subseteq Users
    BY <1>2, <2>1 DEF store, TypeOK
  <2> QED
    BY <1>1, <2>1, <2>2, StoresSuffice DEF Later
<1> QED
  BY <1>4, <1>5, <1>6

(* A send without transactions: balances are integers, no more is claimed. *)
LEMMA SendKeepsInv ==
  ASSUME WalletInv, Placed, NEW r \in Requests,
         SendFrom(r) \/ SendTo(r) \/ LogSend(r) \/ LogReceive(r)
  PROVE  WalletInv'
<1>1. Moves(r) /\ pc[r] # "idle"
  BY DEF Moves, Step, SendFrom, SendTo, LogSend, LogReceive
<1>2. TypeOK
  BY DEF WalletInv
<1>3. ~replicaSet
  BY DEF Placed, SendFrom, SendTo, LogSend, LogReceive
<1>4. \E next \in Later : Leave(r, next)
  BY DEF SendFrom, SendTo, LogSend, LogReceive, Later
<1>5. reserved' = reserved /\ reserved' \in [Users -> Int]
  BY <1>2 DEF SendFrom, SendTo, LogSend, LogReceive, TypeOK
<1>6. money' \in [Users -> Int]
  <2>1. /\ copy[r] - 2 * amt[r] \in Int
        /\ Plus(Plus(copyTo[r], amt[r], text[r]), amt[r], text[r]) \in Int
    BY <1>1, Known
  <2> QED
    BY <1>2, <2>1 DEF SendFrom, SendTo, LogSend, LogReceive, TypeOK
<1>7. log' \in [Users -> Int] /\ astray' \subseteq Users
  BY <1>2 DEF SendFrom, SendTo, LogSend, LogReceive, MarkAstray, TypeOK
<1> QED
  BY <1>1, <1>3, <1>4, <1>5, <1>6, <1>7, StoresSuffice

(* The plain saves: each amount was covered by the copy it is taken from.  *)
LEMMA SaveKeepsInv ==
  ASSUME WalletInv, NEW r \in Requests,
         SaveMoney(r) \/ Hold(r) \/ Release(r) \/ Refund(r) \/ Log(r)
  PROVE  WalletInv'
<1>1. Moves(r) /\ pc[r] # "idle"
  BY DEF Moves, Step, SaveMoney, Hold, Release, Refund, Log
<1>2. TypeOK /\ Tested
  BY DEF WalletInv
<1>3. \A u \in Users : (Lowered(u) => Lowered(u)') /\ (Below(u) => Below(u)')
  BY <1>1, <1>2, SignsStay
<1>4. \E next \in Later : Leave(r, next)
  BY DEF SaveMoney, Hold, Release, Refund, Log, Later
<1>5. log' \in [Users -> Int] /\ astray' \subseteq Users
  BY <1>2, LogsTyped DEF SaveMoney, Hold, Release, Refund, Log, MarkAstray, TypeOK
<1>0. PICK w \in Users : w = who[r]
  BY <1>2 DEF TypeOK
<1>6. ASSUME NEW new \in Int, money' = [money EXCEPT ![who[r]] = new],
             replicaSet /\ new < 0 => Lowered(w)'
      PROVE  money' \in [Users -> Int]
             /\ \A u \in Users : replicaSet /\ money'[u] < 0 => money[u] < 0 \/ Lowered(u)'
  BY <1>0, <1>2, <1>6 DEF TypeOK
<1>7. ASSUME NEW new \in Int, reserved' = [reserved EXCEPT ![who[r]] = new],
             new < 0 => Below(w)'
      PROVE  reserved' \in [Users -> Int]
             /\ \A u \in Users : reserved'[u] < 0 => reserved[u] < 0 \/ Below(u)'
  BY <1>0, <1>2, <1>7 DEF TypeOK
<1>8. reserved' = reserved =>
        reserved' \in [Users -> Int]
        /\ \A u \in Users : reserved'[u] < 0 => reserved[u] < 0 \/ Below(u)'
  BY <1>2 DEF TypeOK
<1>9. money' = money =>
        money' \in [Users -> Int]
        /\ \A u \in Users : replicaSet /\ money'[u] < 0 => money[u] < 0 \/ Lowered(u)'
  BY <1>2 DEF TypeOK
<1>10. CASE SaveMoney(r)
  <2> DEFINE new == IF kind[r] = "deposit" THEN copy[r] + amt[r] ELSE copy[r] - amt[r]
  <2>1. new \in Int /\ (replicaSet /\ new < 0 => Lowered(who[r]))
    <3>1. CASE kind[r] = "deposit"
      BY <1>1, <3>1, Known DEF Accepted
    <3>2. CASE kind[r] # "deposit"
      BY <1>1, <1>2, <1>10, <3>2, Known DEF SaveMoney, Tested, Debits
    <3> QED
      BY <3>1, <3>2
  <2>2. money' = [money EXCEPT ![who[r]] = new] /\ reserved' = reserved
    BY <1>10 DEF SaveMoney
  <2> HIDE DEF new
  <2>3. replicaSet /\ new < 0 => Lowered(w)'
    BY <1>0, <1>3, <2>1
  <2>4. money' \in [Users -> Int]
        /\ \A u \in Users : replicaSet /\ money'[u] < 0 => money[u] < 0 \/ Lowered(u)'
    BY <1>6, <2>1, <2>2, <2>3
  <2> QED
    BY <1>1, <1>4, <1>5, <1>8, <2>2, <2>4, StoresSuffice
<1>11. CASE Hold(r)
  <2> DEFINE new == copy[r] - amt[r]
             held == Plus(copyR[r], amt[r], text[r])
  <2>1. new \in Int /\ new >= 0 /\ held \in Int /\ (held < 0 => copyR[r] < 0 \/ amt[r] < 0)
    BY <1>1, <1>2, <1>11, Known DEF Hold, Tested, Debits
  <2>2. /\ money' = [money EXCEPT ![who[r]] = new]
        /\ reserved' = [reserved EXCEPT ![who[r]] = held]
        /\ kind[r] = "hold" /\ Leave(r, "failed")
    BY <1>11 DEF Hold
  <2> HIDE DEF new, held
  <2>3. amt[r] < 0 => Below(w)'
    BY <1>0, <1>2, <2>2 DEF Below, HeldBy, Leave, request, TypeOK
  <2>4. copyR[r] < 0 => Below(w)
    BY <1>0, <1>1, Known
  <2>5. held < 0 => Below(w)'
    BY <1>3, <2>1, <2>3, <2>4
  <2>6. money' \in [Users -> Int]
        /\ \A u \in Users : replicaSet /\ money'[u] < 0 => money[u] < 0 \/ Lowered(u)'
    <3>1. replicaSet /\ new < 0 => Lowered(w)'
      BY <2>1
    <3> QED
      BY <1>6, <2>1, <2>2, <3>1
  <2>7. reserved' \in [Users -> Int]
        /\ \A u \in Users : reserved'[u] < 0 => reserved[u] < 0 \/ Below(u)'
    BY <1>7, <2>1, <2>2, <2>5
  <2> QED
    BY <1>1, <1>4, <1>5, <2>6, <2>7, StoresSuffice
<1>12. CASE Release(r)
  <2>1. Released(r) \in Int /\ Released(r) >= 0
    BY <1>1, <1>2, <1>12, Known DEF Release, Released, Tested
  <2>2. reserved' = [reserved EXCEPT ![who[r]] = Released(r)] /\ money' = money
    BY <1>12 DEF Release
  <2>3. reserved' \in [Users -> Int]
        /\ \A u \in Users : reserved'[u] < 0 => reserved[u] < 0 \/ Below(u)'
    <3>1. Released(r) < 0 => Below(w)'
      BY <2>1
    <3> QED
      BY <1>7, <2>1, <2>2, <3>1
  <2> QED
    BY <1>1, <1>4, <1>5, <1>9, <2>2, <2>3, StoresSuffice
<1>13. CASE Refund(r)
  <2>1. Refunded(r) \in Int /\ (Refunded(r) < 0 => copy[r] < 0 \/ amt[r] < 0)
    BY <1>1, Known DEF Refunded
  <2>2. /\ money' = [money EXCEPT ![who[r]] = Refunded(r)] /\ reserved' = reserved
        /\ kind[r] = "refund" /\ Leave(r, "saved")
    BY <1>13 DEF Refund
  <2>3. amt[r] < 0 => Lowered(w)'
    BY <1>0, <1>2, <2>2 DEF Lowered, AddedTo, Leave, request, TypeOK
  <2>4. replicaSet => (copy[r] < 0 => Lowered(w))
    BY <1>0, <1>1, Known
  <2>5. replicaSet /\ Refunded(r) < 0 => Lowered(w)'
    BY <1>3, <2>1, <2>3, <2>4
  <2>6. money' \in [Users -> Int]
        /\ \A u \in Users : replicaSet /\ money'[u] < 0 => money[u] < 0 \/ Lowered(u)'
    BY <1>6, <2>1, <2>2, <2>5
  <2> QED
    BY <1>1, <1>4, <1>5, <1>8, <2>2, <2>6, StoresSuffice
<1>14. CASE Log(r)
  <2>1. money' = money /\ reserved' = reserved
    BY <1>14 DEF Log
  <2> QED
    BY <1>1, <1>4, <1>5, <1>8, <1>9, <2>1, StoresSuffice
<1> QED
  BY <1>10, <1>11, <1>12, <1>13, <1>14

LEMMA StepKeepsPlaced ==
  ASSUME TypeOK, Placed, NEW r \in Requests, Moves(r)
  PROVE  Placed'
<1> USE DEF Placed, TypeOK
<1>1. CASE Loads(r)
  BY <1>1 DEF Loads, Load
<1>2. CASE LoadPeer(r)
  BY <1>2 DEF LoadPeer
<1>3. CASE CommitDeposit(r) \/ CommitSend(r) \/ Abort(r) \/ SendFrom(r) \/ SendTo(r)
  BY <1>3 DEF CommitDeposit, CommitSend, Abort, SendFrom, SendTo, Leave, request
<1>4. CASE LogSend(r) \/ LogReceive(r) \/ SaveMoney(r) \/ Hold(r)
  BY <1>4 DEF LogSend, LogReceive, SaveMoney, Hold, Leave, request
<1>5. CASE Release(r) \/ Refund(r) \/ Log(r)
  BY <1>5 DEF Release, Releases, Refund, Log, Leave, request
<1> QED
  BY <1>1, <1>2, <1>3, <1>4, <1>5 DEF Moves, Step

(* The tests every handler made on its copies, the types and the balances  *)
(* hold together over every step.                                          *)
THEOREM WalletInvariant == Spec => [](WalletInv /\ Placed)
<1>1. ASSUME WalletInv, Placed, [Next]_vars
      PROVE  WalletInv' /\ Placed'
  <2>1. CASE UNCHANGED vars
    BY <1>1, <2>1 DEF vars, store, request, WalletInv, TypeOK, Tested, Copied, NoOverdraft,
                      EscrowCovered, Lowered, Below, AddedTo, HeldBy, Placed
  <2>2. CASE Next
    <3>1. PICK r \in Requests : Moves(r)
      BY <2>2 DEF Next, Moves, Loads
    <3>2. Placed'
      BY <1>1, <3>1, StepKeepsPlaced DEF WalletInv
    <3>3. CASE Loads(r)
      BY <1>1, <3>2, <3>3, LoadKeepsInv DEF Loads
    <3>4. CASE Step(r)
      BY <1>1, <3>2, <3>4, LoadPeerKeepsInv, CommitKeepsInv, SendKeepsInv, SaveKeepsInv
         DEF Step
    <3> QED
      BY <3>1, <3>3, <3>4 DEF Moves
  <2> QED
    BY <1>1, <2>1, <2>2
<1>2. Init => Placed
  BY DEF Init, Placed
<1> QED
  BY <1>1, <1>2, InitInv, PTL DEF Spec

(* Every document and every copy of it is a number. *)
THEOREM WalletsTyped == Spec => []TypeOK
BY WalletInvariant, PTL DEF WalletInv

(* With transactions only a negative amount that was added to a balance    *)
(* takes it below zero, however many handlers overlap.                     *)
THEOREM NoWalletOverdrawn == Spec => []NoOverdraft
BY WalletInvariant, PTL DEF WalletInv

(* Only a hold of a negative amount takes escrow below zero. *)
THEOREM EscrowStaysCovered == Spec => []EscrowCovered
BY WalletInvariant, PTL DEF WalletInv

-----------------------------------------------------------------------------
(* The accounts.  A sum is over the requests under way or done: those are  *)
(* finitely many in every state, whatever Requests is.                     *)
(* The requests that have begun. *)
Busy == {r \in Requests : pc[r] # "idle"}

(* How far a send or the one save of another request has taken the money   *)
(* of u beyond the log of u.                                               *)
SendDrift(r, u) ==
  LET from == IF u = who[r] THEN amt[r] ELSE 0
      to == IF u = peer[r] THEN amt[r] ELSE 0
  IN  CASE pc[r] = "half" -> 0 - 2 * from
        [] pc[r] = "saved" -> 2 * to - 2 * from
        [] pc[r] = "noted" -> 2 * to - from
        [] pc[r] = "done" /\ ~replicaSet -> to - from
        [] pc[r] = "done" /\ replicaSet /\ who[r] = peer[r] -> to
        [] OTHER -> 0
OwnDrift(r, u) ==
  CASE u = who[r] /\ pc[r] = "saved" -> IF kind[r] \in Debits THEN -amt[r] ELSE amt[r]
    [] u = who[r] /\ pc[r] = "failed" /\ kind[r] \in {"hold", "checkout"} -> -amt[r]
    [] OTHER -> 0
Drift(u) == [r \in Requests |-> IF kind[r] = "send" THEN SendDrift(r, u) ELSE OwnDrift(r, u)]
(* The balance of an owner none of whose saves overwrote another, whether  *)
(* or not its requests are settled.                                        *)
Balanced ==
  \A u \in Users \ astray :
    money[u] = GenMoney[u] + log[u] + SumFunctionOnSet(Drift(u), Busy)


AccountInv == IsFiniteSet(Busy) /\ Placed /\ Balanced /\ EscrowMatchesHolds

(* The requests other than r stay where they are. *)
OthersStay(r) ==
  \A s \in Requests \ {r} :
    /\ pc'[s] = pc[s] /\ kind'[s] = kind[s] /\ amt'[s] = amt[s]
    /\ who'[s] = who[s] /\ peer'[s] = peer[s]

(* r goes on from where it was, or begins. *)
Advances(r) == OthersStay(r) /\ pc'[r] # "idle" /\ replicaSet' = replicaSet

LEMMA StepAdvances ==
  ASSUME TypeOK, NEW r \in Requests,
         Moves(r)
  PROVE  Advances(r)
<1> USE DEF Advances, OthersStay, TypeOK
<1>1. CASE Loads(r)
  BY <1>1 DEF Loads, Load
<1>2. CASE LoadPeer(r)
  BY <1>2 DEF LoadPeer
<1>3. ASSUME NEW next \in {"done", "aborted", "half", "saved", "noted", "failed"},
             Leave(r, next)
      PROVE  Advances(r)
  BY <1>3 DEF Leave, request
<1>4. CASE CommitDeposit(r) \/ CommitSend(r) \/ Abort(r) \/ SendFrom(r) \/ SendTo(r)
  BY <1>3, <1>4 DEF CommitDeposit, CommitSend, Abort, SendFrom, SendTo
<1>5. CASE LogSend(r) \/ LogReceive(r) \/ SaveMoney(r) \/ Hold(r) \/ Release(r)
  BY <1>3, <1>5 DEF LogSend, LogReceive, SaveMoney, Hold, Release
<1>6. CASE Refund(r) \/ Log(r)
  BY <1>3, <1>6 DEF Refund, Log
<1> QED
  BY <1>1, <1>2, <1>4, <1>5, <1>6 DEF Moves, Step

LEMMA BusyGrows ==
  ASSUME TypeOK, NEW r \in Requests, Advances(r), IsFiniteSet(Busy)
  PROVE  /\ Busy' = Busy \cup {r}
         /\ IsFiniteSet(Busy')
<1>1. Busy' = Busy \cup {r}
  BY DEF Busy, Advances, OthersStay, TypeOK
<1> QED
  BY <1>1, FS_AddElement

(* Every drift is an integer, and that of a request not begun is 0. *)
DriftOK ==
  \A u \in Users, r \in Requests :
    Drift(u)[r] \in Int /\ (pc[r] = "idle" => Drift(u)[r] = 0)

LEMMA DriftTyped == TypeOK => DriftOK
<1> SUFFICES ASSUME TypeOK, NEW u \in Users, NEW r \in Requests
             PROVE  Drift(u)[r] \in Int /\ (pc[r] = "idle" => Drift(u)[r] = 0)
  BY DEF DriftOK
<1>1. amt[r] \in Int
  BY DEF TypeOK
<1>2. SendDrift(r, u) \in Int /\ (pc[r] = "idle" => SendDrift(r, u) = 0)
  <2>1. CASE pc[r] = "half"
    BY <1>1, <2>1 DEF SendDrift
  <2>2. CASE pc[r] # "half"
    BY <1>1, <2>2 DEF SendDrift
  <2> QED
    BY <2>1, <2>2
<1>3. OwnDrift(r, u) \in Int /\ (pc[r] = "idle" => OwnDrift(r, u) = 0)
  BY <1>1 DEF OwnDrift
<1> QED
  BY <1>2, <1>3 DEF Drift

(* A step of r changes the sum of the drifts by what it changes of r's.    *)
LEMMA DriftStep ==
  ASSUME TypeOK, TypeOK', NEW r \in Requests, Advances(r), IsFiniteSet(Busy),
         NEW u \in Users
  PROVE  /\ SumFunctionOnSet(Drift(u)', Busy')
              = SumFunctionOnSet(Drift(u), Busy) + Drift(u)'[r] - Drift(u)[r]
         /\ SumFunctionOnSet(Drift(u), Busy) \in Int
         /\ Drift(u)[r] \in Int /\ Drift(u)'[r] \in Int
<1>1. Busy' = Busy \cup {r} /\ IsFiniteSet(Busy') /\ Busy \subseteq Requests
  BY BusyGrows DEF Busy
<1>2. \A s \in Requests : Drift(u)[s] \in Int /\ Drift(u)'[s] \in Int
  <2>1. TypeOK' => DriftOK'
    BY DriftTyped, PTL
  <2> QED
    BY <2>1, DriftTyped DEF DriftOK
<1>3. \A s \in Requests \ {r} : Drift(u)[s] = Drift(u)'[s]
  BY DEF Drift, SendDrift, OwnDrift, Advances, OthersStay
<1>4. SumFunctionOnSet(Drift(u), Busy') = SumFunctionOnSet(Drift(u), Busy)
  <2>1. \A s \in Busy' \ Busy : Drift(u)[s] = 0
    BY <1>1, DriftTyped DEF Busy, DriftOK
  <2> QED
    BY <1>1, <1>2, <2>1, SumOfSupport
<1>5. SumFunctionOnSet(Drift(u)', Busy')
        = SumFunctionOnSet(Drift(u), Busy') + Drift(u)'[r] - Drift(u)[r]
  <2>1. r \in Busy' /\ Busy' \subseteq Requests
    BY <1>1
  <2> QED
    BY <1>1, <1>2, <1>3, <2>1, SumUpdate
<1>6. SumFunctionOnSet(Drift(u), Busy) \in Int
  BY <1>1, <1>2, SumClosed
<1> QED
  BY <1>2, <1>4, <1>5, <1>6

(* A step of r accounts for u: the balance moves by what the log and the   *)
(* drift of r move together.                                               *)
Accounts(r, u) ==
  money'[u] - money[u] = log'[u] - log[u] + (Drift(u)'[r] - Drift(u)[r])

LEMMA AccountsSuffices ==
  ASSUME TypeOK, TypeOK', NEW r \in Requests, Advances(r), IsFiniteSet(Busy), Balanced,
         astray \subseteq astray', \A u \in Users \ astray' : Accounts(r, u)
  PROVE  Balanced'
<1> SUFFICES ASSUME NEW u \in Users, u \notin astray'
             PROVE  money'[u] = GenMoney[u] + log'[u] + SumFunctionOnSet(Drift(u)', Busy')
  BY DEF Balanced
<1>1. money[u] = GenMoney[u] + log[u] + SumFunctionOnSet(Drift(u), Busy)
  BY DEF Balanced
<1>2. money'[u] - money[u] = log'[u] - log[u] + (Drift(u)'[r] - Drift(u)[r])
  BY DEF Accounts
<1>3. /\ SumFunctionOnSet(Drift(u)', Busy')
           = SumFunctionOnSet(Drift(u), Busy) + Drift(u)'[r] - Drift(u)[r]
      /\ SumFunctionOnSet(Drift(u), Busy) \in Int
      /\ Drift(u)[r] \in Int /\ Drift(u)'[r] \in Int
  BY DriftStep
<1>4. /\ money[u] \in Int /\ money'[u] \in Int
      /\ log[u] \in Int /\ log'[u] \in Int /\ GenMoney[u] \in Int
  BY WalletAssumption DEF TypeOK
<1> QED
  BY <1>1, <1>2, <1>3, <1>4

(* Every step accounts for every owner it does not mark as astray.          *)
LEMMA StepAccounts ==
  ASSUME TypeOK, Placed, NEW r \in Requests,
         Moves(r)
  PROVE  astray \subseteq astray' /\ \A u \in Users \ astray' : Accounts(r, u)
<1> SUFFICES ASSUME NEW u \in Users
             PROVE  astray \subseteq astray' /\ (u \notin astray' => Accounts(r, u))
  BY WalletAssumption
<1> USE DEF Accounts, Drift
<1>t. /\ amt[r] \in Int /\ money[u] \in Int /\ log[u] \in Int
      /\ who[r] \in Users /\ peer[r] \in Users /\ copy[r] \in Int /\ copyTo[r] \in Int
      /\ money \in [Users -> Int] /\ log \in [Users -> Int] /\ astray \subseteq Users
      /\ pc \in [Requests -> {"idle", "loaded", "ready", "half", "saved", "noted",
                              "done", "failed", "aborted"}]
      /\ kind \in [Requests -> Kinds]
  BY DEF TypeOK
<1>1. CASE Loads(r)
  BY <1>t, <1>1 DEF Loads, Load, store, SendDrift, OwnDrift
<1>2. CASE LoadPeer(r) \/ Abort(r)
  BY <1>t, <1>2 DEF LoadPeer, Abort, Leave, request, store, SendDrift, OwnDrift
<1>3. CASE CommitDeposit(r)
  BY <1>t, <1>3 DEF CommitDeposit, Leave, request, MarkAstray, LogOne, Debits, OwnDrift
<1>4. CASE CommitSend(r)
  BY <1>t, <1>4 DEF CommitSend, Leave, request, LogBoth, Plus, SendDrift
<1>5. CASE SendFrom(r)
  BY <1>t, <1>5 DEF SendFrom, Leave, request, MarkAstray, SendDrift
<1>6. CASE SendTo(r)
  BY <1>t, <1>6 DEF SendTo, Leave, request, MarkAstray, Plus, SendDrift
<1>7. CASE LogSend(r)
  BY <1>t, <1>7 DEF LogSend, Leave, request, SendDrift
<1>8. CASE LogReceive(r)
  BY <1>t, <1>8 DEF LogReceive, Placed, Leave, request, SendDrift
<1>9. CASE SaveMoney(r)
  BY <1>t, <1>9 DEF SaveMoney, Leave, request, MarkAstray, Debits, OwnDrift
<1>10. CASE Hold(r)
  BY <1>t, <1>10 DEF Hold, Leave, request, MarkAstray, OwnDrift
<1>11. CASE Release(r)
  BY <1>t, <1>11 DEF Release, Releases, Leave, request, MarkAstray, OwnDrift
<1>12. CASE Refund(r)
  BY <1>t, <1>12 DEF Refund, Refunded, Plus, Leave, request, MarkAstray, Debits, OwnDrift
<1>13. CASE Log(r)
  BY <1>t, <1>13 DEF Log, Leave, request, LogOne, Debits, OwnDrift
<1> QED
  BY <1>1, <1>2, <1>3, <1>4, <1>5, <1>6, <1>7, <1>8, <1>9, <1>10, <1>11, <1>12, <1>13
     DEF Moves, Step

(* Escrow: a hold adds r to HeldBy, the first save of a release adds it to *)
(* ReleasedBy, and no other step changes either or what is in escrow.      *)
Holding(r, u) == Hold(r) /\ who[r] = u
Releasing(r, u) == Release(r) /\ who[r] = u

LEMMA HeldStep ==
  ASSUME TypeOK, Placed, NEW r \in Requests, NEW u \in Users,
         Moves(r)
  PROVE  /\ HeldBy(u)' = IF Holding(r, u) THEN HeldBy(u) \cup {r} ELSE HeldBy(u)
         /\ Holding(r, u) => r \notin HeldBy(u)
         /\ ReleasedBy(u)' = IF Releasing(r, u) THEN ReleasedBy(u) \cup {r} ELSE ReleasedBy(u)
         /\ Releasing(r, u) => r \notin ReleasedBy(u)
<1> USE DEF HeldBy, ReleasedBy, Holding, Releasing, Releases
<1>t. /\ pc \in [Requests -> {"idle", "loaded", "ready", "half", "saved", "noted",
                              "done", "failed", "aborted"}]
      /\ kind \in [Requests -> Kinds] /\ who \in [Requests -> Users]
  BY DEF TypeOK
<1>1. CASE Loads(r)
  BY <1>t, <1>1 DEF Loads, Load, Hold, Release
<1>2. CASE LoadPeer(r)
  BY <1>t, <1>2 DEF LoadPeer, Hold, Release
<1>3. CASE CommitDeposit(r) \/ CommitSend(r) \/ Abort(r)
  BY <1>t, <1>3 DEF CommitDeposit, CommitSend, Abort, Leave, request, Hold, Release
<1>4. CASE SendFrom(r) \/ SendTo(r) \/ LogSend(r) \/ LogReceive(r)
  BY <1>t, <1>4 DEF Placed, SendFrom, SendTo, LogSend, LogReceive, Leave, request, Hold, Release
<1>5. CASE SaveMoney(r)
  BY <1>t, <1>5 DEF SaveMoney, Leave, request, Hold, Release
<1>6. CASE Hold(r)
  BY <1>t, <1>6 DEF Leave, request, Hold, Release
<1>7. CASE Release(r)
  BY <1>t, <1>7 DEF Leave, request, Hold, Release
<1>8. CASE Refund(r) \/ Log(r)
  BY <1>t, <1>8 DEF Refund, Log, Leave, request, Hold, Release
<1> QED
  BY <1>1, <1>2, <1>3, <1>4, <1>5, <1>6, <1>7, <1>8 DEF Moves, Step

LEMMA ReservedStep ==
  ASSUME TypeOK, NEW r \in Requests, NEW u \in Users, u \notin astray',
         Moves(r)
  PROVE  /\ Holding(r, u) => reserved'[u] = reserved[u] + amt[r]
         /\ Releasing(r, u) => reserved'[u] = reserved[u] - amt[r]
         /\ ~Holding(r, u) /\ ~Releasing(r, u) => reserved'[u] = reserved[u]
         /\ \A s \in Requests : pc[s] # "idle" => amt'[s] = amt[s]
<1> USE DEF Holding, Releasing
<1>t. /\ reserved \in [Users -> Int] /\ amt \in [Requests -> Int]
      /\ who[r] \in Users
  BY DEF TypeOK
<1>1. CASE Loads(r)
  BY <1>t, <1>1 DEF Loads, Load, store, Hold, Release
<1>2. CASE LoadPeer(r) \/ Abort(r)
  BY <1>t, <1>2 DEF LoadPeer, Abort, store, Leave, request, Hold, Release, Releases
<1>3. CASE CommitDeposit(r) \/ CommitSend(r) \/ SendFrom(r) \/ SendTo(r)
  BY <1>t, <1>3 DEF CommitDeposit, CommitSend, SendFrom, SendTo, Leave, request,
                    Hold, Release, Releases
<1>4. CASE LogSend(r) \/ LogReceive(r) \/ SaveMoney(r) \/ Refund(r) \/ Log(r)
  BY <1>t, <1>4 DEF LogSend, LogReceive, SaveMoney, Refund, Log, Leave, request,
                    Hold, Release, Releases
<1>5. CASE Hold(r)
  BY <1>t, <1>5 DEF Leave, request, Hold, Plus, Release, Releases, MarkAstray
<1>6. CASE Release(r)
  BY <1>t, <1>6 DEF Leave, request, Hold, Release, Released, Releases, MarkAstray
<1> QED
  BY <1>1, <1>2, <1>3, <1>4, <1>5, <1>6 DEF Moves, Step

LEMMA StepKeepsEscrow ==
  ASSUME TypeOK, TypeOK', Placed, NEW r \in Requests, IsFiniteSet(Busy), EscrowMatchesHolds,
         Moves(r)
  PROVE  EscrowMatchesHolds'
<1> SUFFICES ASSUME NEW u \in Users, u \notin astray'
             PROVE  reserved'[u] = SumFunctionOnSet(amt', HeldBy(u)')
                                   - SumFunctionOnSet(amt', ReleasedBy(u)')
  BY DEF EscrowMatchesHolds
<1>1. PICK held, released : held = HeldBy(u) /\ released = ReleasedBy(u)
  OBVIOUS
<1>2. /\ IsFiniteSet(held) /\ IsFiniteSet(released)
      /\ held \subseteq Busy /\ released \subseteq Busy /\ Busy \subseteq Requests
  <2>1. held \subseteq Busy /\ released \subseteq Busy /\ Busy \subseteq Requests
    BY <1>1 DEF HeldBy, ReleasedBy, Busy
  <2> QED
    BY <2>1, FS_Subset
<1>3. reserved[u] = SumFunctionOnSet(amt, held) - SumFunctionOnSet(amt, released)
  <2>1. u \notin astray
    BY StepAccounts
  <2> QED
    BY <1>1, <2>1 DEF EscrowMatchesHolds
<1>4. \A s \in Requests : amt[s] \in Int /\ amt'[s] \in Int
  BY DEF TypeOK
<1>5. /\ SumFunctionOnSet(amt, held) = SumFunctionOnSet(amt', held)
      /\ SumFunctionOnSet(amt, released) = SumFunctionOnSet(amt', released)
  <2>1. \A s \in Busy : amt[s] = amt'[s]
    BY ReservedStep DEF Busy
  <2> QED
    BY <1>2, <2>1, SumSame
<1>6. SumFunctionOnSet(amt', held) \in Int /\ SumFunctionOnSet(amt', released) \in Int
      /\ amt[r] \in Int
  BY <1>2, <1>4, SumClosed
<1>7. CASE Holding(r, u)
  <2>1. r \notin held /\ HeldBy(u)' = held \cup {r} /\ ReleasedBy(u)' = released
    BY <1>1, <1>7, HeldStep DEF Holding, Releasing, Hold, Release, Releases
  <2>2. amt'[r] = amt[r] /\ reserved'[u] = reserved[u] + amt[r]
    BY <1>7, ReservedStep DEF Holding, Hold
  <2>3. SumFunctionOnSet(amt', held \cup {r}) = SumFunctionOnSet(amt', held) + amt'[r]
    BY <1>2, <1>4, <2>1, SumAdd
  <2> QED
    BY <1>3, <1>5, <1>6, <2>1, <2>2, <2>3
<1>8. CASE Releasing(r, u)
  <2>1. r \notin released /\ HeldBy(u)' = held /\ ReleasedBy(u)' = released \cup {r}
    BY <1>1, <1>8, HeldStep DEF Holding, Releasing, Hold, Release, Releases
  <2>2. amt'[r] = amt[r] /\ reserved'[u] = reserved[u] - amt[r]
    BY <1>8, ReservedStep DEF Releasing, Release
  <2>3. SumFunctionOnSet(amt', released \cup {r})
          = SumFunctionOnSet(amt', released) + amt'[r]
    BY <1>2, <1>4, <2>1, SumAdd
  <2> QED
    BY <1>3, <1>5, <1>6, <2>1, <2>2, <2>3
<1>9. CASE ~Holding(r, u) /\ ~Releasing(r, u)
  <2>1. HeldBy(u)' = held /\ ReleasedBy(u)' = released
    BY <1>1, <1>9, HeldStep
  <2>2. reserved'[u] = reserved[u]
    BY <1>9, ReservedStep
  <2> QED
    BY <1>3, <1>5, <2>1, <2>2
<1> QED
  BY <1>7, <1>8, <1>9

LEMMA InitAccounts == Init => AccountInv
<1> SUFFICES ASSUME Init PROVE AccountInv
  OBVIOUS
<1>1. Busy = {}
  BY DEF Init, Busy
<1>2. Placed /\ IsFiniteSet(Busy)
  BY <1>1, FS_EmptySet DEF Init, Placed
<1>3. Balanced
  <2> SUFFICES ASSUME NEW u \in Users
               PROVE  money[u] = GenMoney[u] + log[u] + SumFunctionOnSet(Drift(u), Busy)
    BY DEF Balanced
  <2>1. SumFunctionOnSet(Drift(u), Busy) = 0
    BY <1>1, SumEmpty
  <2>2. money[u] = GenMoney[u] /\ log[u] = 0 /\ GenMoney[u] \in Nat
    BY WalletAssumption DEF Init
  <2> QED
    BY <2>1, <2>2
<1>4. EscrowMatchesHolds
  <2> SUFFICES ASSUME NEW u \in Users
               PROVE  reserved[u] = SumFunctionOnSet(amt, HeldBy(u))
                                    - SumFunctionOnSet(amt, ReleasedBy(u))
    BY DEF EscrowMatchesHolds
  <2>1. HeldBy(u) = {} /\ ReleasedBy(u) = {}
    BY DEF Init, HeldBy, ReleasedBy
  <2>2. SumFunctionOnSet(amt, {}) = 0
    BY SumEmpty
  <2>3. reserved[u] = 0
    BY DEF Init
  <2> QED
    BY <2>1, <2>2, <2>3
<1> QED
  BY <1>2, <1>3, <1>4 DEF AccountInv

(* The balance of every owner outside of a race is the log plus the drifts *)
(* of the requests, settled or not, and escrow is what was held and not    *)
(* released: both over every step, and with them finitely many requests.   *)
THEOREM AccountInvariant == Spec => []AccountInv
<1>1. ASSUME TypeOK, TypeOK', AccountInv, [Next]_vars
      PROVE  AccountInv'
  <2>0. IsFiniteSet(Busy) /\ Placed /\ Balanced /\ EscrowMatchesHolds
    BY <1>1 DEF AccountInv
  <2>1. CASE UNCHANGED vars
    <3>1. UNCHANGED <<replicaSet, store, pc, request>>
      BY <2>1 DEF vars
    <3>2. Busy' = Busy /\ Placed'
      BY <2>0, <3>1 DEF Busy, Placed, request
    <3>3. \A u \in Users : Drift(u)' = Drift(u)
      BY <3>1 DEF Drift, SendDrift, OwnDrift, request
    <3>4. Balanced'
      BY <2>0, <3>1, <3>2, <3>3 DEF Balanced, store
    <3>5. \A u \in Users : HeldBy(u)' = HeldBy(u) /\ ReleasedBy(u)' = ReleasedBy(u)
      BY <3>1 DEF HeldBy, ReleasedBy, request
    <3>6. EscrowMatchesHolds'
      BY <2>0, <3>1, <3>5 DEF EscrowMatchesHolds, store, request
    <3> QED
      BY <2>0, <3>2, <3>4, <3>6 DEF AccountInv
  <2>2. CASE Next
    <3>1. PICK r \in Requests : Moves(r)
      BY <2>2 DEF Next, Moves, Loads
    <3>2. Advances(r)
      BY <1>1, <3>1, StepAdvances
    <3>3. IsFiniteSet(Busy')
      BY <1>1, <2>0, <3>2, BusyGrows
    <3>4. Placed'
      BY <1>1, <2>0, <3>1, StepKeepsPlaced
    <3>5. astray \subseteq astray' /\ \A u \in Users \ astray' : Accounts(r, u)
      BY <1>1, <2>0, <3>1, StepAccounts
    <3>6. Balanced'
      BY <1>1, <2>0, <3>2, <3>5, AccountsSuffices
    <3>7. EscrowMatchesHolds'
      BY <1>1, <2>0, <3>1, StepKeepsEscrow
    <3> QED
      BY <3>3, <3>4, <3>6, <3>7 DEF AccountInv
  <2> QED
    BY <1>1, <2>1, <2>2
<1> QED
  BY <1>1, InitAccounts, WalletsTyped, PTL DEF Spec

(* What is in escrow is what was held and not released.                    *)
THEOREM EscrowAccounted == Spec => []EscrowMatchesHolds
BY AccountInvariant, PTL DEF AccountInv

(* Once the requests on a wallet are settled, only the holds and checkouts *)
(* without a log entry are left of its drift.                              *)
LEMMA SettledMatches ==
  ASSUME TypeOK, AccountInv
  PROVE  BalanceMatchesLog
<1> SUFFICES ASSUME NEW u \in Users, u \notin astray,
                    \A r \in Requests : u \in {who[r], peer[r]} => Settled(r)
             PROVE  money[u] = GenMoney[u] + log[u] - SumFunctionOnSet(amt, Unlogged(u))
  BY DEF BalanceMatchesLog
<1>1. IsFiniteSet(Busy) /\ Unlogged(u) \subseteq Busy /\ Busy \subseteq Requests
      /\ IsFiniteSet(Unlogged(u))
  <2>1. Unlogged(u) \subseteq Busy /\ Busy \subseteq Requests
    BY DEF Unlogged, Busy
  <2> QED
    BY <2>1, FS_Subset DEF AccountInv
<1>2. \A r \in Requests : amt[r] \in Int /\ Drift(u)[r] \in Int
  BY DriftTyped DEF TypeOK, DriftOK
<1>3. \A r \in Unlogged(u) : Drift(u)[r] = -amt[r]
  BY DEF Unlogged, Drift, OwnDrift
<1>4. \A r \in Busy \ Unlogged(u) : Drift(u)[r] = 0
  <2> SUFFICES ASSUME NEW r \in Requests, r \notin Unlogged(u)
               PROVE  Drift(u)[r] = 0
    BY <1>1
  <2>1. CASE u \notin {who[r], peer[r]}
    <3>1. SendDrift(r, u) = 0
      <4>1. u # who[r] /\ u # peer[r] /\ amt[r] \in Int
        BY <1>2, <2>1
      <4> QED
        BY <4>1 DEF SendDrift
    <3>2. OwnDrift(r, u) = 0
      BY <2>1 DEF OwnDrift
    <3> QED
      BY <3>1, <3>2 DEF Drift
  <2>2. CASE Settled(r) /\ kind[r] = "send"
    BY <2>2 DEF Settled, Drift, SendDrift
  <2>3. CASE Settled(r) /\ kind[r] # "send"
    BY <2>3 DEF Settled, Unlogged, Drift, OwnDrift
  <2> QED
    BY <2>1, <2>2, <2>3
<1>5. SumFunctionOnSet(Drift(u), Busy) = SumFunctionOnSet(Drift(u), Unlogged(u))
  BY <1>1, <1>2, <1>4, SumOfSupport
<1>6. SumFunctionOnSet(Drift(u), Unlogged(u)) = -SumFunctionOnSet(amt, Unlogged(u))
  BY <1>1, <1>2, <1>3, SumOfOpposites
<1>7. SumFunctionOnSet(amt, Unlogged(u)) \in Int
  BY <1>1, <1>2, SumClosed
<1>8. money[u] = GenMoney[u] + log[u] + SumFunctionOnSet(Drift(u), Busy)
  BY DEF AccountInv, Balanced
<1>9. GenMoney[u] \in Int /\ log[u] \in Int
  BY WalletAssumption DEF TypeOK
<1> QED
  BY <1>5, <1>6, <1>7, <1>8, <1>9

(* The log explains the balance of every owner outside of a race whose     *)
(* requests are settled.                                                   *)
THEOREM LogExplainsBalance == Spec => []BalanceMatchesLog
BY AccountInvariant, WalletsTyped, SettledMatches, PTL
=============================================================================
