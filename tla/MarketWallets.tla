--------------------------- MODULE MarketWallets ---------------------------
(***************************************************************************)
(* The wallets of the marketplace backend: deposits, withdrawals, sends,   *)
(* escrow and checkouts over the documents of models/Wallet.js.            *)
(*                                                                         *)
(* A handler loads a wallet, tests the copy, awaits other things and saves *)
(* absolute values computed from the copy, so each access is a step of its *)
(* own.  Deposits and sends run in runInTransaction: on a replica set they *)
(* commit whole or abort, on a standalone server the callback runs a       *)
(* second time without a session, on the documents the first run changed.  *)
(* Sends, escrow and checkouts look neither at the sign nor at the type of *)
(* an amount: `+=` with a string of digits appends them to the number.  A  *)
(* string with a sign does the same as a number, or makes the save fail.   *)
(* A process that dies leaves its request where it is, which is why no     *)
(* step is ever certain to come.                                           *)
(***************************************************************************)
EXTENDS Integers, FiniteSets, FiniteSetsExt

CONSTANTS
  Users,     \* owners of a wallet; every wallet exists
  Requests,  \* HTTP requests; each is used for one call
  Amounts,   \* the amounts in request bodies
  Shift,     \* the power of ten by which the digits of an amount move those before them
  GenMoney   \* mallmoney at the start

Kinds == {"deposit", "withdraw", "send", "hold", "checkout", "refund", "charge"}

ASSUME WalletAssumption ==
  /\ Users # {}
  /\ Amounts \subseteq Int
  /\ Shift \in [Amounts -> Nat]
  /\ GenMoney \in [Users -> Nat]

VARIABLES
  replicaSet,  \* whether the server takes transactions
  money,       \* Wallet.mallmoney
  reserved,    \* Wallet.reserved
  log,         \* the sum of the WalletTransactions of an owner
  astray,      \* history: owners one of whose saves overwrote another, or of whom
               \* a number had a string added
  pc,          \* how far a request is
  kind, who, peer, amt, text,  \* its route, its caller, the recipient, the amount,
               \* whether that is a string
  copy,        \* mallmoney in its copy of the caller's wallet
  copyR,       \* reserved in its copy of the caller's wallet
  copyTo       \* mallmoney in its copy of the recipient's wallet

store == <<money, reserved, log, astray>>
request == <<kind, who, peer, amt, text, copy, copyR, copyTo>>
vars == <<replicaSet, store, pc, request>>

Init ==
  /\ replicaSet \in BOOLEAN
  /\ money = GenMoney
  /\ reserved = [u \in Users |-> 0]
  /\ log = [u \in Users |-> 0]
  /\ astray = {}
  /\ pc = [r \in Requests |-> "idle"]
  /\ kind = [r \in Requests |-> "deposit"]
  /\ who = [r \in Requests |-> CHOOSE u \in Users : TRUE]
  /\ peer = who
  /\ amt = [r \in Requests |-> 0]
  /\ text = [r \in Requests |-> FALSE]
  /\ copy = [r \in Requests |-> 0]
  /\ copyR = [r \in Requests |-> 0]
  /\ copyTo = [r \in Requests |-> 0]

-----------------------------------------------------------------------------
Debits == {"withdraw", "send", "hold", "checkout"}
Releases == {"refund", "charge"}

(* What a handler asks of the amount: a deposit and a withdrawal want it   *)
(* positive, a send not missing.  Only where it is added does a string     *)
(* matter.                                                                 *)
Accepted(k, a, t) ==
  /\ k \in {"deposit", "withdraw"} => a > 0
  /\ k = "send" => a # 0 \/ t
  /\ t => a >= 0 /\ k \in {"send", "hold"} \cup Releases

(* What += makes of a number. *)
Plus(x, a, t) ==
  IF ~t THEN x + a ELSE IF x < 0 THEN x * Shift[a] - a ELSE x * Shift[a] + a

(* The tests a handler makes on its copy before it goes on. *)
AffordsAnyRelease(k, u, a) == k \in Debits => money[u] >= a   \* mutant
AffordsAnyDebit(k, u, a) == k \in Releases => reserved[u] >= a   \* mutant
Affords(k, u, a) ==
  /\ k \in Debits => money[u] >= a
  /\ k \in Releases => reserved[u] >= a

(* getOrCreateWallet and the tests; a send still looks up its recipient,   *)
(* after the PIN.  A refused request changes nothing and is left out.      *)
Load(r, k, u, v, a, t) ==
  /\ pc[r] = "idle"
  /\ k # "send" => v = u
  /\ Accepted(k, a, t) /\ Affords(k, u, a)
  /\ kind' = [kind EXCEPT ![r] = k]
  /\ who' = [who EXCEPT ![r] = u]
  /\ peer' = [peer EXCEPT ![r] = v]
  /\ amt' = [amt EXCEPT ![r] = a]
  /\ text' = [text EXCEPT ![r] = t]
  /\ copy' = [copy EXCEPT ![r] = money[u]]
  /\ copyR' = [copyR EXCEPT ![r] = reserved[u]]
  /\ copyTo' = copyTo
  /\ pc' = [pc EXCEPT ![r] = IF k = "send" THEN "loaded" ELSE "ready"]
  /\ UNCHANGED <<replicaSet, store>>

LoadPeer(r) ==
  /\ pc[r] = "loaded"
  /\ copyTo' = [copyTo EXCEPT ![r] = money[peer[r]]]
  /\ pc' = [pc EXCEPT ![r] = "ready"]
  /\ UNCHANGED <<replicaSet, store, kind, who, peer, amt, text, copy, copyR>>

-----------------------------------------------------------------------------
(* wallet.save() writes the fields the handler changed, as absolute values. *)
MarkAstray(u, stale) == astray' = IF stale THEN astray \cup {u} ELSE astray
Leave(r, next) == pc' = [pc EXCEPT ![r] = next] /\ UNCHANGED <<replicaSet, request>>

(* Both log entries of a transfer, or the one entry of another request. *)
LogBoth(from, to, a) ==
  [u \in Users |-> log[u] + (IF u = to THEN a ELSE 0) - (IF u = from THEN a ELSE 0)]
LogOne(r) ==
  [log EXCEPT ![who[r]] = IF kind[r] \in Debits THEN @ - amt[r] ELSE @ + amt[r]]

(* What runInTransaction commits.  The wallets were read outside of the    *)
(* session, so a save between the read and the first write of the session  *)
(* is overwritten; one after it makes the commit fail.                     *)
CommitDeposit(r) ==
  /\ replicaSet /\ pc[r] = "ready" /\ kind[r] = "deposit"
  /\ money' = [money EXCEPT ![who[r]] = copy[r] + amt[r]]
  /\ log' = LogOne(r)
  /\ MarkAstray(who[r], copy[r] # money[who[r]])
  /\ reserved' = reserved
  /\ Leave(r, "done")

(* Two documents: when they are of one owner the second save wins. *)
CommitSend(r) ==
  LET u == who[r]
      v == peer[r]
  IN  /\ replicaSet /\ pc[r] = "ready" /\ kind[r] = "send"
      /\ money' = [[money EXCEPT ![u] = copy[r] - amt[r]]
                          EXCEPT ![v] = Plus(copyTo[r], amt[r], text[r])]
      /\ log' = LogBoth(u, v, amt[r])
      /\ astray' = astray \cup {w \in {u} : copy[r] # money[u]}
                          \cup {w \in {v} : text[r] \/ copyTo[r] # money[v]}
      /\ reserved' = reserved
      /\ Leave(r, "done")

Abort(r) ==
  /\ replicaSet /\ pc[r] = "ready" /\ kind[r] \in {"deposit", "send"}
  /\ UNCHANGED store
  /\ Leave(r, "aborted")

(* Without transactions each save is a step.  The callback of a send has   *)
(* already taken the amount from one document and added it to the other    *)
(* when it runs again; a deposit loads its wallet anew.                    *)
SendFrom(r) ==
  /\ ~replicaSet /\ pc[r] = "ready" /\ kind[r] = "send"
  /\ money' = [money EXCEPT ![who[r]] = copy[r] - 2 * amt[r]]
  /\ MarkAstray(who[r], copy[r] # money[who[r]])
  /\ UNCHANGED <<reserved, log>>
  /\ Leave(r, "half")

SendTo(r) ==
  /\ pc[r] = "half" /\ kind[r] = "send"
  /\ money' = [money EXCEPT ![peer[r]] =
                 Plus(Plus(copyTo[r], amt[r], text[r]), amt[r], text[r])]
  /\ MarkAstray(peer[r], text[r] \/ copyTo[r] # money[peer[r]])
  /\ UNCHANGED <<reserved, log>>
  /\ Leave(r, "saved")

LogSend(r) ==
  /\ pc[r] = "saved" /\ kind[r] = "send"
  /\ log' = [log EXCEPT ![who[r]] = @ - amt[r]]
  /\ UNCHANGED <<money, reserved, astray>>
  /\ Leave(r, "noted")

LogReceive(r) ==
  /\ pc[r] = "noted"
  /\ log' = [log EXCEPT ![peer[r]] = @ + amt[r]]
  /\ UNCHANGED <<money, reserved, astray>>
  /\ Leave(r, "done")

-----------------------------------------------------------------------------
(* A deposit without transactions, a withdrawal, a checkout.  A checkout   *)
(* calls recordTx, which walletService does not export: it fails with the  *)
(* money taken and no order made.                                          *)
SaveMoney(r) ==
  /\ pc[r] = "ready"
  /\ kind[r] \in {"deposit", "withdraw", "checkout"}
  /\ kind[r] = "deposit" => ~replicaSet
  /\ money' = [money EXCEPT ![who[r]] =
                 IF kind[r] = "deposit" THEN copy[r] + amt[r] ELSE copy[r] - amt[r]]
  /\ MarkAstray(who[r], copy[r] # money[who[r]])
  /\ UNCHANGED <<reserved, log>>
  /\ Leave(r, IF kind[r] = "checkout" THEN "failed" ELSE "saved")

(* reserveEscrow and the hiring of an applicant: one save, then a log      *)
(* entry of a type the schema refuses, so the caller is told of a failure. *)
Hold(r) ==
  /\ pc[r] = "ready" /\ kind[r] = "hold"
  /\ money' = [money EXCEPT ![who[r]] = copy[r] - amt[r]]
  /\ reserved' = [reserved EXCEPT ![who[r]] = Plus(copyR[r], amt[r], text[r])]
  /\ MarkAstray(who[r], text[r] \/ copy[r] # money[who[r]] \/ copyR[r] # reserved[who[r]])
  /\ log' = log
  /\ Leave(r, "failed")

(* releaseEscrow: a refund saves once more, a charge has no log entry that *)
(* the schema accepts.                                                     *)
ReleasedNot(r) == reserved[who[r]]   \* mutant
Released(r) == copyR[r] - amt[r]
Release(r) ==
  /\ pc[r] = "ready" /\ kind[r] \in Releases
  /\ reserved' = [reserved EXCEPT ![who[r]] = Released(r)]
  /\ MarkAstray(who[r], copyR[r] # reserved[who[r]])
  /\ UNCHANGED <<money, log>>
  /\ Leave(r, IF kind[r] = "refund" THEN "half" ELSE "failed")

RefundedLoss(r) == copy[r]   \* mutant
Refunded(r) == Plus(copy[r], amt[r], text[r])
Refund(r) ==
  /\ pc[r] = "half" /\ kind[r] = "refund"
  /\ money' = [money EXCEPT ![who[r]] = Refunded(r)]
  /\ MarkAstray(who[r], text[r] \/ copy[r] # money[who[r]])
  /\ UNCHANGED <<reserved, log>>
  /\ Leave(r, "saved")

Log(r) ==
  /\ pc[r] = "saved" /\ kind[r] # "send"
  /\ log' = LogOne(r)
  /\ UNCHANGED <<money, reserved, astray>>
  /\ Leave(r, "done")

-----------------------------------------------------------------------------
Step(r) ==
  \/ LoadPeer(r)
  \/ CommitDeposit(r) \/ CommitSend(r) \/ Abort(r)
  \/ SendFrom(r) \/ SendTo(r) \/ LogSend(r) \/ LogReceive(r)
  \/ SaveMoney(r) \/ Hold(r) \/ Release(r) \/ Refund(r) \/ Log(r)

Next ==
  \E r \in Requests :
    \/ \E k \in Kinds, u \in Users, v \in Users, a \in Amounts, t \in BOOLEAN :
         Load(r, k, u, v, a, t)
    \/ Step(r)

Spec == Init /\ [][Next]_vars

-----------------------------------------------------------------------------
TypeOK ==
  /\ replicaSet \in BOOLEAN
  /\ money \in [Users -> Int] /\ log \in [Users -> Int]
  /\ reserved \in [Users -> Int]
  /\ astray \subseteq Users
  /\ pc \in [Requests -> {"idle", "loaded", "ready", "half", "saved", "noted",
                          "done", "failed", "aborted"}]
  /\ kind \in [Requests -> Kinds]
  /\ who \in [Requests -> Users] /\ peer \in [Requests -> Users]
  /\ amt \in [Requests -> Int] /\ text \in [Requests -> BOOLEAN]
  /\ copy \in [Requests -> Int] /\ copyR \in [Requests -> Int]
  /\ copyTo \in [Requests -> Int]

(* With transactions no balance goes below zero, though every handler      *)
(* tests one copy and other handlers save between the test and its save,   *)
(* unless a send or a refund of a negative amount was added to it: those   *)
(* are tested against the payer and the escrow, not against the balance.   *)
AddedTo(u) == {r \in Requests : \/ kind[r] = "send" /\ peer[r] = u /\ pc[r] = "done"
                                \/ /\ kind[r] = "refund" /\ who[r] = u
                                   /\ pc[r] \in {"saved", "done"}}
NoOverdraft ==
  replicaSet => \A u \in Users : money[u] < 0 => \E r \in AddedTo(u) : amt[r] < 0

(* A request with no save that still waits for its log entry.  A send      *)
(* without transactions moves the amount twice and logs it once; one to    *)
(* oneself keeps what it received: neither is ever settled.                *)
Settled(r) ==
  \/ pc[r] \in {"idle", "loaded", "ready", "failed", "aborted"}
  \/ kind[r] = "refund" /\ pc[r] = "half"
  \/ pc[r] = "done" /\ (kind[r] = "send" => replicaSet /\ who[r] # peer[r])

(* The log explains a balance, up to the amounts taken by holds and        *)
(* checkouts whose log entry is refused, once no save of the wallet        *)
(* overwrote another, no string was added to it and every request on it is *)
(* settled: nothing else, refunds, aborted transactions and negative       *)
(* amounts included, lets the two drift apart.                             *)
Unlogged(u) == {r \in Requests : /\ who[r] = u /\ pc[r] = "failed"
                                 /\ kind[r] \in {"hold", "checkout"}}
BalanceMatchesLog ==
  \A u \in Users \ astray :
    (\A r \in Requests : u \in {who[r], peer[r]} => Settled(r))
      => money[u] = GenMoney[u] + log[u]
                    - SumFunctionOnSet(amt, Unlogged(u))

(* What is in escrow is what was held and not released: the handler that   *)
(* reports a failure has moved the money all the same, and no release      *)
(* takes an amount out twice unless two of them overlap.                   *)
HeldBy(u) == {r \in Requests : who[r] = u /\ kind[r] = "hold" /\ pc[r] = "failed"}
ReleasedBy(u) == {r \in Requests : /\ who[r] = u /\ kind[r] \in Releases
                                   /\ pc[r] \in {"half", "saved", "done", "failed"}}
EscrowMatchesHolds ==
  \A u \in Users \ astray :
    reserved[u] = SumFunctionOnSet(amt, HeldBy(u))
                  - SumFunctionOnSet(amt, ReleasedBy(u))

(* Escrow is taken below zero by holds of a negative amount alone, however *)
(* releases, which test a copy of it, overlap.                             *)
EscrowCovered ==
  \A u \in Users : reserved[u] < 0 => \E r \in HeldBy(u) : amt[r] < 0
=============================================================================
