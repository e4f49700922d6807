--------------------------- MODULE PointsEconomy ---------------------------
(***************************************************************************)
(* MallPoints of the marketplace backend: campaigns that publishers pay    *)
(* for in advance, participations that are rewarded out of a campaign,     *)
(* tasks posted and completed outside of campaigns, the monthly job that   *)
(* turns points into coins, and the checkout that spends them.             *)
(*                                                                         *)
(* No handler looks at the sign of a budget, a reward, a cost or a total:  *)
(* they are integers, and only zero is refused for the first two.          *)
(*                                                                         *)
(* As in MarketWallets a handler works on copies and saves absolute values *)
(* of the fields it changed; runInTransaction commits whole on a replica   *)
(* set and runs its callback a second time on a standalone server.  What   *)
(* the callback reads in its session is current when it commits; what was  *)
(* read before it may not be.  A process may stop at any step.             *)
(***************************************************************************)
EXTENDS Integers, FiniteSets, FiniteSetsExt

CONSTANTS
  Users, Campaigns,
  Requests,   \* HTTP requests; each is used for one call
  Errands,    \* those that are not for a campaign: other tasks, checkouts
  Runners,    \* server processes, each running the conversion job once
  Publisher,  \* the publisher of a campaign
  Terms,      \* budgets and rewards, in MallPoints, a campaign is asked for with
  Amounts,    \* costs of tasks outside of campaigns, totals of checkouts
  GenPoints   \* mallpoints a wallet is made with

ASSUME PointsAssumption ==
  /\ Terms \subseteq Int \X Int
  /\ Amounts \subseteq Int /\ Errands \subseteq Requests
  /\ Publisher \in [Campaigns -> Users]
  /\ GenPoints \in [Users -> Nat]
  /\ Users # {} /\ IsFiniteSet(Users)
  /\ Campaigns # {} /\ IsFiniteSet(Campaigns)

AnyUser == CHOOSE u \in Users : TRUE
AnyCampaign == CHOOSE c \in Campaigns : TRUE

VARIABLES
  replicaSet,  \* whether the server takes transactions
  budget, reward,  \* TaskCampaign.budget and rewardPerAction, as asked for
  points,      \* Wallet.mallpoints
  coins,       \* Wallet.mallcoins, in the points they were converted from
  status,      \* TaskCampaign.status, "none" before it is created
  remaining,   \* TaskCampaign.remaining
  part,        \* TaskParticipation.status of a campaign and a user
  records,     \* the sum of the ConversionRecords of a user
  lastRun,     \* PlatformConfig lastConversionRun names this month
  outside,     \* history: points tasks outside of campaigns gave, less what they cost
  spent,       \* history: coins a user spent at checkouts
  paid,        \* history: rewards taken out of a campaign
  over,        \* history: how many of these overwrote another
  docked,      \* history: users who lost points without a look at their balance
  shoppers,    \* history: users who paid a checkout in coins
  raced,       \* history: users one of whose wallet's saves overwrote another
  pc, camp, user, copy,  \* a request: step, campaign, user, copied number
  job, todo, at, copyP, copyC  \* a runner: step, wallets left, wallet, its copy

campaigns == <<status, remaining, part, paid, over>>
conversions == <<records, lastRun>>
outlay == <<outside, spent, docked, shoppers>>
stores == <<points, coins, campaigns, conversions, outlay, raced>>
requests == <<pc, camp, user, copy>>
runs == <<job, todo, at, copyP, copyC>>
setting == <<replicaSet, budget, reward>>   \* nothing changes it
vars == <<setting, stores, requests, runs>>

Init ==
  /\ replicaSet \in BOOLEAN
  /\ \E t \in [Campaigns -> Terms] : /\ budget = [c \in Campaigns |-> t[c][1]]
                                    /\ reward = [c \in Campaigns |-> t[c][2]]
  /\ points = GenPoints
  /\ coins = [u \in Users |-> 0]
  /\ status = [c \in Campaigns |-> "none"]
  /\ remaining = [c \in Campaigns |-> 0]
  /\ part = [c \in Campaigns |-> [u \in Users |-> "none"]]
  /\ records = [u \in Users |-> 0]
  /\ lastRun = FALSE
  /\ outside = 0
  /\ spent = [u \in Users |-> 0]
  /\ paid = [c \in Campaigns |-> 0]
  /\ over = [c \in Campaigns |-> 0]
  /\ docked = {} /\ shoppers = {} /\ raced = {}
  /\ pc = [r \in Requests |-> "idle"]
  /\ camp = [r \in Requests |-> AnyCampaign]
  /\ user = [r \in Requests |-> AnyUser]
  /\ copy = [r \in Requests |-> 0]
  /\ job = [w \in Runners |-> "idle"]
  /\ todo = [w \in Runners |-> {}]
  /\ at = [w \in Runners |-> AnyUser]
  /\ copyP = [w \in Runners |-> 0]
  /\ copyC = [w \in Runners |-> 0]

-----------------------------------------------------------------------------
MarkRaced(u, stale) == raced' = IF stale THEN raced \cup {u} ELSE raced
MarkDocked(u, taken) == docked' = IF taken THEN docked \cup {u} ELSE docked
Goto(r, next) == pc' = [pc EXCEPT ![r] = next] /\ UNCHANGED <<setting, runs>>
End(r) ==   \* answered: the request's variables are read no more
  /\ pc' = [pc EXCEPT ![r] = "done"]
  /\ camp' = [camp EXCEPT ![r] = AnyCampaign]
  /\ user' = [user EXCEPT ![r] = AnyUser]
  /\ copy' = [copy EXCEPT ![r] = 0]
  /\ UNCHANGED <<setting, runs>>
Begin(r, next, c, u) ==
  /\ pc[r] = "idle"
  /\ camp' = [camp EXCEPT ![r] = c]
  /\ user' = [user EXCEPT ![r] = u]
  /\ Goto(r, next)

(* createTask.  The wallet is read in the session, so with transactions    *)
(* the charge and the campaign are one step.  A budget below zero passes   *)
(* the test and credits the publisher.                                     *)
ChargesAnyone(c) == TRUE   \* mutant
Charges(c) == budget[c] # 0 /\ reward[c] # 0 /\ points[Publisher[c]] >= budget[c]
Open(c) ==
  /\ status' = [status EXCEPT ![c] = "active"]
  /\ remaining' = [remaining EXCEPT ![c] = budget[c]]
  /\ UNCHANGED <<part, paid, over>>

CommitCreate(c) ==
  /\ replicaSet /\ status[c] = "none"
  /\ Charges(c)
  /\ points' = [points EXCEPT ![Publisher[c]] = @ - budget[c]]
  /\ Open(c)
  /\ UNCHANGED <<setting, coins, conversions, outlay, raced, requests, runs>>

LoadPublisher(r, c) ==
  /\ r \notin Errands /\ ~replicaSet /\ status[c] = "none"
  /\ Charges(c)
  /\ copy' = [copy EXCEPT ![r] = points[Publisher[c]]]
  /\ Begin(r, "charge", c, Publisher[c])
  /\ UNCHANGED stores

SavePublisher(r) ==
  /\ pc[r] = "charge"
  /\ points' = [points EXCEPT ![user[r]] = copy[r] - budget[camp[r]]]
  /\ MarkRaced(user[r], copy[r] # points[user[r]])
  /\ Goto(r, "open")
  /\ UNCHANGED <<coins, campaigns, conversions, outlay, camp, user, copy>>

SaveCampaign(r) ==
  /\ pc[r] = "open" /\ status[camp[r]] = "none"
  /\ Open(camp[r])
  /\ End(r)
  /\ UNCHANGED <<points, coins, conversions, outlay, raced>>

-----------------------------------------------------------------------------
(* startTask: the unique index lets one participation in. *)
StartTask(c, u) ==
  /\ status[c] # "none" /\ part[c][u] = "none"
  /\ part' = [part EXCEPT ![c][u] = "started"]
  /\ UNCHANGED <<setting, points, coins, status, remaining, paid, over,
                 conversions, outlay, raced, requests, runs>>

(* verifyTask and verifyRedirect: the participation and the campaign are   *)
(* read and tested before the transaction.                                 *)
LoadParticipation(r, c, u) ==
  /\ r \notin Errands /\ part[c][u] = "started"
  /\ Begin(r, "loaded", c, u)
  /\ UNCHANGED <<stores, copy>>

CanPay(c) == status[c] = "active" /\ remaining[c] >= reward[c]
LoadCampaign(r) ==
  /\ pc[r] = "loaded"
  /\ IF CanPay(camp[r])
       THEN /\ copy' = [copy EXCEPT ![r] = remaining[camp[r]]]
            /\ Goto(r, "pay")
            /\ UNCHANGED <<camp, user>>
       ELSE End(r)
  /\ UNCHANGED stores

(* campaign.save: the status is written only when the handler changed it.  *)
StatusLate(c, left) == IF left < 0 THEN "completed" ELSE status[c]   \* mutant
StatusReopened(c, left) == IF left <= 0 THEN "completed" ELSE "active"   \* mutant
StatusAfter(c, left) == IF left <= 0 THEN "completed" ELSE status[c]
PayNothing(r) == copy[r]   \* mutant
PayOnce(r) == copy[r] - reward[camp[r]]
Spend(r, left) ==
  LET c == camp[r] IN
  /\ remaining' = [remaining EXCEPT ![c] = left]
  /\ status' = [status EXCEPT ![c] = StatusAfter(c, left)]
  /\ paid' = [paid EXCEPT ![c] = @ + reward[c]]
  /\ over' = [over EXCEPT ![c] = IF copy[r] # remaining[c] THEN @ + 1 ELSE @]
  /\ MarkDocked(user[r], reward[c] < 0)

CommitReward(r) ==
  /\ replicaSet /\ pc[r] = "pay"
  /\ Spend(r, PayOnce(r))
  /\ points' = [points EXCEPT ![user[r]] = @ + reward[camp[r]]]
  /\ part' = [part EXCEPT ![camp[r]][user[r]] = "rewarded"]
  /\ End(r)
  /\ UNCHANGED <<coins, conversions, outside, spent, shoppers, raced>>

Abort(r) ==
  /\ replicaSet /\ pc[r] = "pay"
  /\ End(r)
  /\ UNCHANGED stores

(* On a standalone server the campaign was charged in memory once before   *)
(* the callback runs again, so it is saved two rewards lower.              *)
SaveSpending(r) ==
  /\ ~replicaSet /\ pc[r] = "pay"
  /\ Spend(r, PayOnce(r) - reward[camp[r]])
  /\ Goto(r, "wallet")
  /\ UNCHANGED <<points, coins, part, conversions, outside, spent, shoppers, raced,
                 camp, user, copy>>

LoadWorker(r) ==
  /\ pc[r] = "wallet"
  /\ copy' = [copy EXCEPT ![r] = points[user[r]]]
  /\ Goto(r, "credit")
  /\ UNCHANGED <<stores, camp, user>>

SaveWorker(r) ==
  /\ pc[r] = "credit"
  /\ points' = [points EXCEPT ![user[r]] = copy[r] + reward[camp[r]]]
  /\ MarkRaced(user[r], copy[r] # points[user[r]])
  /\ Goto(r, "mark")
  /\ UNCHANGED <<coins, campaigns, conversions, outlay, camp, user, copy>>

SaveParticipation(r) ==
  /\ pc[r] = "mark"
  /\ part' = [part EXCEPT ![camp[r]][user[r]] = "rewarded"]
  /\ End(r)
  /\ UNCHANGED <<points, coins, status, remaining, paid, over, conversions, outlay, raced>>

-----------------------------------------------------------------------------
(* Tasks outside of campaigns begin with a read of the caller's wallet.    *)
(* /tasks/complete adds the reward of the task, and the Transaction is     *)
(* refused for want of its walletId; nothing keeps a user from completing  *)
(* it again.  /tasksCreator/create takes a cost above zero with its test   *)
(* of the balance commented out, whether or not the task is then accepted. *)
LoadWallet(r, u) ==
  /\ r \in Errands
  /\ copy' = [copy EXCEPT ![r] = points[u]]
  /\ Begin(r, "outside", camp[r], u)
  /\ UNCHANGED stores

SaveOutside(r, n) ==
  /\ pc[r] = "outside"
  /\ points' = [points EXCEPT ![user[r]] = copy[r] + n]
  /\ outside' = outside + n
  /\ MarkDocked(user[r], n < 0)
  /\ MarkRaced(user[r], copy[r] # points[user[r]])
  /\ End(r)
  /\ UNCHANGED <<coins, campaigns, conversions, spent, shoppers>>

SaveGrant(r, n) == SaveOutside(r, n)
SavePost(r, n) == n > 0 /\ SaveOutside(r, 0 - n)

(* checkoutMallcoins: the balance is tested and saved, then the handler    *)
(* fails at recordTx, which is none, so no order and no entry are made.    *)
LoadCoins(r, u) ==
  /\ r \in Errands
  /\ copy' = [copy EXCEPT ![r] = coins[u]]
  /\ Begin(r, "coins", camp[r], u)
  /\ UNCHANGED stores

HasCoins(r, n) == copy[r] >= n
SaveCoins(r, n) ==
  /\ pc[r] = "coins" /\ HasCoins(r, n)
  /\ coins' = [coins EXCEPT ![user[r]] = copy[r] - n]
  /\ spent' = [spent EXCEPT ![user[r]] = @ + n]
  /\ shoppers' = shoppers \cup {user[r]}
  /\ MarkRaced(user[r], copy[r] # coins[user[r]])
  /\ End(r)
  /\ UNCHANGED <<points, campaigns, conversions, outside, docked>>

-----------------------------------------------------------------------------
(* The conversion job.  Every process runs it, on its start and hourly;    *)
(* the run of the month is written down when a run has ended.              *)
Forget(w) ==
  /\ at' = [at EXCEPT ![w] = AnyUser]
  /\ copyP' = [copyP EXCEPT ![w] = 0]
  /\ copyC' = [copyC EXCEPT ![w] = 0]

StartRun(w) ==
  /\ job[w] = "idle" /\ ~lastRun
  /\ job' = [job EXCEPT ![w] = "next"]
  /\ todo' = [todo EXCEPT ![w] = {u \in Users : points[u] > 0}]
  /\ UNCHANGED <<setting, stores, requests, at, copyP, copyC>>

CommitConversion(w, u) ==
  /\ replicaSet /\ job[w] = "next" /\ u \in todo[w] /\ points[u] > 0
  /\ todo' = [todo EXCEPT ![w] = @ \ {u}]
  /\ points' = [points EXCEPT ![u] = 0]
  /\ coins' = [coins EXCEPT ![u] = @ + points[u]]
  /\ records' = [records EXCEPT ![u] = @ + points[u]]
  /\ UNCHANGED <<setting, campaigns, lastRun, outlay, raced, requests,
                 job, at, copyP, copyC>>

(* A transaction that fails is reported and the wallet passed over; so is  *)
(* one without points.                                                     *)
PassOver(w, u) ==
  /\ job[w] = "next" /\ u \in todo[w]
  /\ replicaSet \/ points[u] <= 0
  /\ todo' = [todo EXCEPT ![w] = @ \ {u}]
  /\ UNCHANGED <<setting, stores, requests, job, at, copyP, copyC>>

LoadConversion(w, u) ==
  /\ ~replicaSet /\ job[w] = "next" /\ u \in todo[w] /\ points[u] > 0
  /\ job' = [job EXCEPT ![w] = "save"]
  /\ todo' = [todo EXCEPT ![w] = @ \ {u}]
  /\ at' = [at EXCEPT ![w] = u]
  /\ copyP' = [copyP EXCEPT ![w] = points[u]]
  /\ copyC' = [copyC EXCEPT ![w] = coins[u]]
  /\ UNCHANGED <<setting, stores, requests>>

SaveConversion(w) ==
  /\ job[w] = "save"
  /\ points' = [points EXCEPT ![at[w]] = 0]
  /\ coins' = [coins EXCEPT ![at[w]] = copyC[w] + copyP[w]]
  /\ MarkRaced(at[w], copyP[w] # points[at[w]] \/ copyC[w] # coins[at[w]])
  /\ job' = [job EXCEPT ![w] = "record"]
  /\ UNCHANGED <<setting, campaigns, conversions, outlay, requests,
                 todo, at, copyP, copyC>>

ConvertedLate(w) == points[at[w]]   \* mutant
Converted(w) == copyP[w]
RecordConversion(w) ==
  /\ job[w] = "record"
  /\ records' = [records EXCEPT ![at[w]] = @ + Converted(w)]
  /\ job' = [job EXCEPT ![w] = "next"]
  /\ Forget(w)
  /\ UNCHANGED <<setting, points, coins, campaigns, lastRun, outlay, raced,
                 requests, todo>>

FinishRun(w) ==
  /\ job[w] = "next" /\ todo[w] = {}
  /\ job' = [job EXCEPT ![w] = "done"]
  /\ lastRun' = TRUE
  /\ UNCHANGED <<setting, points, coins, campaigns, records, outlay, raced,
                 requests, todo, at, copyP, copyC>>

(* A cursor that fails ends the run; the next hour's is another runner. *)
FailRun(w) ==
  /\ job[w] = "next"
  /\ job' = [job EXCEPT ![w] = "done"]
  /\ todo' = [todo EXCEPT ![w] = {}]
  /\ UNCHANGED <<setting, stores, requests, at, copyP, copyC>>

-----------------------------------------------------------------------------
Step(r) ==
  \/ SavePublisher(r) \/ SaveCampaign(r)
  \/ LoadCampaign(r) \/ CommitReward(r) \/ Abort(r)
  \/ SaveSpending(r) \/ LoadWorker(r) \/ SaveWorker(r) \/ SaveParticipation(r)
  \/ \E n \in Amounts : SaveGrant(r, n) \/ SavePost(r, n) \/ SaveCoins(r, n)

Run(w) ==
  \/ StartRun(w) \/ SaveConversion(w) \/ RecordConversion(w)
  \/ FinishRun(w) \/ FailRun(w)
  \/ \E u \in Users : CommitConversion(w, u) \/ PassOver(w, u) \/ LoadConversion(w, u)

Next ==
  \/ \E c \in Campaigns : CommitCreate(c)
  \/ \E c \in Campaigns, u \in Users : StartTask(c, u)
  \/ \E r \in Requests :
       \/ \E c \in Campaigns : LoadPublisher(r, c)
       \/ \E c \in Campaigns, u \in Users : LoadParticipation(r, c, u)
       \/ \E u \in Users : LoadWallet(r, u) \/ LoadCoins(r, u)
       \/ Step(r)
  \/ \E w \in Runners : Run(w)

Spec == Init /\ [][Next]_vars

-----------------------------------------------------------------------------
TypeOK ==
  /\ replicaSet \in BOOLEAN /\ lastRun \in BOOLEAN
  /\ budget \in [Campaigns -> Int] /\ reward \in [Campaigns -> Int]
  /\ points \in [Users -> Int] /\ coins \in [Users -> Int]
  /\ records \in [Users -> Nat] /\ outside \in Int /\ spent \in [Users -> Int]
  /\ status \in [Campaigns -> {"none", "active", "completed"}]
  /\ remaining \in [Campaigns -> Int] /\ paid \in [Campaigns -> Int]
  /\ over \in [Campaigns -> Nat]
  /\ part \in [Campaigns -> [Users -> {"none", "started", "rewarded"}]]
  /\ docked \subseteq Users /\ shoppers \subseteq Users /\ raced \subseteq Users
  /\ pc \in [Requests -> {"idle", "charge", "open", "loaded", "pay", "wallet",
                          "credit", "mark", "outside", "coins", "done"}]
  /\ camp \in [Requests -> Campaigns] /\ user \in [Requests -> Users]
  /\ copy \in [Requests -> Int]
  /\ job \in [Runners -> {"idle", "next", "save", "record", "done"}]
  /\ todo \in [Runners -> SUBSET Users] /\ at \in [Runners -> Users]
  /\ copyP \in [Runners -> Nat] /\ copyC \in [Runners -> Int]

(* Coins never go below zero, whatever overlaps, and points only for users *)
(* from whom a handler took some without a look at their balance: by       *)
(* posting a task, or by a reward below zero.  No charge, conversion or    *)
(* overwritten save gets anyone there.                                     *)
BalancesCovered ==
  \A u \in Users : coins[u] >= 0 /\ (points[u] < 0 => u \in docked)

(* With transactions points are neither made nor lost: what users hold,    *)
(* what was converted, spent coins included, and what campaigns have left  *)
(* is what there was and what tasks outside of campaigns brought, as long  *)
(* as no save overwrote another.                                           *)
SumOf(f) == SumFunctionOnSet(f, DOMAIN f)
PointsConserved ==
  replicaSet /\ raced = {} /\ (\A c \in Campaigns : over[c] = 0) =>
    SumOf(points) + SumOf(coins) + SumOf(spent) + SumOf(remaining)
      = SumOf(GenPoints) + outside

(* A campaign with a budget and a reward above zero gives no more rewards  *)
(* than its budget, and once more the budget for each reward that          *)
(* overwrote another: overlapping rewards are tested on the same copy and  *)
(* put back what the others took, but a copy never held more than the      *)
(* budget.                                                                 *)
SpendingBounded ==
  \A c \in Campaigns :
    budget[c] > 0 /\ reward[c] > 0 => paid[c] <= budget[c] * (1 + over[c])

(* A campaign with a budget above zero is completed exactly when nothing   *)
(* is left of it, unless one reward overwrote what another had left.       *)
CompletedWhenSpent ==
  \A c \in Campaigns :
    budget[c] > 0 /\ over[c] = 0 /\ status[c] # "none" =>
      (status[c] = "completed" <=> remaining[c] <= 0)

(* A completed campaign is not opened again by a request that read it      *)
(* before it was completed.                                                *)
ClosedStaysClosed ==
  [][\A c \in Campaigns : status[c] = "completed" => status'[c] = "completed"]_vars

(* Coins come from conversions that are on record.  With the coins spent   *)
(* at checkouts they are what the records say when no save of the wallet   *)
(* overwrote another; and runs that overlap on a wallet never make more    *)
(* coins than the records say, where no checkout took part.                *)
CoinsMatchRecords ==
  \A u \in Users :
    (\A w \in Runners : ~(job[w] = "record" /\ at[w] = u)) =>
      /\ u \notin shoppers => coins[u] <= records[u]
      /\ u \notin raced => coins[u] + spent[u] = records[u]
=============================================================================
