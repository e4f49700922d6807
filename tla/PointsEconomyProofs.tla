------------------------ MODULE PointsEconomyProofs ------------------------
(***************************************************************************)
(* Proofs about PointsEconomy, for any number of users, campaigns,         *)
(* requests and runners, and for budgets, rewards, costs and totals of     *)
(* either sign.                                                            *)
(***************************************************************************)
EXTENDS PointsEconomy, LedgerLemmas

(* The types by the owner of the variables. *)
SettingOK ==
  /\ replicaSet \in BOOLEAN
  /\ budget \in [Campaigns -> Int] /\ reward \in [Campaigns -> Int]

CampaignsOK ==
  /\ status \in [Campaigns -> {"none", "active", "completed"}]
  /\ remaining \in [Campaigns -> Int] /\ paid \in [Campaigns -> Int]
  /\ over \in [Campaigns -> Nat]
  /\ part \in [Campaigns -> [Users -> {"none", "started", "rewarded"}]]

StoresOK ==
  /\ points \in [Users -> Int] /\ coins \in [Users -> Int]
  /\ records \in [Users -> Nat] /\ lastRun \in BOOLEAN
  /\ outside \in Int /\ spent \in [Users -> Int]
  /\ docked \subseteq Users /\ shoppers \subseteq Users /\ raced \subseteq Users

Steps == {"idle", "charge", "open", "loaded", "pay", "wallet",
          "credit", "mark", "outside", "coins", "done"}
RequestsOK ==
  /\ pc \in [Requests -> Steps]
  /\ camp \in [Requests -> Campaigns] /\ user \in [Requests -> Users]
  /\ copy \in [Requests -> Int]

RunsOK ==
  /\ job \in [Runners -> {"idle", "next", "save", "record", "done"}]
  /\ todo \in [Runners -> SUBSET Users] /\ at \in [Runners -> Users]
  /\ copyP \in [Runners -> Nat] /\ copyC \in [Runners -> Int]

PointsInv == SettingOK /\ CampaignsOK /\ StoresOK /\ RequestsOK /\ RunsOK

LEMMA AnyTyped == AnyUser \in Users /\ AnyCampaign \in Campaigns
BY PointsAssumption DEF AnyUser, AnyCampaign

LEMMA InitInv == Init => PointsInv
<1> SUFFICES ASSUME Init PROVE PointsInv
  OBVIOUS
<1>1. SettingOK
  <2>1. PICK t \in [Campaigns -> Terms] :
          /\ budget = [c \in Campaigns |-> t[c][1]]
          /\ reward = [c \in Campaigns |-> t[c][2]]
    BY DEF Init
  <2>2. \A c \in Campaigns : t[c][1] \in Int /\ t[c][2] \in Int
    <3> SUFFICES ASSUME NEW c \in Campaigns PROVE t[c][1] \in Int /\ t[c][2] \in Int
      OBVIOUS
    <3>1. t[c] \in Int \X Int
      BY <2>1, PointsAssumption
    <3> QED
      BY <3>1
  <2>3. replicaSet \in BOOLEAN
    BY DEF Init
  <2> QED
    BY <2>1, <2>2, <2>3 DEF SettingOK
<1>2. CampaignsOK
  <2>1. part \in [Campaigns -> [Users -> {"none", "started", "rewarded"}]]
    <3>1. part = [c \in Campaigns |-> [u \in Users |-> "none"]]
      BY DEF Init
    <3>2. [u \in Users |-> "none"] \in [Users -> {"none", "started", "rewarded"}]
      OBVIOUS
    <3> QED
      BY <3>1, <3>2, Zenon
  <2> QED
    BY <2>1 DEF Init, CampaignsOK
<1>3. StoresOK
  <2>1. /\ points = GenPoints /\ coins = [u \in Users |-> 0]
        /\ records = [u \in Users |-> 0] /\ spent = [u \in Users |-> 0]
        /\ lastRun = FALSE /\ outside = 0 /\ docked = {} /\ shoppers = {} /\ raced = {}
    BY DEF Init
  <2>2. coins \in [Users -> Int] /\ spent \in [Users -> Int]
    BY <2>1
  <2>3. records \in [Users -> Nat]
    BY <2>1
  <2>4. points \in [Users -> Int]
    BY <2>1, PointsAssumption
  <2>5. lastRun \in BOOLEAN
    BY <2>1
  <2>6. docked \subseteq Users /\ shoppers \subseteq Users /\ raced \subseteq Users
    BY <2>1
  <2>7. outside \in Int
    BY <2>1
  <2> QED
    BY <2>2, <2>3, <2>4, <2>5, <2>6, <2>7 DEF StoresOK
<1>4. RequestsOK
  BY AnyTyped DEF Init, RequestsOK, Steps
<1>5. RunsOK
  BY AnyTyped DEF Init, RunsOK
<1> QED
  BY <1>1, <1>2, <1>3, <1>4, <1>5 DEF PointsInv

(* How the three ways a request moves keep its types. *)
LEMMA EndTyped ==
  ASSUME RequestsOK, NEW r \in Requests, End(r)
  PROVE  RequestsOK' /\ UNCHANGED <<setting, runs>>
BY AnyTyped DEF RequestsOK, End, Steps

LEMMA GotoTyped ==
  ASSUME RequestsOK, NEW r \in Requests, NEW next \in Steps, Goto(r, next),
         UNCHANGED <<camp, user>>,
         copy' = copy \/ \E n \in Int : copy' = [copy EXCEPT ![r] = n]
  PROVE  RequestsOK' /\ UNCHANGED <<setting, runs>>
<1>1. copy' \in [Requests -> Int]
  BY DEF RequestsOK
<1> QED
  BY <1>1 DEF RequestsOK, Goto

LEMMA BeginTyped ==
  ASSUME RequestsOK, NEW r \in Requests, NEW next \in Steps,
         NEW c \in Campaigns, NEW u \in Users, Begin(r, next, c, u),
         copy' = copy \/ \E n \in Int : copy' = [copy EXCEPT ![r] = n]
  PROVE  RequestsOK' /\ UNCHANGED <<setting, runs>>
<1>1. copy' \in [Requests -> Int]
  BY DEF RequestsOK
<1> QED
  BY <1>1 DEF RequestsOK, Begin, Goto

(* A step of the requests that keeps the types of what it writes. *)
LEMMA RequestTyped ==
  ASSUME PointsInv, CampaignsOK', StoresOK', RequestsOK' /\ UNCHANGED <<setting, runs>>
  PROVE  PointsInv'
BY DEF PointsInv, SettingOK, setting, RunsOK, runs

LEMMA CreateKeepsInv ==
  ASSUME PointsInv, NEW c \in Campaigns, CommitCreate(c)
  PROVE  PointsInv'
<1>1. Publisher[c] \in Users /\ budget[c] \in Int
  BY PointsAssumption DEF PointsInv, SettingOK
<1>2. StoresOK'
  BY <1>1 DEF CommitCreate, PointsInv, StoresOK, conversions, outlay
<1>3. CampaignsOK'
  BY <1>1 DEF CommitCreate, Open, PointsInv, CampaignsOK
<1>4. RequestsOK' /\ UNCHANGED <<setting, runs>>
  BY DEF CommitCreate, PointsInv, RequestsOK, requests
<1> QED
  BY <1>2, <1>3, <1>4, RequestTyped

LEMMA StartTaskKeepsInv ==
  ASSUME PointsInv, NEW c \in Campaigns, NEW u \in Users, StartTask(c, u)
  PROVE  PointsInv'
<1>1. StoresOK'
  BY DEF StartTask, PointsInv, StoresOK, conversions, outlay
<1>2. CampaignsOK'
  BY DEF StartTask, PointsInv, CampaignsOK
<1>3. RequestsOK' /\ UNCHANGED <<setting, runs>>
  BY DEF StartTask, PointsInv, RequestsOK, requests
<1> QED
  BY <1>1, <1>2, <1>3, RequestTyped

(* The steps that only read. *)
Reads(r) ==
  \/ \E c \in Campaigns : LoadPublisher(r, c)
  \/ \E c \in Campaigns, u \in Users : LoadParticipation(r, c, u)
  \/ \E u \in Users : LoadWallet(r, u) \/ LoadCoins(r, u)
  \/ LoadCampaign(r) \/ LoadWorker(r) \/ Abort(r)

LEMMA ReadsLeave ==
  ASSUME NEW r \in Requests, Reads(r)
  PROVE  UNCHANGED stores
BY DEF Reads, LoadPublisher, LoadParticipation, LoadWallet, LoadCoins, LoadCampaign,
       LoadWorker, Abort

LEMMA LoadKeepsInv ==
  ASSUME PointsInv, NEW r \in Requests, Reads(r)
  PROVE  PointsInv'
<1>1. StoresOK' /\ CampaignsOK'
  BY ReadsLeave DEF PointsInv, StoresOK, CampaignsOK, stores, campaigns, conversions, outlay
<1>2. /\ RequestsOK
      /\ \A u \in Users : points[u] \in Int /\ coins[u] \in Int
      /\ \A c \in Campaigns : remaining[c] \in Int /\ Publisher[c] \in Users
      /\ camp[r] \in Campaigns /\ user[r] \in Users
  BY PointsAssumption DEF PointsInv, StoresOK, CampaignsOK, RequestsOK
<1> DEFINE Moved == RequestsOK' /\ UNCHANGED <<setting, runs>>
<1>3. ASSUME NEW c \in Campaigns, LoadPublisher(r, c) PROVE Moved
  <2>1. /\ Begin(r, "charge", c, Publisher[c]) /\ "charge" \in Steps
        /\ \E n \in Int : copy' = [copy EXCEPT ![r] = n]
    BY <1>2, <1>3 DEF LoadPublisher, Steps
  <2> QED
    BY <1>2, <2>1, BeginTyped
<1>4. ASSUME NEW c \in Campaigns, NEW u \in Users, LoadParticipation(r, c, u) PROVE Moved
  <2>1. Begin(r, "loaded", c, u) /\ "loaded" \in Steps /\ copy' = copy
    BY <1>4 DEF LoadParticipation, Steps
  <2> QED
    BY <1>2, <2>1, BeginTyped
<1>5. ASSUME NEW u \in Users, LoadWallet(r, u) PROVE Moved
  <2>1. /\ Begin(r, "outside", camp[r], u) /\ "outside" \in Steps
        /\ \E n \in Int : copy' = [copy EXCEPT ![r] = n]
    BY <1>2, <1>5 DEF LoadWallet, Steps
  <2> QED
    BY <1>2, <2>1, BeginTyped
<1>6. ASSUME NEW u \in Users, LoadCoins(r, u) PROVE Moved
  <2>1. /\ Begin(r, "coins", camp[r], u) /\ "coins" \in Steps
        /\ \E n \in Int : copy' = [copy EXCEPT ![r] = n]
    BY <1>2, <1>6 DEF LoadCoins, Steps
  <2> QED
    BY <1>2, <2>1, BeginTyped
<1>7. ASSUME LoadCampaign(r) PROVE Moved
  <2>1. CASE CanPay(camp[r])
    <3>1. /\ Goto(r, "pay") /\ "pay" \in Steps /\ UNCHANGED <<camp, user>>
          /\ \E n \in Int : copy' = [copy EXCEPT ![r] = n]
      BY <1>2, <1>7, <2>1 DEF LoadCampaign, Steps
    <3> QED
      BY <1>2, <3>1, GotoTyped
  <2>2. CASE ~CanPay(camp[r])
    BY <1>2, <1>7, <2>2, EndTyped DEF LoadCampaign
  <2> QED
    BY <2>1, <2>2
<1>8. ASSUME LoadWorker(r) PROVE Moved
  <2>1. /\ Goto(r, "credit") /\ "credit" \in Steps /\ UNCHANGED <<camp, user>>
        /\ \E n \in Int : copy' = [copy EXCEPT ![r] = n]
    BY <1>2, <1>8 DEF LoadWorker, Steps
  <2> QED
    BY <1>2, <2>1, GotoTyped
<1>9. ASSUME Abort(r) PROVE Moved
  BY <1>2, <1>9, EndTyped DEF Abort
<1>10. Moved
  BY <1>3, <1>4, <1>5, <1>6, <1>7, <1>8, <1>9 DEF Reads
<1> QED
  BY <1>1, <1>10, RequestTyped

LEMMA RewardKeepsInv ==
  ASSUME PointsInv, NEW r \in Requests, CommitReward(r) \/ SaveSpending(r)
  PROVE  PointsInv'
<1>1. /\ RequestsOK /\ StoresOK /\ CampaignsOK
      /\ camp[r] \in Campaigns /\ user[r] \in Users /\ copy[r] \in Int
      /\ reward[camp[r]] \in Int
  BY DEF PointsInv, RequestsOK, SettingOK
<1>2. ASSUME NEW left \in Int, Spend(r, left)
      PROVE  /\ status' \in [Campaigns -> {"none", "active", "completed"}]
             /\ remaining' \in [Campaigns -> Int] /\ paid' \in [Campaigns -> Int]
             /\ over' \in [Campaigns -> Nat] /\ docked' \subseteq Users
  <2>1. StatusAfter(camp[r], left) \in {"none", "active", "completed"}
    BY <1>1 DEF StatusAfter, CampaignsOK
  <2> QED
    BY <1>1, <1>2, <2>1 DEF Spend, MarkDocked, CampaignsOK, StoresOK
<1>3. PayOnce(r) \in Int /\ PayOnce(r) - reward[camp[r]] \in Int
  BY <1>1 DEF PayOnce
<1>4. CASE CommitReward(r)
  <2>1. part' \in [Campaigns -> [Users -> {"none", "started", "rewarded"}]]
    BY <1>1, <1>4 DEF CommitReward, CampaignsOK
  <2>2. CampaignsOK'
    BY <1>2, <1>3, <1>4, <2>1 DEF CommitReward, CampaignsOK
  <2>3. StoresOK'
    BY <1>1, <1>2, <1>3, <1>4 DEF CommitReward, StoresOK, conversions
  <2>4. RequestsOK' /\ UNCHANGED <<setting, runs>>
    BY <1>1, <1>4, EndTyped DEF CommitReward
  <2> QED
    BY <2>2, <2>3, <2>4, RequestTyped
<1>5. CASE SaveSpending(r)
  <2>1. CampaignsOK'
    BY <1>1, <1>2, <1>3, <1>5 DEF SaveSpending, CampaignsOK
  <2>2. StoresOK'
    BY <1>1, <1>2, <1>3, <1>5 DEF SaveSpending, StoresOK, conversions
  <2>3. Goto(r, "wallet") /\ "wallet" \in Steps /\ UNCHANGED <<camp, user>> /\ copy' = copy
    BY <1>5 DEF SaveSpending, Steps
  <2>4. RequestsOK' /\ UNCHANGED <<setting, runs>>
    BY <1>1, <2>3, GotoTyped
  <2> QED
    BY <2>1, <2>2, <2>4, RequestTyped
<1> QED
  BY <1>4, <1>5

(* The other saves of requests write one wallet, campaign or participation.*)
LEMMA SaveKeepsInv ==
  ASSUME PointsInv, NEW r \in Requests,
         \/ SavePublisher(r) \/ SaveCampaign(r) \/ SaveWorker(r) \/ SaveParticipation(r)
  PROVE  PointsInv'
<1>1. /\ RequestsOK /\ StoresOK /\ CampaignsOK
      /\ camp[r] \in Campaigns /\ user[r] \in Users /\ copy[r] \in Int
      /\ reward[camp[r]] \in Int /\ budget[camp[r]] \in Int
  BY DEF PointsInv, RequestsOK, SettingOK
<1>2. CASE SavePublisher(r)
  <2>1. StoresOK' /\ CampaignsOK'
    BY <1>1, <1>2 DEF SavePublisher, MarkRaced, StoresOK, CampaignsOK, campaigns,
       conversions, outlay
  <2>2. Goto(r, "open") /\ "open" \in Steps /\ UNCHANGED <<camp, user>> /\ copy' = copy
    BY <1>2 DEF SavePublisher, Steps
  <2>3. RequestsOK' /\ UNCHANGED <<setting, runs>>
    BY <1>1, <2>2, GotoTyped
  <2> QED
    BY <2>1, <2>3, RequestTyped
<1>3. CASE SaveCampaign(r)
  <2>1. StoresOK' /\ CampaignsOK'
    BY <1>1, <1>3 DEF SaveCampaign, Open, StoresOK, CampaignsOK, conversions, outlay
  <2>2. RequestsOK' /\ UNCHANGED <<setting, runs>>
    BY <1>1, <1>3, EndTyped DEF SaveCampaign
  <2> QED
    BY <2>1, <2>2, RequestTyped
<1>4. CASE SaveWorker(r)
  <2>1. StoresOK' /\ CampaignsOK'
    BY <1>1, <1>4 DEF SaveWorker, MarkRaced, StoresOK, CampaignsOK, campaigns,
       conversions, outlay
  <2>2. Goto(r, "mark") /\ "mark" \in Steps /\ UNCHANGED <<camp, user>> /\ copy' = copy
    BY <1>4 DEF SaveWorker, Steps
  <2>3. RequestsOK' /\ UNCHANGED <<setting, runs>>
    BY <1>1, <2>2, GotoTyped
  <2> QED
    BY <2>1, <2>3, RequestTyped
<1>5. CASE SaveParticipation(r)
  <2>1. StoresOK' /\ CampaignsOK'
    BY <1>1, <1>5 DEF SaveParticipation, StoresOK, CampaignsOK, conversions, outlay
  <2>2. RequestsOK' /\ UNCHANGED <<setting, runs>>
    BY <1>1, <1>5, EndTyped DEF SaveParticipation
  <2> QED
    BY <2>1, <2>2, RequestTyped
<1> QED
  BY <1>2, <1>3, <1>4, <1>5

(* Tasks outside of campaigns, and checkouts. *)
LEMMA ErrandKeepsInv ==
  ASSUME PointsInv, NEW r \in Requests, NEW n \in Amounts,
         SaveGrant(r, n) \/ SavePost(r, n) \/ SaveCoins(r, n)
  PROVE  PointsInv'
<1>1. /\ RequestsOK /\ StoresOK /\ CampaignsOK /\ n \in Int /\ 0 - n \in Int
      /\ user[r] \in Users /\ copy[r] \in Int
  BY PointsAssumption DEF PointsInv, RequestsOK
<1>2. ASSUME NEW k \in Int, SaveOutside(r, k) PROVE PointsInv'
  <2>1. StoresOK' /\ CampaignsOK'
    BY <1>1, <1>2 DEF SaveOutside, MarkRaced, MarkDocked, StoresOK, CampaignsOK,
       campaigns, conversions
  <2>2. RequestsOK' /\ UNCHANGED <<setting, runs>>
    BY <1>1, <1>2, EndTyped DEF SaveOutside
  <2> QED
    BY <2>1, <2>2, RequestTyped
<1>3. CASE SaveCoins(r, n)
  <2>1. StoresOK' /\ CampaignsOK'
    BY <1>1, <1>3 DEF SaveCoins, MarkRaced, StoresOK, CampaignsOK, campaigns, conversions
  <2>2. RequestsOK' /\ UNCHANGED <<setting, runs>>
    BY <1>1, <1>3, EndTyped DEF SaveCoins
  <2> QED
    BY <2>1, <2>2, RequestTyped
<1> QED
  BY <1>1, <1>2, <1>3 DEF SaveGrant, SavePost

(* The conversion touches neither requests nor campaigns. *)
LEMMA RunLeaves ==
  ASSUME NEW w \in Runners, Run(w)
  PROVE  UNCHANGED <<setting, campaigns, outlay, requests>> /\ raced \subseteq raced'
BY DEF Run, StartRun, SaveConversion, RecordConversion, FinishRun, FailRun,
       CommitConversion, PassOver, LoadConversion, stores, MarkRaced

LEMMA RunKeepsInv ==
  ASSUME PointsInv, NEW w \in Runners, Run(w)
  PROVE  PointsInv'
<1>1. StoresOK /\ RunsOK
  BY DEF PointsInv
<1>2. at[w] \in Users /\ copyP[w] \in Nat /\ copyC[w] \in Int
  BY <1>1 DEF RunsOK
<1>3. ASSUME points' \in [Users -> Int], coins' \in [Users -> Int],
             records' \in [Users -> Nat], lastRun' \in BOOLEAN,
             raced' \subseteq Users, RunsOK'
      PROVE  PointsInv'
  <2>1. UNCHANGED <<setting, campaigns, outlay, requests>>
    BY RunLeaves
  <2>2. StoresOK'
    BY <1>1, <1>3, <2>1 DEF StoresOK, outlay
  <2>3. SettingOK' /\ CampaignsOK' /\ RequestsOK'
    BY <2>1 DEF PointsInv, SettingOK, setting, CampaignsOK, campaigns, RequestsOK, requests
  <2> QED
    BY <1>3, <2>2, <2>3 DEF PointsInv
<1>4. CASE StartRun(w) \/ FailRun(w)
  <2>1. RunsOK'
    BY <1>1, <1>4 DEF StartRun, FailRun, RunsOK
  <2> QED
    BY <1>1, <1>3, <1>4, <2>1 DEF StartRun, FailRun, stores, conversions, StoresOK
<1>5. CASE SaveConversion(w)
  <2>1. RunsOK' /\ points' \in [Users -> Int] /\ coins' \in [Users -> Int]
    BY <1>1, <1>2, <1>5 DEF SaveConversion, RunsOK, StoresOK
  <2>2. raced' \subseteq Users
    BY <1>1, <1>2, <1>5 DEF SaveConversion, MarkRaced, StoresOK
  <2> QED
    BY <1>1, <1>3, <1>5, <2>1, <2>2 DEF SaveConversion, conversions, StoresOK
<1>6. CASE RecordConversion(w)
  <2>1. RunsOK'
    BY <1>1, <1>6, AnyTyped DEF RecordConversion, Forget, RunsOK
  <2>2. records' \in [Users -> Nat]
    BY <1>1, <1>2, <1>6 DEF RecordConversion, Converted, StoresOK
  <2> QED
    BY <1>1, <1>3, <1>6, <2>1, <2>2 DEF RecordConversion, StoresOK
<1>7. CASE FinishRun(w)
  <2>1. RunsOK'
    BY <1>1, <1>7 DEF FinishRun, RunsOK
  <2> QED
    BY <1>1, <1>3, <1>7, <2>1 DEF FinishRun, StoresOK
<1>8. ASSUME NEW u \in Users, CommitConversion(w, u) PROVE PointsInv'
  <2>1. points[u] \in Nat /\ coins[u] \in Int /\ records[u] \in Nat
    BY <1>1, <1>8 DEF CommitConversion, StoresOK
  <2>2. RunsOK' /\ points' \in [Users -> Int]
    BY <1>1, <1>8 DEF CommitConversion, RunsOK, StoresOK
  <2>3. coins' \in [Users -> Int] /\ records' \in [Users -> Nat]
    BY <1>1, <1>8, <2>1 DEF CommitConversion, StoresOK
  <2> QED
    BY <1>1, <1>3, <1>8, <2>2, <2>3 DEF CommitConversion, StoresOK
<1>9. ASSUME NEW u \in Users, PassOver(w, u) \/ LoadConversion(w, u) PROVE PointsInv'
  <2>1. RunsOK'
    <3>1. CASE PassOver(w, u)
      BY <1>1, <3>1 DEF PassOver, RunsOK
    <3>2. CASE LoadConversion(w, u)
      <4>1. points[u] \in Nat /\ coins[u] \in Int
        BY <1>1, <3>2 DEF LoadConversion, StoresOK
      <4> QED
        BY <1>1, <3>2, <4>1 DEF LoadConversion, RunsOK
    <3> QED
      BY <1>9, <3>1, <3>2
  <2> QED
    BY <1>1, <1>3, <1>9, <2>1 DEF PassOver, LoadConversion, stores, conversions, StoresOK
<1> QED
  BY <1>4, <1>5, <1>6, <1>7, <1>8, <1>9 DEF Run

(* A step of the system, by what it may disturb. *)
LEMMA NextCases ==
  ASSUME Next
  PROVE  \/ \E c \in Campaigns : CommitCreate(c)
         \/ \E c \in Campaigns, u \in Users : StartTask(c, u)
         \/ \E r \in Requests :
              \/ Reads(r)
              \/ CommitReward(r) \/ SaveSpending(r)
              \/ SavePublisher(r) \/ SaveCampaign(r) \/ SaveWorker(r) \/ SaveParticipation(r)
              \/ \E n \in Amounts : SaveGrant(r, n) \/ SavePost(r, n) \/ SaveCoins(r, n)
         \/ \E w \in Runners : Run(w)
BY DEF Next, Step, Reads

LEMMA StepKeepsInv == PointsInv /\ [Next]_vars => PointsInv'
<1> SUFFICES ASSUME PointsInv, [Next]_vars PROVE PointsInv'
  OBVIOUS
<1>1. CASE UNCHANGED vars
  BY <1>1 DEF vars, setting, stores, campaigns, conversions, outlay, requests, runs,
              PointsInv, SettingOK, CampaignsOK, StoresOK, RequestsOK, RunsOK
<1>2. CASE Next
  BY <1>2, NextCases, CreateKeepsInv, StartTaskKeepsInv, LoadKeepsInv, RewardKeepsInv,
     SaveKeepsInv, ErrandKeepsInv, RunKeepsInv
<1> QED
  BY <1>1, <1>2

THEOREM PointsInvariant == Spec => []PointsInv
BY InitInv, StepKeepsInv, PTL DEF Spec

(* Budgets, rewards, balances and copies are integers, whatever overlaps:  *)
(* the types the proofs below rest on.                                     *)
THEOREM EconomyTyped == Spec => []TypeOK
<1>1. PointsInv => TypeOK
  BY DEF PointsInv, SettingOK, CampaignsOK, StoresOK, RequestsOK, RunsOK, TypeOK, Steps
<1> QED
  BY <1>1, PointsInvariant, PTL


-----------------------------------------------------------------------------
(* The step of a request moves no other request. *)
Moves(r) ==
  \/ Reads(r)
  \/ CommitReward(r) \/ SaveSpending(r)
  \/ SavePublisher(r) \/ SaveCampaign(r) \/ SaveWorker(r) \/ SaveParticipation(r)
  \/ \E n \in Amounts : SaveGrant(r, n) \/ SavePost(r, n) \/ SaveCoins(r, n)

Alone(r) ==
  \A q \in Requests : q # r => /\ pc'[q] = pc[q] /\ camp'[q] = camp[q]
                               /\ user'[q] = user[q] /\ copy'[q] = copy[q]

LEMMA MovesAlone ==
  ASSUME PointsInv, NEW r \in Requests, Moves(r)
  PROVE  Alone(r) /\ UNCHANGED <<setting, runs>>
<1>1. RequestsOK
  BY DEF PointsInv
<1>2. ASSUME End(r) PROVE Alone(r) /\ UNCHANGED <<setting, runs>>
  BY <1>1, <1>2 DEF End, Alone, RequestsOK
<1>3. ASSUME NEW next, Goto(r, next), UNCHANGED <<camp, user>>,
             copy' = copy \/ \E n : copy' = [copy EXCEPT ![r] = n]
      PROVE  Alone(r) /\ UNCHANGED <<setting, runs>>
  BY <1>1, <1>3 DEF Goto, Alone, RequestsOK
<1>4. ASSUME NEW next, NEW c, NEW u, Begin(r, next, c, u),
             copy' = copy \/ \E n : copy' = [copy EXCEPT ![r] = n]
      PROVE  Alone(r) /\ UNCHANGED <<setting, runs>>
  BY <1>1, <1>4 DEF Begin, Goto, Alone, RequestsOK
<1>5. ASSUME Reads(r) PROVE Alone(r) /\ UNCHANGED <<setting, runs>>
  <2>1. CASE \/ \E c \in Campaigns : LoadPublisher(r, c)
             \/ \E c \in Campaigns, u \in Users : LoadParticipation(r, c, u)
             \/ \E u \in Users : LoadWallet(r, u) \/ LoadCoins(r, u)
    BY <1>4, <2>1 DEF LoadPublisher, LoadParticipation, LoadWallet, LoadCoins
  <2>2. CASE LoadCampaign(r)
    <3>1. End(r) \/ /\ Goto(r, "pay") /\ UNCHANGED <<camp, user>>
                    /\ copy' = [copy EXCEPT ![r] = remaining[camp[r]]]
      BY <2>2 DEF LoadCampaign
    <3> QED
      BY <1>2, <1>3, <3>1
  <2>3. CASE LoadWorker(r)
    BY <1>3, <2>3 DEF LoadWorker
  <2>4. CASE Abort(r)
    BY <1>2, <2>4 DEF Abort
  <2> QED
    BY <1>5, <2>1, <2>2, <2>3, <2>4 DEF Reads
<1>6. ASSUME \/ CommitReward(r) \/ SaveCampaign(r) \/ SaveParticipation(r)
             \/ \E n \in Amounts : SaveGrant(r, n) \/ SavePost(r, n) \/ SaveCoins(r, n)
      PROVE  Alone(r) /\ UNCHANGED <<setting, runs>>
  BY <1>2, <1>6 DEF CommitReward, SaveCampaign, SaveParticipation, SaveGrant, SavePost,
     SaveOutside, SaveCoins
<1>7. ASSUME SaveSpending(r) \/ SavePublisher(r) \/ SaveWorker(r)
      PROVE  Alone(r) /\ UNCHANGED <<setting, runs>>
  BY <1>3, <1>7 DEF SaveSpending, SavePublisher, SaveWorker
<1> QED
  BY <1>5, <1>6, <1>7 DEF Moves

LEMMA NextMoves ==
  ASSUME Next
  PROVE  \/ \E c \in Campaigns : CommitCreate(c)
         \/ \E c \in Campaigns, u \in Users : StartTask(c, u)
         \/ \E r \in Requests : Moves(r)
         \/ \E w \in Runners : Run(w)
BY NextCases DEF Moves

-----------------------------------------------------------------------------
(* Balances.  A number that is below zero belongs to a docked user, in a   *)
(* wallet as in a copy of one; a charge was covered when it was tested.    *)
Excused(n, u) == n < 0 => u \in docked
Tested(r) ==
  /\ pc[r] = "charge" => copy[r] >= budget[camp[r]]
  /\ pc[r] \in {"credit", "outside"} => Excused(copy[r], user[r])
  /\ pc[r] \in {"wallet", "credit"} => Excused(reward[camp[r]], user[r])
BalanceInv ==
  /\ \A u \in Users : coins[u] >= 0 /\ Excused(points[u], u)
  /\ \A r \in Requests : Tested(r)
  /\ \A w \in Runners : copyC[w] >= 0

LEMMA InitBalance == Init => BalanceInv
<1> SUFFICES ASSUME Init PROVE BalanceInv
  OBVIOUS
<1>1. \A u \in Users : coins[u] >= 0 /\ Excused(points[u], u)
  BY PointsAssumption DEF Init, Excused
<1>2. \A r \in Requests : Tested(r)
  BY DEF Init, Tested
<1>3. \A w \in Runners : copyC[w] >= 0
  BY DEF Init
<1> QED
  BY <1>1, <1>2, <1>3 DEF BalanceInv

(* Once docked is always docked. *)
LEMMA RequestsKeepTested ==
  ASSUME PointsInv, BalanceInv, docked \subseteq docked', UNCHANGED setting,
         UNCHANGED requests \/ \E r \in Requests : Alone(r) /\ Tested(r)'
  PROVE  \A q \in Requests : Tested(q)'
<1> SUFFICES ASSUME NEW q \in Requests PROVE Tested(q)'
  OBVIOUS
<1>1. Tested(q)
  BY DEF BalanceInv
<1>2. ASSUME pc'[q] = pc[q], camp'[q] = camp[q], user'[q] = user[q], copy'[q] = copy[q]
      PROVE  Tested(q)'
  BY <1>1, <1>2 DEF Tested, Excused, setting
<1> QED
  BY <1>2 DEF requests, Alone

LEMMA SavesKeepBalance ==
  ASSUME PointsInv, BalanceInv, NEW r \in Requests, Moves(r), ~Reads(r)
  PROVE  /\ \A u \in Users : coins'[u] >= 0 /\ Excused(points[u], u)'
         /\ docked \subseteq docked' /\ Tested(r)'
<1>1. /\ pc \in [Requests -> Steps] /\ camp[r] \in Campaigns /\ user[r] \in Users
      /\ copy[r] \in Int /\ budget[camp[r]] \in Int /\ reward[camp[r]] \in Int
      /\ points \in [Users -> Int] /\ coins \in [Users -> Int] /\ Amounts \subseteq Int
  BY PointsAssumption DEF PointsInv, RequestsOK, SettingOK, StoresOK
<1>2. /\ \A u \in Users : coins[u] >= 0 /\ Excused(points[u], u)
      /\ Tested(r)
  BY DEF BalanceInv
<1>3. CASE CommitReward(r)
  BY <1>1, <1>2, <1>3 DEF CommitReward, Spend, MarkDocked, End, Tested, Excused
<1>4. CASE SaveSpending(r)
  BY <1>1, <1>2, <1>4 DEF SaveSpending, Spend, MarkDocked, Goto, setting, Tested, Excused
<1>5. CASE SavePublisher(r)
  BY <1>1, <1>2, <1>5 DEF SavePublisher, Goto, outlay, Tested, Excused
<1>6. CASE SaveWorker(r)
  BY <1>1, <1>2, <1>6 DEF SaveWorker, Goto, outlay, Tested, Excused
<1>7. CASE SaveCampaign(r) \/ SaveParticipation(r)
  BY <1>1, <1>2, <1>7 DEF SaveCampaign, SaveParticipation, End, outlay, Tested, Excused
<1>8. ASSUME NEW k \in Int, SaveOutside(r, k)
      PROVE  /\ \A u \in Users : coins'[u] >= 0 /\ Excused(points[u], u)'
             /\ docked \subseteq docked' /\ Tested(r)'
  BY <1>1, <1>2, <1>8 DEF SaveOutside, MarkDocked, End, Tested, Excused
<1>9. ASSUME NEW n \in Amounts, SaveCoins(r, n)
      PROVE  /\ \A u \in Users : coins'[u] >= 0 /\ Excused(points[u], u)'
             /\ docked \subseteq docked' /\ Tested(r)'
  BY <1>1, <1>2, <1>9 DEF SaveCoins, HasCoins, End, Tested, Excused
<1>10. \A n \in Amounts : n \in Int /\ 0 - n \in Int
  BY <1>1
<1> QED
  BY <1>3, <1>4, <1>5, <1>6, <1>7, <1>8, <1>9, <1>10 DEF Moves, SaveGrant, SavePost

LEMMA ReadsKeepTested ==
  ASSUME PointsInv, BalanceInv, NEW r \in Requests, Reads(r)
  PROVE  Tested(r)'
<1>1. /\ pc \in [Requests -> Steps] /\ camp \in [Requests -> Campaigns]
      /\ user \in [Requests -> Users] /\ copy \in [Requests -> Int]
      /\ \A c \in Campaigns : budget[c] \in Int /\ reward[c] \in Int /\ Publisher[c] \in Users
      /\ \A u \in Users : points[u] \in Int /\ Excused(points[u], u)
      /\ Tested(r)
  BY PointsAssumption DEF PointsInv, RequestsOK, SettingOK, StoresOK, BalanceInv
<1>2. UNCHANGED docked
  BY ReadsLeave DEF stores, outlay
<1> USE DEF Tested, Excused, setting, Goto
<1>3. ASSUME NEW c \in Campaigns, LoadPublisher(r, c) PROVE Tested(r)'
  BY <1>1, <1>2, <1>3 DEF LoadPublisher, Charges, Begin
<1>4. ASSUME NEW c \in Campaigns, NEW u \in Users, LoadParticipation(r, c, u)
      PROVE  Tested(r)'
  BY <1>1, <1>2, <1>4 DEF LoadParticipation, Begin
<1>5. ASSUME NEW u \in Users, LoadWallet(r, u) \/ LoadCoins(r, u) PROVE Tested(r)'
  BY <1>1, <1>2, <1>5 DEF LoadWallet, LoadCoins, Begin
<1>6. CASE LoadCampaign(r)
  BY <1>1, <1>2, <1>6 DEF LoadCampaign, End
<1>7. CASE LoadWorker(r)
  BY <1>1, <1>2, <1>7 DEF LoadWorker
<1>8. CASE Abort(r)
  BY <1>1, <1>2, <1>8 DEF Abort, End
<1> QED
  BY <1>3, <1>4, <1>5, <1>6, <1>7, <1>8 DEF Reads

LEMMA RunKeepsBalance ==
  ASSUME PointsInv, BalanceInv, NEW w \in Runners, Run(w)
  PROVE  BalanceInv'
<1>1. /\ points \in [Users -> Int] /\ coins \in [Users -> Int]
      /\ at \in [Runners -> Users] /\ copyP \in [Runners -> Nat] /\ copyC \in [Runners -> Int]
  BY DEF PointsInv, StoresOK, RunsOK
<1>2. UNCHANGED <<setting, outlay, requests>>
  BY RunLeaves
<1>3. \A r \in Requests : Tested(r)'
  BY <1>2, RequestsKeepTested DEF outlay
<1>4. ASSUME \A u \in Users : coins'[u] >= 0 /\ (points'[u] = points[u] \/ points'[u] >= 0),
             \A x \in Runners : copyC'[x] >= 0
      PROVE  BalanceInv'
  <2>1. \A u \in Users : Excused(points[u], u)'
    <3>1. \A u \in Users : points'[u] \in Int
      BY RunKeepsInv DEF PointsInv, StoresOK
    <3> QED
      BY <1>2, <1>4, <3>1 DEF BalanceInv, Excused, outlay
  <2> QED
    BY <1>3, <1>4, <2>1 DEF BalanceInv
<1>5. CASE StartRun(w) \/ FinishRun(w) \/ FailRun(w) \/ \E u \in Users : PassOver(w, u)
  <2>1. UNCHANGED <<points, coins, copyC>>
    BY <1>5 DEF StartRun, FinishRun, FailRun, PassOver, stores
  <2> QED
    BY <1>4, <2>1 DEF BalanceInv
<1>6. CASE SaveConversion(w)
  BY <1>1, <1>4, <1>6 DEF SaveConversion, BalanceInv
<1>7. CASE RecordConversion(w)
  BY <1>1, <1>4, <1>7 DEF RecordConversion, Forget, BalanceInv
<1>8. ASSUME NEW u \in Users, CommitConversion(w, u) PROVE BalanceInv'
  BY <1>1, <1>4, <1>8 DEF CommitConversion, BalanceInv
<1>9. ASSUME NEW u \in Users, LoadConversion(w, u) PROVE BalanceInv'
  BY <1>1, <1>4, <1>9 DEF LoadConversion, stores, BalanceInv
<1> QED
  BY <1>5, <1>6, <1>7, <1>8, <1>9 DEF Run

LEMMA StepKeepsBalance == PointsInv /\ BalanceInv /\ [Next]_vars => BalanceInv'
<1> SUFFICES ASSUME PointsInv, BalanceInv, [Next]_vars PROVE BalanceInv'
  OBVIOUS
<1>1. CASE UNCHANGED vars
  BY <1>1 DEF vars, setting, stores, outlay, requests, runs, BalanceInv, Tested, Excused
<1>2. ASSUME NEW c \in Campaigns, CommitCreate(c) PROVE BalanceInv'
  <2>1. \A r \in Requests : Tested(r)'
    BY <1>2, RequestsKeepTested DEF CommitCreate, outlay
  <2>2. Publisher[c] \in Users /\ budget[c] \in Int /\ points \in [Users -> Int]
    BY PointsAssumption DEF PointsInv, SettingOK, StoresOK
  <2> QED
    BY <1>2, <2>1, <2>2 DEF CommitCreate, Charges, outlay, runs, BalanceInv, Excused
<1>3. ASSUME NEW c \in Campaigns, NEW u \in Users, StartTask(c, u) PROVE BalanceInv'
  <2>1. \A r \in Requests : Tested(r)'
    BY <1>3, RequestsKeepTested DEF StartTask, outlay
  <2> QED
    BY <1>3, <2>1 DEF StartTask, outlay, runs, BalanceInv, Excused
<1>4. ASSUME NEW r \in Requests, Moves(r) PROVE BalanceInv'
  <2>1. Alone(r) /\ UNCHANGED <<setting, runs>>
    BY <1>4, MovesAlone
  <2>2. CASE Reads(r)
    <3>1. UNCHANGED <<points, coins, docked>>
      BY <2>2, ReadsLeave DEF stores, outlay
    <3>2. \A q \in Requests : Tested(q)'
      BY <2>1, <2>2, <3>1, ReadsKeepTested, RequestsKeepTested
    <3> QED
      BY <2>1, <3>1, <3>2 DEF BalanceInv, Excused, runs
  <2>3. CASE ~Reads(r)
    <3>1. /\ \A u \in Users : coins'[u] >= 0 /\ Excused(points[u], u)'
          /\ docked \subseteq docked' /\ Tested(r)'
      BY <1>4, <2>3, SavesKeepBalance
    <3>2. \A q \in Requests : Tested(q)'
      BY <2>1, <3>1, RequestsKeepTested
    <3> QED
      BY <2>1, <3>1, <3>2 DEF BalanceInv, runs
  <2> QED
    BY <2>2, <2>3
<1> QED
  BY <1>1, <1>2, <1>3, <1>4, NextMoves, RunKeepsBalance

THEOREM BalanceInvariant == Spec => []BalanceInv
BY InitBalance, StepKeepsBalance, PointsInvariant, PTL DEF Spec

(* Whatever budgets, rewards, costs and totals are asked for, and whatever *)
(* overlaps: coins never go below zero, and points only for users from     *)
(* whom a handler took some without a look at their balance.               *)
THEOREM BalancesStayCovered == Spec => []BalancesCovered
<1>1. BalanceInv => BalancesCovered
  BY DEF BalanceInv, BalancesCovered, Excused
<1> QED
  BY <1>1, BalanceInvariant, PTL

-----------------------------------------------------------------------------
(* Campaigns.  What a campaign has left and what it paid stay together     *)
(* within the budget, and once more the budget for each overwriting:       *)
(* a copy a reward was tested on never holds more than the budget.         *)
Fresh(c) == status[c] = "none" => remaining[c] = 0 /\ paid[c] = 0 /\ over[c] = 0
Settled(c) ==
  budget[c] > 0 /\ over[c] = 0 /\ status[c] # "none" =>
    (status[c] = "completed" <=> remaining[c] <= 0)
Within(c) ==
  budget[c] > 0 /\ reward[c] > 0 =>
    /\ remaining[c] <= budget[c]
    /\ paid[c] <= budget[c] * (1 + over[c])
    /\ paid[c] + remaining[c] <= budget[c] * (1 + over[c])
CampaignOK(c) == Fresh(c) /\ Settled(c) /\ Within(c)
Payable(r) ==
  pc[r] = "pay" =>
    /\ status[camp[r]] # "none"
    /\ budget[camp[r]] > 0 /\ over[camp[r]] = 0 => copy[r] > 0
    /\ budget[camp[r]] > 0 /\ reward[camp[r]] > 0 =>
         reward[camp[r]] <= copy[r] /\ copy[r] <= budget[camp[r]]
CampaignInv ==
  /\ \A c \in Campaigns : CampaignOK(c)
  /\ \A r \in Requests : Payable(r)

LEMMA InitCampaigns == Init => CampaignInv
<1> SUFFICES ASSUME Init PROVE CampaignInv
  OBVIOUS
<1>1. \A c \in Campaigns : budget[c] \in Int
  BY InitInv DEF PointsInv, SettingOK
<1>2. \A c \in Campaigns : CampaignOK(c)
  BY <1>1 DEF Init, CampaignOK, Fresh, Settled, Within
<1>3. \A r \in Requests : Payable(r)
  BY DEF Init, Payable
<1> QED
  BY <1>2, <1>3 DEF CampaignInv

(* The arithmetic of a reward w that is tested on the copy n of what is    *)
(* left, m, and leaves l, at least w lower than the copy.                  *)
LEMMA RewardBounds ==
  ASSUME NEW b \in Int, NEW o \in Nat, NEW p \in Int, NEW m \in Int,
         NEW w \in Int, NEW n \in Int, NEW l \in Int,
         0 < w, w <= n, n <= b, l <= n - w,
         p <= b * (1 + o), p + m <= b * (1 + o)
  PROVE  /\ l <= b
         /\ n = m  => p + w <= b * (1 + o) /\ p + w + l <= b * (1 + o)
         /\ p + w <= b * (1 + (o + 1)) /\ p + w + l <= b * (1 + (o + 1))
<1> DEFINE k == b * (1 + o)
<1>1. k \in Int /\ b * (1 + (o + 1)) = k + b
  OBVIOUS
<1>2. p <= k /\ p + m <= k
  OBVIOUS
<1> HIDE DEF k
<1>3. /\ l <= b
      /\ n = m  => p + w <= k /\ p + w + l <= k
      /\ p + w <= k + b /\ p + w + l <= k + b
  BY <1>1, <1>2
<1> QED
  BY <1>1, <1>3 DEF k

LEMMA SpendKeeps ==
  ASSUME PointsInv, CampaignInv, UNCHANGED setting, NEW r \in Requests, pc[r] = "pay",
         NEW left \in Int, Spend(r, left),
         reward[camp[r]] > 0 => left <= copy[r] - reward[camp[r]],
         left = PayOnce(r) \/ left = PayOnce(r) - reward[camp[r]]
  PROVE  /\ \A c \in Campaigns : CampaignOK(c)'
         /\ \A c \in Campaigns : /\ status[c] # "none" => status'[c] # "none"
                                 /\ over'[c] = 0 => over[c] = 0
<1> PICK c \in Campaigns : c = camp[r]
  BY DEF PointsInv, RequestsOK
<1>1. /\ c \in Campaigns /\ copy[r] \in Int /\ budget[c] \in Int /\ reward[c] \in Int
      /\ status \in [Campaigns -> {"none", "active", "completed"}]
      /\ remaining \in [Campaigns -> Int] /\ paid \in [Campaigns -> Int]
      /\ over \in [Campaigns -> Nat]
  BY DEF PointsInv, RequestsOK, SettingOK, CampaignsOK
<1>2. CampaignOK(c) /\ Payable(r)
  BY <1>1 DEF CampaignInv
<1>3. /\ remaining' = [remaining EXCEPT ![c] = left]
      /\ status' = [status EXCEPT ![c] = StatusAfter(c, left)]
      /\ paid' = [paid EXCEPT ![c] = @ + reward[c]]
      /\ over' = [over EXCEPT ![c] = IF copy[r] # remaining[c] THEN @ + 1 ELSE @]
      /\ UNCHANGED <<budget, reward>>
  BY DEF Spend, setting
<1>4. /\ remaining'[c] = left /\ paid'[c] = paid[c] + reward[c]
      /\ status'[c] = StatusAfter(c, left)
      /\ copy[r] = remaining[c] => over'[c] = over[c]
      /\ copy[r] # remaining[c] => over'[c] = over[c] + 1
  BY <1>1, <1>3
<1>5. status[c] # "none" /\ status'[c] \in {status[c], "completed"}
  BY <1>2, <1>4 DEF Payable, StatusAfter
<1>6. Fresh(c)'
  BY <1>5 DEF Fresh
<1>7. Settled(c)'
  <2> SUFFICES ASSUME budget[c] > 0, over'[c] = 0
               PROVE  status'[c] = "completed" <=> left <= 0
    BY <1>3, <1>4 DEF Settled
  <2>1. over[c] = 0 /\ copy[r] = remaining[c]
    BY <1>1, <1>4
  <2>2. remaining[c] > 0 /\ status[c] # "completed"
    BY <1>1, <1>2, <1>5, <2>1 DEF Payable, CampaignOK, Settled
  <2> QED
    BY <1>4, <2>2 DEF StatusAfter
<1>8. Within(c)'
  <2> SUFFICES ASSUME budget[c] > 0, reward[c] > 0
               PROVE  /\ left <= budget[c]
                      /\ paid'[c] <= budget[c] * (1 + over'[c])
                      /\ paid'[c] + left <= budget[c] * (1 + over'[c])
    BY <1>3, <1>4 DEF Within
  <2>1. /\ reward[c] <= copy[r] /\ copy[r] <= budget[c] /\ left <= copy[r] - reward[c]
        /\ paid[c] <= budget[c] * (1 + over[c])
        /\ paid[c] + remaining[c] <= budget[c] * (1 + over[c])
    BY <1>2, <1>5 DEF Payable, CampaignOK, Within
  <2>2. /\ remaining[c] \in Int /\ paid[c] \in Int /\ over[c] \in Nat
    BY <1>1
  <2>3. /\ left <= budget[c]
        /\ copy[r] = remaining[c] => /\ paid[c] + reward[c] <= budget[c] * (1 + over[c])
                                     /\ paid[c] + reward[c] + left <= budget[c] * (1 + over[c])
        /\ paid[c] + reward[c] <= budget[c] * (1 + (over[c] + 1))
        /\ paid[c] + reward[c] + left <= budget[c] * (1 + (over[c] + 1))
    BY <1>1, <2>1, <2>2, RewardBounds
  <2> QED
    BY <1>4, <2>3
<1>9. ASSUME NEW d \in Campaigns, d # c
      PROVE  /\ remaining'[d] = remaining[d] /\ status'[d] = status[d]
             /\ paid'[d] = paid[d] /\ over'[d] = over[d]
             /\ budget'[d] = budget[d] /\ reward'[d] = reward[d]
  BY <1>1, <1>3, <1>9
<1>10. ASSUME NEW d \in Campaigns, d # c PROVE CampaignOK(d)'
  <2>1. CampaignOK(d)
    BY DEF CampaignInv
  <2> QED
    BY <1>9, <1>10, <2>1 DEF CampaignOK, Fresh, Settled, Within
<1>11. CampaignOK(c)'
  BY <1>6, <1>7, <1>8 DEF CampaignOK
<1>12. \A d \in Campaigns : CampaignOK(d)'
  BY <1>10, <1>11
<1> QED
  BY <1>1, <1>4, <1>5, <1>9, <1>12

LEMMA OpenKeeps ==
  ASSUME PointsInv, CampaignInv, UNCHANGED setting, NEW c \in Campaigns,
         status[c] = "none", Open(c)
  PROVE  /\ \A d \in Campaigns : CampaignOK(d)'
         /\ \A d \in Campaigns : /\ status[d] # "none" => status'[d] # "none"
                                 /\ over'[d] = 0 => over[d] = 0
<1>1. /\ budget[c] \in Int
      /\ status \in [Campaigns -> {"none", "active", "completed"}]
      /\ remaining \in [Campaigns -> Int]
      /\ status' = [status EXCEPT ![c] = "active"]
      /\ remaining' = [remaining EXCEPT ![c] = budget[c]]
      /\ UNCHANGED <<paid, over, budget, reward>>
  BY DEF PointsInv, SettingOK, CampaignsOK, Open, setting
<1>2. paid[c] = 0 /\ over[c] = 0
  BY DEF CampaignInv, CampaignOK, Fresh
<1>3. CampaignOK(c)'
  BY <1>1, <1>2 DEF CampaignOK, Fresh, Settled, Within
<1>4. ASSUME NEW d \in Campaigns, d # c PROVE CampaignOK(d)'
  <2>1. CampaignOK(d)
    BY DEF CampaignInv
  <2> QED
    BY <1>1, <1>4, <2>1 DEF CampaignOK, Fresh, Settled, Within
<1> QED
  BY <1>1, <1>3, <1>4

(* What a step must do for the rest to follow. *)
LEMMA CampaignsFollow ==
  ASSUME PointsInv, CampaignInv, UNCHANGED setting,
         \A c \in Campaigns : CampaignOK(c)',
         \A c \in Campaigns : /\ status[c] # "none" => status'[c] # "none"
                              /\ over'[c] = 0 => over[c] = 0,
         UNCHANGED requests \/ \E r \in Requests : Alone(r) /\ Payable(r)'
  PROVE  CampaignInv'
<1>1. ASSUME NEW q \in Requests PROVE Payable(q)'
  <2>1. Payable(q) /\ camp[q] \in Campaigns
    BY DEF CampaignInv, PointsInv, RequestsOK
  <2>2. ASSUME pc'[q] = pc[q], camp'[q] = camp[q], copy'[q] = copy[q]
        PROVE  Payable(q)'
    BY <2>1, <2>2 DEF Payable, setting
  <2> QED
    BY <2>2 DEF requests, Alone
<1> QED
  BY <1>1 DEF CampaignInv

LEMMA CampaignsRest ==
  ASSUME PointsInv, CampaignInv, UNCHANGED setting, UNCHANGED <<status, remaining, paid, over>>
  PROVE  /\ \A c \in Campaigns : CampaignOK(c)'
         /\ \A c \in Campaigns : /\ status[c] # "none" => status'[c] # "none"
                                 /\ over'[c] = 0 => over[c] = 0
BY DEF CampaignInv, CampaignOK, Fresh, Settled, Within, setting

LEMMA MovesKeepCampaigns ==
  ASSUME PointsInv, CampaignInv, NEW r \in Requests, Moves(r)
  PROVE  CampaignInv'
<1>1. Alone(r) /\ UNCHANGED setting
  BY MovesAlone
<1>2. /\ pc \in [Requests -> Steps] /\ camp \in [Requests -> Campaigns]
      /\ copy \in [Requests -> Int]
      /\ \A c \in Campaigns : budget[c] \in Int /\ reward[c] \in Int /\ remaining[c] \in Int
      /\ status \in [Campaigns -> {"none", "active", "completed"}]
  BY DEF PointsInv, RequestsOK, SettingOK, CampaignsOK
<1>3. ASSUME UNCHANGED <<status, remaining, paid, over>>, pc'[r] # "pay"
      PROVE  CampaignInv'
  <2>1. Payable(r)'
    BY <1>3 DEF Payable
  <2> QED
    BY <1>1, <1>3, <2>1, CampaignsRest, CampaignsFollow
<1>4. CASE LoadCampaign(r)
  <2>1. CASE CanPay(camp[r])
    <3>1. UNCHANGED <<status, remaining, paid, over, budget, reward>>
      BY <1>1, <1>4 DEF LoadCampaign, stores, campaigns, setting
    <3>2. /\ camp'[r] = camp[r] /\ copy'[r] = remaining[camp[r]]
          /\ status[camp[r]] = "active" /\ reward[camp[r]] <= remaining[camp[r]]
      BY <1>2, <1>4, <2>1 DEF LoadCampaign, CanPay, Goto
    <3>3. CampaignOK(camp[r]) /\ camp[r] \in Campaigns
      BY <1>2 DEF CampaignInv
    <3>4. Payable(r)'
      BY <1>2, <3>1, <3>2, <3>3 DEF Payable, CampaignOK, Settled, Within
    <3> QED
      BY <1>1, <3>1, <3>4, CampaignsRest, CampaignsFollow
  <2>2. CASE ~CanPay(camp[r])
    BY <1>2, <1>3, <1>4, <2>2 DEF LoadCampaign, End, stores, campaigns
  <2> QED
    BY <2>1, <2>2
<1>5. ASSUME \/ \E c \in Campaigns : LoadPublisher(r, c)
             \/ \E c \in Campaigns, u \in Users : LoadParticipation(r, c, u)
             \/ \E u \in Users : LoadWallet(r, u) \/ LoadCoins(r, u)
             \/ LoadWorker(r) \/ Abort(r)
      PROVE  CampaignInv'
  <2>1. pc'[r] # "pay"
    BY <1>2, <1>5 DEF LoadPublisher, LoadParticipation, LoadWallet, LoadCoins, LoadWorker,
       Abort, Begin, Goto, End
  <2>2. Reads(r)
    BY <1>5 DEF Reads
  <2> QED
    BY <1>3, <2>1, <2>2, ReadsLeave DEF stores, campaigns
<1>6. ASSUME \/ SavePublisher(r) \/ SaveWorker(r) \/ SaveParticipation(r)
             \/ \E n \in Amounts : SaveGrant(r, n) \/ SavePost(r, n) \/ SaveCoins(r, n)
      PROVE  CampaignInv'
  <2>1. pc'[r] # "pay"
    BY <1>2, <1>6 DEF SavePublisher, SaveWorker, SaveParticipation, SaveGrant, SavePost,
       SaveOutside, SaveCoins, Goto, End
  <2>2. UNCHANGED <<status, remaining, paid, over>>
    BY <1>6 DEF SavePublisher, SaveWorker, SaveParticipation, SaveGrant, SavePost,
       SaveOutside, SaveCoins, campaigns
  <2> QED
    BY <1>3, <2>1, <2>2
<1>7. CASE SaveCampaign(r)
  <2>1. camp[r] \in Campaigns /\ status[camp[r]] = "none" /\ Open(camp[r]) /\ pc'[r] # "pay"
    BY <1>2, <1>7 DEF SaveCampaign, End
  <2>2. Payable(r)'
    BY <2>1 DEF Payable
  <2> QED
    BY <1>1, <2>1, <2>2, OpenKeeps, CampaignsFollow
<1>8. CASE CommitReward(r) \/ SaveSpending(r)
  <2>1. PICK left \in Int : /\ pc[r] = "pay" /\ Spend(r, left)
                            /\ left = PayOnce(r) \/ left = PayOnce(r) - reward[camp[r]]
    BY <1>2, <1>8 DEF CommitReward, SaveSpending, PayOnce
  <2>2. reward[camp[r]] > 0 => left <= copy[r] - reward[camp[r]]
    BY <1>2, <2>1 DEF PayOnce
  <2>3. Payable(r)'
    BY <1>2, <1>8 DEF Payable, CommitReward, SaveSpending, Goto, End
  <2> QED
    BY <1>1, <2>1, <2>2, <2>3, SpendKeeps, CampaignsFollow
<1> QED
  BY <1>4, <1>5, <1>6, <1>7, <1>8 DEF Moves, Reads

LEMMA StepKeepsCampaigns == PointsInv /\ CampaignInv /\ [Next]_vars => CampaignInv'
<1> SUFFICES ASSUME PointsInv, CampaignInv, [Next]_vars PROVE CampaignInv'
  OBVIOUS
<1>1. CASE UNCHANGED vars
  BY <1>1, CampaignsRest, CampaignsFollow DEF vars, setting, stores, campaigns
<1>2. ASSUME NEW c \in Campaigns, CommitCreate(c) PROVE CampaignInv'
  BY <1>2, OpenKeeps, CampaignsFollow DEF CommitCreate
<1>3. ASSUME NEW c \in Campaigns, NEW u \in Users, StartTask(c, u) PROVE CampaignInv'
  BY <1>3, CampaignsRest, CampaignsFollow DEF StartTask
<1>4. ASSUME NEW w \in Runners, Run(w) PROVE CampaignInv'
  BY <1>4, RunLeaves, CampaignsRest, CampaignsFollow DEF campaigns
<1> QED
  BY <1>1, <1>2, <1>3, <1>4, NextMoves, MovesKeepCampaigns

THEOREM CampaignInvariant == Spec => []CampaignInv
BY InitCampaigns, StepKeepsCampaigns, PointsInvariant, PTL DEF Spec

(* A campaign with a budget and a reward above zero never gives more than  *)
(* its budget, and once more the budget for each reward that overwrote     *)
(* another; one whose rewards never overlap keeps to its budget.           *)
THEOREM BudgetHolds == Spec => []SpendingBounded
<1>1. CampaignInv => SpendingBounded
  BY DEF CampaignInv, CampaignOK, Within, SpendingBounded
<1> QED
  BY <1>1, CampaignInvariant, PTL

(* A campaign that was paid for is completed exactly when it is spent,     *)
(* unless rewards overwrote one another.                                   *)
THEOREM CompletedIffSpent == Spec => []CompletedWhenSpent
<1>1. CampaignInv => CompletedWhenSpent
  BY DEF CampaignInv, CampaignOK, Settled, CompletedWhenSpent
<1> QED
  BY <1>1, CampaignInvariant, PTL

(* Campaigns are opened once, and a reward writes the status it read only  *)
(* to complete it.                                                         *)
LEMMA StepKeepsClosed ==
  ASSUME PointsInv, Next, NEW c \in Campaigns, status[c] = "completed"
  PROVE  status'[c] = "completed"
<1>1. status \in [Campaigns -> {"none", "active", "completed"}]
      /\ \A r \in Requests : camp[r] \in Campaigns
  BY DEF PointsInv, CampaignsOK, RequestsOK
<1>2. ASSUME NEW d \in Campaigns, status[d] = "none", Open(d)
      PROVE  status'[c] = "completed"
  BY <1>1, <1>2 DEF Open
<1>3. ASSUME NEW r \in Requests, NEW left, Spend(r, left)
      PROVE  status'[c] = "completed"
  BY <1>1, <1>3 DEF Spend, StatusAfter
<1>4. CASE \E d \in Campaigns : CommitCreate(d)
  BY <1>2, <1>4 DEF CommitCreate
<1>5. CASE \E d \in Campaigns, u \in Users : StartTask(d, u)
  BY <1>5 DEF StartTask
<1>6. ASSUME NEW r \in Requests, Reads(r) PROVE status'[c] = "completed"
  BY <1>6, ReadsLeave DEF stores, campaigns
<1>7. ASSUME NEW r \in Requests, CommitReward(r) \/ SaveSpending(r)
      PROVE  status'[c] = "completed"
  BY <1>3, <1>7 DEF CommitReward, SaveSpending
<1>8. ASSUME NEW r \in Requests, SaveCampaign(r)
      PROVE  status'[c] = "completed"
  BY <1>1, <1>2, <1>8 DEF SaveCampaign
<1>9. ASSUME NEW r \in Requests,
             \/ SavePublisher(r) \/ SaveWorker(r) \/ SaveParticipation(r)
             \/ \E n \in Amounts : SaveGrant(r, n) \/ SavePost(r, n) \/ SaveCoins(r, n)
      PROVE  status'[c] = "completed"
  BY <1>9 DEF SavePublisher, SaveWorker, SaveParticipation, SaveGrant, SavePost,
              SaveOutside, SaveCoins, campaigns
<1>10. ASSUME NEW w \in Runners, Run(w)
       PROVE  status'[c] = "completed"
  BY <1>10, RunLeaves DEF campaigns
<1> QED
  BY <1>4, <1>5, <1>6, <1>7, <1>8, <1>9, <1>10, NextCases

(* A completed campaign is not opened again. *)
THEOREM CampaignsStayClosed == Spec => ClosedStaysClosed
<1>1. PointsInv /\ [Next]_vars =>
        [\A c \in Campaigns : status[c] = "completed" => status'[c] = "completed"]_vars
  BY StepKeepsClosed
<1> QED
  BY <1>1, PointsInvariant, PTL DEF Spec, ClosedStaysClosed

-----------------------------------------------------------------------------
(* Coins and their records.  A runner between its save and its record owes *)
(* the record; what it copied of the coins was covered when it read them,  *)
(* and cover never shrinks, because a record pays what its runner owed.    *)
Owing(u) == {w \in Runners : job[w] = "record" /\ at[w] = u}
OwedTo(u) == SumFunctionOnSet(copyP, Owing(u))
Covered(n, u) == n <= records[u] + OwedTo(u)
ConversionInv ==
  /\ \A u \in Users : /\ IsFiniteSet(Owing(u))
                      /\ u \notin shoppers => Covered(coins[u], u)
                      /\ u \notin raced => coins[u] + spent[u] = records[u] + OwedTo(u)
  /\ \A w \in Runners :
       job[w] = "save" /\ at[w] \notin shoppers => Covered(copyC[w], at[w])

LEMMA InitConversions == Init => ConversionInv
<1> SUFFICES ASSUME Init PROVE ConversionInv
  OBVIOUS
<1>1. ASSUME NEW u \in Users
      PROVE  /\ IsFiniteSet(Owing(u)) /\ OwedTo(u) = 0
             /\ coins[u] = 0 /\ records[u] = 0 /\ spent[u] = 0
  <2>1. Owing(u) = {}
    BY DEF Init, Owing
  <2> QED
    BY <2>1, SumEmpty, FS_EmptySet DEF Init, OwedTo
<1>2. \A w \in Runners : job[w] # "save"
  BY DEF Init
<1> QED
  BY <1>1, <1>2 DEF ConversionInv, Covered

LEMMA OwedTyped ==
  ASSUME PointsInv, ConversionInv, NEW u \in Users
  PROVE  /\ IsFiniteSet(Owing(u)) /\ OwedTo(u) \in Nat /\ records[u] \in Nat
         /\ coins[u] \in Int /\ spent[u] \in Int /\ \A w \in Owing(u) : copyP[w] \in Int
<1>1. \A w \in Owing(u) : copyP[w] \in Nat
  BY DEF PointsInv, RunsOK, Owing
<1>2. IsFiniteSet(Owing(u))
  BY DEF ConversionInv
<1>3. OwedTo(u) \in Nat
  BY <1>1, <1>2, SumClosed DEF OwedTo
<1> QED
  BY <1>1, <1>2, <1>3 DEF PointsInv, StoresOK

(* A step that leaves the debts as they are. *)
LEMMA SameOwed ==
  ASSUME PointsInv, ConversionInv, NEW u \in Users,
         Owing(u)' = Owing(u), \A w \in Owing(u) : copyP'[w] = copyP[w]
  PROVE  OwedTo(u)' = OwedTo(u) /\ IsFiniteSet(Owing(u)')
<1>1. IsFiniteSet(Owing(u))
  BY DEF ConversionInv
<1>2. SumFunctionOnSet(copyP', Owing(u)) = SumFunctionOnSet(copyP, Owing(u))
  BY <1>1, SumSame
<1> QED
  BY <1>1, <1>2 DEF OwedTo

(* A step that touches neither coins nor records nor the debts, and lets   *)
(* no runner but w begin a save.                                           *)
LEMMA QuietKeeps ==
  ASSUME PointsInv, ConversionInv, UNCHANGED <<coins, records, spent>>,
         raced \subseteq raced', shoppers \subseteq shoppers',
         \A u \in Users : Owing(u)' = Owing(u) /\ \A x \in Owing(u) : copyP'[x] = copyP[x],
         \A x \in Runners : job'[x] = "save" =>
           /\ at'[x] \in Users
           /\ \/ job[x] = "save" /\ copyC'[x] = copyC[x] /\ at'[x] = at[x]
              \/ copyC'[x] = coins[at'[x]]
  PROVE  ConversionInv'
<1>1. \A u \in Users : OwedTo(u)' = OwedTo(u) /\ IsFiniteSet(Owing(u)')
  BY SameOwed
<1>2. \A u \in Users : u \notin shoppers => Covered(coins[u], u)
  BY DEF ConversionInv
<1>3. ASSUME NEW x \in Runners, job'[x] = "save", at'[x] \notin shoppers'
      PROVE  Covered(copyC[x], at[x])'
  <2>1. at'[x] \in Users /\ Covered(copyC'[x], at'[x])
    BY <1>2, <1>3 DEF ConversionInv
  <2> QED
    BY <1>1, <2>1 DEF Covered
<1>4. \A u \in Users : u \notin shoppers' => Covered(coins[u], u)'
  BY <1>1, <1>2 DEF Covered
<1>5. \A u \in Users : u \notin raced' => coins'[u] + spent'[u] = records'[u] + OwedTo(u)'
  BY <1>1 DEF ConversionInv
<1> QED
  BY <1>1, <1>3, <1>4, <1>5 DEF ConversionInv

(* Requests leave the conversion alone, checkouts apart. *)
LEMMA RequestsQuiet ==
  ASSUME PointsInv, ConversionInv,
         \/ \E c \in Campaigns : CommitCreate(c)
         \/ \E c \in Campaigns, u \in Users : StartTask(c, u)
         \/ \E r \in Requests : Moves(r) /\ ~\E n \in Amounts : SaveCoins(r, n)
  PROVE  ConversionInv'
<1> DEFINE Quiet == /\ UNCHANGED <<coins, records, spent, shoppers>>
                    /\ UNCHANGED runs /\ raced \subseteq raced'
<1>1. Quiet
  <2>1. ASSUME NEW c \in Campaigns, CommitCreate(c) PROVE Quiet
    BY <2>1 DEF CommitCreate, conversions, outlay
  <2>2. ASSUME NEW c \in Campaigns, NEW u \in Users, StartTask(c, u) PROVE Quiet
    BY <2>2 DEF StartTask, conversions, outlay
  <2>3. ASSUME NEW r \in Requests, Moves(r), ~\E n \in Amounts : SaveCoins(r, n)
        PROVE  Quiet
    <3>1. UNCHANGED runs
      BY <2>3, MovesAlone
    <3>2. CASE Reads(r)
      BY <3>1, <3>2, ReadsLeave DEF stores, conversions, outlay
    <3>3. CASE CommitReward(r) \/ SaveSpending(r)
      BY <3>1, <3>3 DEF CommitReward, SaveSpending, conversions
    <3>4. CASE \/ SavePublisher(r) \/ SaveCampaign(r) \/ SaveWorker(r) \/ SaveParticipation(r)
      BY <3>1, <3>4 DEF SavePublisher, SaveCampaign, SaveWorker, SaveParticipation,
         MarkRaced, conversions, outlay
    <3>5. CASE \E n \in Amounts : SaveGrant(r, n) \/ SavePost(r, n)
      BY <3>1, <3>5 DEF SaveGrant, SavePost, SaveOutside, MarkRaced, conversions
    <3> QED
      BY <2>3, <3>2, <3>3, <3>4, <3>5 DEF Moves
  <2> QED
    BY <2>1, <2>2, <2>3
<1>2. \A u \in Users : Owing(u)' = Owing(u) /\ \A x \in Owing(u) : copyP'[x] = copyP[x]
  BY <1>1 DEF runs, Owing
<1>3. \A x \in Runners : job'[x] = "save" =>
        at'[x] \in Users /\ job[x] = "save" /\ copyC'[x] = copyC[x] /\ at'[x] = at[x]
  BY <1>1 DEF runs, PointsInv, RunsOK
<1> QED
  BY <1>1, <1>2, <1>3, QuietKeeps

(* What a checkout takes from the coins is what it spent. *)
LEMMA SaveCoinsKeeps ==
  ASSUME PointsInv, ConversionInv, NEW r \in Requests, NEW n \in Amounts, SaveCoins(r, n)
  PROVE  ConversionInv'
<1>1. /\ user[r] \in Users /\ copy[r] \in Int /\ n \in Int
      /\ coins \in [Users -> Int] /\ spent \in [Users -> Int]
  BY PointsAssumption DEF PointsInv, RequestsOK, StoresOK
<1>2. /\ coins' = [coins EXCEPT ![user[r]] = copy[r] - n]
      /\ spent' = [spent EXCEPT ![user[r]] = @ + n]
      /\ shoppers' = shoppers \cup {user[r]} /\ raced \subseteq raced'
      /\ user[r] \notin raced' => copy[r] = coins[user[r]]
      /\ UNCHANGED <<records, job, at, copyP, copyC>>
  BY DEF SaveCoins, MarkRaced, conversions, End, runs
<1>3. \A u \in Users : Owing(u)' = Owing(u) /\ \A x \in Owing(u) : copyP'[x] = copyP[x]
  BY <1>2 DEF Owing
<1>4. \A u \in Users : OwedTo(u)' = OwedTo(u) /\ IsFiniteSet(Owing(u)')
  BY <1>3, SameOwed
<1>5. ASSUME NEW u \in Users
      PROVE  /\ u \notin shoppers' => Covered(coins[u], u)'
             /\ u \notin raced' => coins'[u] + spent'[u] = records'[u] + OwedTo(u)'
  <2>1. /\ u \notin shoppers => Covered(coins[u], u)
        /\ u \notin raced => coins[u] + spent[u] = records[u] + OwedTo(u)
    BY DEF ConversionInv
  <2>2. CASE u = user[r]
    <3>1. /\ u \notin raced' => coins'[u] = coins[u] - n
          /\ spent'[u] = spent[u] + n /\ coins[u] \in Int /\ spent[u] \in Int
      BY <1>1, <1>2, <2>2
    <3>2. u \in shoppers'
      BY <1>2, <2>2
    <3>3. ASSUME u \notin raced' PROVE coins'[u] + spent'[u] = coins[u] + spent[u]
      BY <1>1, <3>1, <3>3
    <3> QED
      BY <1>2, <1>4, <2>1, <3>2, <3>3
  <2>3. CASE u # user[r]
    <3>1. coins'[u] = coins[u] /\ spent'[u] = spent[u]
      BY <1>1, <1>2, <2>3
    <3> QED
      BY <1>2, <1>4, <2>1, <3>1 DEF Covered
  <2> QED
    BY <2>2, <2>3
<1>6. ASSUME NEW x \in Runners, job'[x] = "save", at'[x] \notin shoppers'
      PROVE  Covered(copyC[x], at[x])'
  <2>1. at[x] \in Users /\ Covered(copyC[x], at[x])
    BY <1>2, <1>6 DEF ConversionInv, PointsInv, RunsOK
  <2> QED
    BY <1>2, <1>4, <2>1 DEF Covered
<1> QED
  BY <1>4, <1>5, <1>6 DEF ConversionInv

(* The steps of a run that neither save nor record. *)
LEMMA RunQuiet ==
  ASSUME PointsInv, ConversionInv, NEW w \in Runners,
         \/ StartRun(w) \/ FinishRun(w) \/ FailRun(w)
         \/ \E u \in Users : PassOver(w, u) \/ LoadConversion(w, u)
  PROVE  ConversionInv'
<1>1. job \in [Runners -> {"idle", "next", "save", "record", "done"}]
      /\ at \in [Runners -> Users] /\ copyP \in [Runners -> Nat]
      /\ copyC \in [Runners -> Int]
  BY DEF PointsInv, RunsOK
<1>2. CASE StartRun(w) \/ FinishRun(w) \/ FailRun(w) \/ \E u \in Users : PassOver(w, u)
  <2>1. UNCHANGED <<coins, records, spent, shoppers, raced, at, copyP, copyC>>
        /\ \A x \in Runners : /\ job'[x] = "save" <=> job[x] = "save"
                              /\ job'[x] = "record" <=> job[x] = "record"
    BY <1>1, <1>2 DEF StartRun, FinishRun, FailRun, PassOver, stores, conversions, outlay
  <2>2. \A u \in Users : Owing(u)' = Owing(u) /\ \A x \in Owing(u) : copyP'[x] = copyP[x]
    BY <2>1 DEF Owing
  <2> QED
    BY <1>1, <2>1, <2>2, QuietKeeps
<1>3. ASSUME NEW u \in Users, LoadConversion(w, u) PROVE ConversionInv'
  <2>1. /\ UNCHANGED <<coins, records, spent, shoppers, raced>> /\ job[w] = "next"
        /\ job' = [job EXCEPT ![w] = "save"] /\ at' = [at EXCEPT ![w] = u]
        /\ copyP' = [copyP EXCEPT ![w] = points[u]]
        /\ copyC' = [copyC EXCEPT ![w] = coins[u]]
    BY <1>3 DEF LoadConversion, stores, conversions, outlay
  <2>2. \A v \in Users : Owing(v)' = Owing(v) /\ \A x \in Owing(v) : copyP'[x] = copyP[x]
    BY <1>1, <2>1 DEF Owing
  <2>3. \A x \in Runners : job'[x] = "save" =>
          /\ at'[x] \in Users
          /\ \/ job[x] = "save" /\ copyC'[x] = copyC[x] /\ at'[x] = at[x]
             \/ copyC'[x] = coins[at'[x]]
    BY <1>1, <2>1
  <2> QED
    BY <2>1, <2>2, <2>3, QuietKeeps
<1> QED
  BY <1>2, <1>3

(* A conversion that saves owes its record and covers the coins it added. *)
LEMMA SaveConversionKeeps ==
  ASSUME PointsInv, ConversionInv, NEW w \in Runners, SaveConversion(w)
  PROVE  ConversionInv'
<1>1. /\ job \in [Runners -> {"idle", "next", "save", "record", "done"}]
      /\ at[w] \in Users /\ copyP[w] \in Nat /\ copyC[w] \in Int
      /\ coins \in [Users -> Int] /\ records \in [Users -> Nat]
      /\ \A x \in Runners : at[x] \in Users /\ copyC[x] \in Int
  BY DEF PointsInv, RunsOK, StoresOK
<1>2. /\ job[w] = "save" /\ job' = [job EXCEPT ![w] = "record"]
      /\ coins' = [coins EXCEPT ![at[w]] = copyC[w] + copyP[w]]
      /\ UNCHANGED <<records, spent, shoppers, at, copyP, copyC>>
      /\ raced \subseteq raced'
      /\ at[w] \notin raced' => copyC[w] = coins[at[w]]
  BY DEF SaveConversion, MarkRaced, conversions, outlay
<1>3. ASSUME NEW u \in Users, u # at[w]
      PROVE  OwedTo(u)' = OwedTo(u) /\ IsFiniteSet(Owing(u)') /\ coins'[u] = coins[u]
  <2>1. Owing(u)' = Owing(u)
    BY <1>1, <1>2, <1>3 DEF Owing
  <2> QED
    BY <1>1, <1>2, <1>3, <2>1, SameOwed
<1>4. IsFiniteSet(Owing(at[w])') /\ OwedTo(at[w])' = OwedTo(at[w]) + copyP[w]
  <2>1. Owing(at[w])' = Owing(at[w]) \cup {w} /\ w \notin Owing(at[w])
    BY <1>1, <1>2 DEF Owing
  <2>2. IsFiniteSet(Owing(at[w])) /\ \A x \in Owing(at[w]) : copyP[x] \in Int
    BY <1>1, OwedTyped
  <2> QED
    BY <1>1, <1>2, <2>1, <2>2, SumAdd, FS_AddElement DEF OwedTo
<1>5. \A u \in Users : OwedTo(u) \in Nat /\ OwedTo(u)' \in Nat /\ OwedTo(u)' >= OwedTo(u)
                       /\ records[u] \in Nat
  <2> SUFFICES ASSUME NEW u \in Users
               PROVE  /\ OwedTo(u) \in Nat /\ OwedTo(u)' \in Nat
                      /\ OwedTo(u)' >= OwedTo(u) /\ records[u] \in Nat
    OBVIOUS
  <2>1. OwedTo(u) \in Nat /\ records[u] \in Nat
    BY OwedTyped
  <2>2. OwedTo(u)' = OwedTo(u) \/ OwedTo(u)' = OwedTo(u) + copyP[w]
    BY <1>2, <1>3, <1>4
  <2> QED
    BY <1>1, <2>1, <2>2
<1>6. \A x \in Runners :
        job'[x] = "save" /\ at'[x] \notin shoppers' => Covered(copyC[x], at[x])'
  <2> SUFFICES ASSUME NEW x \in Runners, job'[x] = "save", at'[x] \notin shoppers'
               PROVE  copyC'[x] <= records'[at'[x]] + OwedTo(at[x])'
    BY <1>2 DEF Covered
  <2>1. job[x] = "save" /\ copyC[x] <= records[at[x]] + OwedTo(at[x])
    BY <1>1, <1>2 DEF ConversionInv, Covered
  <2>2. at[x] \in Users /\ copyC[x] \in Int
    BY <1>1
  <2> QED
    BY <1>2, <1>5, <2>1, <2>2
<1>7. ASSUME NEW u \in Users
      PROVE  /\ IsFiniteSet(Owing(u)')
             /\ u \notin shoppers' => Covered(coins[u], u)'
             /\ u \notin raced' => coins'[u] + spent'[u] = records'[u] + OwedTo(u)'
  <2>1. /\ u \notin shoppers => coins[u] <= records[u] + OwedTo(u)
        /\ u \notin raced => coins[u] + spent[u] = records[u] + OwedTo(u)
    BY DEF ConversionInv, Covered
  <2>2. CASE u # at[w]
    BY <1>2, <1>3, <2>1, <2>2 DEF Covered
  <2>3. CASE u = at[w]
    <3>1. /\ coins'[u] = copyC[w] + copyP[w]
          /\ u \notin shoppers => copyC[w] <= records[u] + OwedTo(u)
      BY <1>1, <1>2, <2>3 DEF ConversionInv, Covered
    <3>2. /\ IsFiniteSet(Owing(u)') /\ OwedTo(u)' = OwedTo(u) + copyP[w]
          /\ records'[u] = records[u] /\ OwedTo(u) \in Nat /\ records[u] \in Nat
          /\ spent'[u] = spent[u] /\ spent[u] \in Int /\ coins[u] \in Int
      BY <1>1, <1>2, <1>4, <1>5, <2>3, OwedTyped
    <3>3. u \notin shoppers' => coins'[u] <= records'[u] + OwedTo(u)'
      BY <1>1, <1>2, <3>1, <3>2
    <3>4. u \notin raced' => coins'[u] + spent'[u] = records'[u] + OwedTo(u)'
      BY <1>1, <1>2, <2>1, <2>3, <3>1, <3>2
    <3> QED
      BY <3>2, <3>3, <3>4 DEF Covered
  <2> QED
    BY <2>2, <2>3
<1> QED
  BY <1>6, <1>7 DEF ConversionInv

(* A record pays what its runner owed. *)
LEMMA RecordConversionKeeps ==
  ASSUME PointsInv, ConversionInv, NEW w \in Runners, RecordConversion(w)
  PROVE  ConversionInv'
<1>1. /\ job \in [Runners -> {"idle", "next", "save", "record", "done"}]
      /\ at \in [Runners -> Users] /\ copyP \in [Runners -> Nat]
      /\ copyC \in [Runners -> Int]
      /\ coins \in [Users -> Int] /\ records \in [Users -> Nat]
  BY DEF PointsInv, RunsOK, StoresOK
<1>2. /\ job[w] = "record" /\ job' = [job EXCEPT ![w] = "next"]
      /\ records' = [records EXCEPT ![at[w]] = @ + copyP[w]]
      /\ UNCHANGED <<coins, spent, shoppers, raced>>
      /\ \A x \in Runners \ {w} : /\ at'[x] = at[x] /\ copyP'[x] = copyP[x]
                                  /\ copyC'[x] = copyC[x]
  BY <1>1 DEF RecordConversion, Converted, Forget, outlay
<1>3. ASSUME NEW u \in Users
      PROVE  /\ IsFiniteSet(Owing(u)') /\ records[u] \in Nat /\ OwedTo(u) \in Nat
             /\ records'[u] + OwedTo(u)' = records[u] + OwedTo(u)
  <2>1. CASE u # at[w]
    <3>1. Owing(u)' = Owing(u) /\ \A x \in Owing(u) : copyP'[x] = copyP[x]
      BY <1>1, <1>2, <2>1 DEF Owing
    <3>2. records'[u] = records[u]
      BY <1>1, <1>2, <2>1
    <3> QED
      BY <3>1, <3>2, SameOwed, OwedTyped
  <2>2. CASE u = at[w]
    <3>1. Owing(u)' = Owing(u) \ {w} /\ w \in Owing(u)
      BY <1>1, <1>2, <2>2 DEF Owing
    <3>2. IsFiniteSet(Owing(u)) /\ \A x \in Owing(u) : copyP[x] \in Int
      BY OwedTyped
    <3>3. IsFiniteSet(Owing(u) \ {w})
      BY <3>2, FS_RemoveElement
    <3>4. OwedTo(u) = SumFunctionOnSet(copyP, Owing(u) \ {w}) + copyP[w]
      BY <3>1, <3>2, SumSplit DEF OwedTo
    <3>5. SumFunctionOnSet(copyP, Owing(u) \ {w}) = SumFunctionOnSet(copyP', Owing(u) \ {w})
      <4>1. \A x \in Owing(u) \ {w} : copyP[x] = copyP'[x]
        BY <1>2 DEF Owing
      <4> QED
        BY <3>3, <4>1, SumSame
    <3>6. OwedTo(u)' = SumFunctionOnSet(copyP', Owing(u) \ {w})
      BY <3>1 DEF OwedTo
    <3>7. SumFunctionOnSet(copyP, Owing(u) \ {w}) \in Int
      BY <3>2, <3>3, SumClosed
    <3>8. records'[u] = records[u] + copyP[w] /\ copyP[w] \in Nat
      BY <1>1, <1>2, <2>2
    <3>9. records[u] \in Nat /\ OwedTo(u) \in Nat
      BY OwedTyped
    <3> QED
      BY <3>1, <3>3, <3>4, <3>5, <3>6, <3>7, <3>8, <3>9
  <2> QED
    BY <2>1, <2>2
<1>4. \A u \in Users : \A n : Covered(n, u) => n <= records'[u] + OwedTo(u)'
  BY <1>3 DEF Covered
<1>5. \A x \in Runners :
        job'[x] = "save" /\ at'[x] \notin shoppers' => Covered(copyC[x], at[x])'
  <2> SUFFICES ASSUME NEW x \in Runners, job'[x] = "save", at'[x] \notin shoppers'
               PROVE  Covered(copyC[x], at[x])'
    OBVIOUS
  <2>1. x # w /\ job[x] = "save" /\ at[x] \in Users
    BY <1>1, <1>2
  <2>2. at'[x] = at[x] /\ copyC'[x] = copyC[x]
    BY <1>2, <2>1
  <2>3. Covered(copyC[x], at[x])
    BY <1>2, <2>1, <2>2 DEF ConversionInv
  <2>4. copyC[x] <= records'[at[x]] + OwedTo(at[x])'
    BY <1>4, <2>1, <2>2, <2>3
  <2> QED
    BY <2>2, <2>4 DEF Covered
<1>6. \A u \in Users :
        /\ u \notin shoppers' => Covered(coins[u], u)'
        /\ u \notin raced' => coins'[u] + spent'[u] = records'[u] + OwedTo(u)'
  BY <1>2, <1>3, <1>4 DEF ConversionInv, Covered
<1> QED
  BY <1>3, <1>5, <1>6 DEF ConversionInv

(* A transaction converts and records at once. *)
LEMMA CommitConversionKeeps ==
  ASSUME PointsInv, ConversionInv, NEW w \in Runners, NEW v \in Users,
         CommitConversion(w, v)
  PROVE  ConversionInv'
<1>1. /\ coins \in [Users -> Int] /\ records \in [Users -> Nat] /\ points[v] \in Nat
      /\ spent \in [Users -> Int]
      /\ \A x \in Runners : at[x] \in Users /\ copyC[x] \in Int
  BY DEF PointsInv, RunsOK, StoresOK, CommitConversion
<1>2. /\ coins' = [coins EXCEPT ![v] = @ + points[v]]
      /\ records' = [records EXCEPT ![v] = @ + points[v]]
      /\ UNCHANGED <<spent, shoppers, raced, job, at, copyP, copyC>>
  BY DEF CommitConversion, outlay
<1>3. \A u \in Users : /\ OwedTo(u)' = OwedTo(u) /\ IsFiniteSet(Owing(u)')
                       /\ OwedTo(u) \in Nat /\ records[u] \in Nat
  <2>1. \A u \in Users : Owing(u)' = Owing(u)
    BY <1>2 DEF Owing
  <2> QED
    BY <1>2, <2>1, SameOwed, OwedTyped
<1>4. ASSUME NEW u \in Users
      PROVE  /\ u \notin shoppers' => Covered(coins[u], u)'
             /\ u \notin raced' => coins'[u] + spent'[u] = records'[u] + OwedTo(u)'
  <2>1. /\ u \notin shoppers => coins[u] <= records[u] + OwedTo(u)
        /\ u \notin raced => coins[u] + spent[u] = records[u] + OwedTo(u)
    BY DEF ConversionInv, Covered
  <2>2. \E d \in Nat : coins'[u] = coins[u] + d /\ records'[u] = records[u] + d
    <3>1. CASE u = v
      BY <1>1, <1>2, <3>1
    <3>2. CASE u # v
      <4>1. coins'[u] = coins[u] + 0 /\ records'[u] = records[u] + 0
        BY <1>1, <1>2, <3>2
      <4> QED
        BY <4>1
    <3> QED
      BY <3>1, <3>2
  <2>3. coins[u] \in Int /\ spent[u] \in Int /\ spent'[u] = spent[u]
    BY <1>1, <1>2
  <2> QED
    BY <1>2, <1>3, <2>1, <2>2, <2>3 DEF Covered
<1>5. \A x \in Runners :
        job'[x] = "save" /\ at'[x] \notin shoppers' => Covered(copyC[x], at[x])'
  <2> SUFFICES ASSUME NEW x \in Runners, job[x] = "save", at[x] \notin shoppers
               PROVE  copyC[x] <= records'[at[x]] + OwedTo(at[x])'
    BY <1>2 DEF Covered, OwedTo, Owing
  <2>1. copyC[x] <= records[at[x]] + OwedTo(at[x]) /\ at[x] \in Users /\ copyC[x] \in Int
    BY <1>1 DEF ConversionInv, Covered
  <2>2. records'[at[x]] \in Nat /\ records'[at[x]] >= records[at[x]]
    BY <1>1, <1>2, <2>1
  <2> QED
    BY <1>2, <1>3, <2>1, <2>2
<1> QED
  BY <1>3, <1>4, <1>5 DEF ConversionInv

LEMMA StepKeepsConversions ==
  PointsInv /\ ConversionInv /\ [Next]_vars => ConversionInv'
<1> SUFFICES ASSUME PointsInv, ConversionInv, [Next]_vars PROVE ConversionInv'
  OBVIOUS
<1>1. CASE UNCHANGED vars
  BY <1>1 DEF vars, stores, conversions, outlay, runs, ConversionInv, Covered, OwedTo, Owing
<1>2. ASSUME NEW w \in Runners, Run(w) PROVE ConversionInv'
  BY <1>2, RunQuiet, SaveConversionKeeps, RecordConversionKeeps, CommitConversionKeeps
     DEF Run
<1>3. ASSUME NEW r \in Requests, Moves(r) PROVE ConversionInv'
  BY <1>3, RequestsQuiet, SaveCoinsKeeps
<1>4. CASE Next
  BY <1>2, <1>3, <1>4, NextMoves, RequestsQuiet
<1> QED
  BY <1>1, <1>4

(* Coins come from conversions on record: with those spent at checkouts    *)
(* they are what the records say when no save of the wallet overwrote      *)
(* another, and never more than the records where no checkout took part.   *)
THEOREM CoinsOnRecord == Spec => []CoinsMatchRecords
<1>1. PointsInv /\ ConversionInv => CoinsMatchRecords
  <2> SUFFICES ASSUME PointsInv, ConversionInv, NEW u \in Users,
                      \A w \in Runners : ~(job[w] = "record" /\ at[w] = u)
               PROVE  /\ u \notin shoppers => coins[u] <= records[u]
                      /\ u \notin raced => coins[u] + spent[u] = records[u]
    BY DEF CoinsMatchRecords
  <2>1. Owing(u) = {}
    BY DEF Owing
  <2>2. OwedTo(u) = 0
    BY <2>1, SumEmpty DEF OwedTo
  <2>3. records[u] \in Nat /\ coins[u] \in Int /\ spent[u] \in Int
    BY OwedTyped
  <2> QED
    BY <2>2, <2>3 DEF ConversionInv, Covered
<1>2. Spec => []ConversionInv
  BY InitConversions, StepKeepsConversions, PointsInvariant, PTL DEF Spec
<1> QED
  BY <1>1, <1>2, PointsInvariant, PTL


-----------------------------------------------------------------------------
(* Conservation.  With transactions nothing is ever half saved. *)
Whole ==
  replicaSet =>
    /\ \A r \in Requests : pc[r] \notin {"charge", "open", "wallet", "credit", "mark"}
    /\ \A w \in Runners : job[w] \notin {"save", "record"}

LEMMA InitWhole == Init => Whole
BY DEF Init, Whole

LEMMA MovesKeepWhole ==
  ASSUME PointsInv, CampaignInv, Whole, NEW r \in Requests, Moves(r)
  PROVE  Whole'
<1>1. Alone(r) /\ UNCHANGED <<setting, runs>>
  BY MovesAlone
<1>2. CampaignInv'
  BY MovesKeepCampaigns
<1>3. pc \in [Requests -> Steps]
  BY DEF PointsInv, RequestsOK
<1>4. replicaSet => pc'[r] \notin {"charge", "open", "wallet", "credit", "mark"}
  <2> SUFFICES ASSUME replicaSet
               PROVE  pc'[r] \notin {"charge", "open", "wallet", "credit", "mark"}
    OBVIOUS
  <2>1. pc[r] \notin {"charge", "open", "wallet", "credit", "mark"}
    BY DEF Whole
  <2>2. CASE Reads(r)
    BY <1>3, <2>1, <2>2 DEF Reads, LoadPublisher, LoadParticipation, LoadWallet, LoadCoins,
       LoadCampaign, LoadWorker, Abort, Begin, Goto, End
  <2>3. CASE ~Reads(r)
    BY <1>3, <2>1, <2>3, MovesAlone DEF Moves, CommitReward, SaveSpending, SavePublisher,
       SaveCampaign, SaveWorker, SaveParticipation, SaveGrant, SavePost, SaveOutside,
       SaveCoins, End
  <2> QED
    BY <2>2, <2>3
<1>5. replicaSet' = replicaSet /\ UNCHANGED job
  BY <1>1 DEF setting, runs
<1> QED
  BY <1>1, <1>4, <1>5 DEF Whole, Alone

LEMMA StepKeepsWhole ==
  PointsInv /\ CampaignInv /\ Whole /\ [Next]_vars => Whole'
<1> SUFFICES ASSUME PointsInv, CampaignInv, Whole, [Next]_vars PROVE Whole'
  OBVIOUS
<1>1. CASE UNCHANGED vars
  BY <1>1 DEF vars, setting, requests, runs, Whole
<1>2. ASSUME NEW c \in Campaigns, CommitCreate(c) PROVE Whole'
  BY <1>2 DEF CommitCreate, Whole, setting, requests, runs
<1>3. ASSUME NEW c \in Campaigns, NEW u \in Users, StartTask(c, u) PROVE Whole'
  BY <1>3 DEF StartTask, Whole, setting, requests, runs
<1>4. ASSUME NEW w \in Runners, Run(w) PROVE Whole'
  <2>1. UNCHANGED <<replicaSet, pc>>
    BY <1>4, RunLeaves DEF setting, requests
  <2>2. replicaSet => \A x \in Runners : job'[x] \notin {"save", "record"}
    <3>1. job \in [Runners -> {"idle", "next", "save", "record", "done"}]
      BY DEF PointsInv, RunsOK
    <3> QED
      BY <1>4, <3>1 DEF Whole, Run, StartRun, SaveConversion, RecordConversion,
         FinishRun, FailRun, CommitConversion, PassOver, LoadConversion
  <2> QED
    BY <2>1, <2>2 DEF Whole
<1> QED
  BY <1>1, <1>2, <1>3, <1>4, NextMoves, MovesKeepWhole

(* The value of e changes by d. *)
Adds(f, g, S, e, d) ==
  /\ f \in [S -> Int] /\ g \in [S -> Int] /\ e \in S /\ d \in Int
  /\ g[e] = f[e] + d /\ \A x \in S \ {e} : f[x] = g[x]

LEMMA SumAdds ==
  ASSUME NEW S \in {Users, Campaigns}, NEW f, NEW g, NEW e, NEW d, Adds(f, g, S, e, d)
  PROVE  SumOf(g) = SumOf(f) + d /\ SumOf(f) \in Int
<1>1. IsFiniteSet(S) /\ DOMAIN f = S /\ DOMAIN g = S /\ e \in S
      /\ f[e] \in Int /\ d \in Int /\ g[e] \in Int /\ g[e] = f[e] + d
  BY PointsAssumption DEF Adds
<1>2. \A x \in S : f[x] \in Int
  BY DEF Adds
<1>3. SumFunctionOnSet(g, S) = SumFunctionOnSet(f, S) + g[e] - f[e]
  BY <1>1, <1>2, SumUpdate DEF Adds
<1>4. SumFunctionOnSet(f, S) \in Int
  BY <1>1, <1>2, SumClosed
<1> QED
  BY <1>1, <1>3, <1>4 DEF SumOf

Total == SumOf(points) + SumOf(coins) + SumOf(spent) + SumOf(remaining)

SumsOK ==
  /\ SumOf(points) \in Int /\ SumOf(coins) \in Int
  /\ SumOf(spent) \in Int /\ SumOf(remaining) \in Int
  /\ outside \in Int /\ SumOf(GenPoints) \in Int

LEMMA SumsTyped == StoresOK /\ CampaignsOK => SumsOK
<1> SUFFICES ASSUME StoresOK, CampaignsOK PROVE SumsOK
  OBVIOUS
<1>1. PICK u \in Users, c \in Campaigns : TRUE
  BY PointsAssumption
<1>2. /\ points \in [Users -> Int] /\ coins \in [Users -> Int] /\ spent \in [Users -> Int]
      /\ GenPoints \in [Users -> Int] /\ remaining \in [Campaigns -> Int]
      /\ outside \in Int
  BY PointsAssumption DEF StoresOK, CampaignsOK
<1>3. ASSUME NEW S \in {Users, Campaigns}, NEW f \in [S -> Int], NEW e \in S
      PROVE  SumOf(f) \in Int
  <2>1. Adds(f, f, S, e, 0)
    BY <1>3 DEF Adds
  <2> QED
    BY <2>1, SumAdds
<1>4. SumOf(points) \in Int /\ SumOf(coins) \in Int
  BY <1>1, <1>2, <1>3
<1>5. SumOf(spent) \in Int /\ SumOf(GenPoints) \in Int
  BY <1>1, <1>2, <1>3
<1>6. SumOf(remaining) \in Int
  BY <1>1, <1>2, <1>3
<1> QED
  BY <1>2, <1>4, <1>5, <1>6 DEF SumsOK

(* With transactions, no race and no reward that overwrites another, a     *)
(* step moves points, brings some from outside, or leaves them.            *)
Undisturbed == raced = {} /\ \A c \in Campaigns : over[c] = 0
Conserves == Undisturbed /\ Total' - Total = outside' - outside

(* Four sums that move by d1 .. d4, which make up what came from outside. *)
LEMMA Balanced ==
  ASSUME SumsOK, Undisturbed, NEW d1 \in Int, NEW d2 \in Int, NEW d3 \in Int, NEW d4 \in Int,
         SumOf(points') = SumOf(points) + d1, SumOf(coins') = SumOf(coins) + d2,
         SumOf(spent') = SumOf(spent) + d3, SumOf(remaining') = SumOf(remaining) + d4,
         outside' = outside + (d1 + d2 + d3 + d4)
  PROVE  Conserves
<1> DEFINE p == SumOf(points)
           c == SumOf(coins)
           s == SumOf(spent)
           m == SumOf(remaining)
<1>1. /\ p \in Int /\ c \in Int /\ s \in Int /\ m \in Int /\ outside \in Int
      /\ Total = p + c + s + m
      /\ Total' = (p + d1) + (c + d2) + (s + d3) + (m + d4)
  BY DEF SumsOK, Total, SumOf
<1> HIDE DEF p, c, s, m
<1>2. Total' - Total = d1 + d2 + d3 + d4 /\ outside' - outside = d1 + d2 + d3 + d4
  BY <1>1
<1> QED
  BY <1>2 DEF Conserves

LEMMA StepConserves ==
  ASSUME PointsInv, CampaignInv, Whole, Next, replicaSet, Undisturbed'
  PROVE  Conserves
<1>1. /\ points \in [Users -> Int] /\ coins \in [Users -> Int] /\ spent \in [Users -> Int]
      /\ remaining \in [Campaigns -> Int] /\ outside \in Int
      /\ over \in [Campaigns -> Nat] /\ Amounts \subseteq Int
      /\ \A c \in Campaigns : budget[c] \in Int /\ reward[c] \in Int /\ Publisher[c] \in Users
      /\ \A r \in Requests : camp[r] \in Campaigns /\ user[r] \in Users /\ copy[r] \in Int
  BY PointsAssumption DEF PointsInv, SettingOK, CampaignsOK, StoresOK, RequestsOK
<1>2. SumsOK
  BY SumsTyped DEF PointsInv
<1> DEFINE pSame == SumOf(points') = SumOf(points) + 0
           cSame == SumOf(coins') = SumOf(coins) + 0
           sSame == SumOf(spent') = SumOf(spent) + 0
           mSame == SumOf(remaining') = SumOf(remaining) + 0
<1>3. /\ UNCHANGED points => pSame
      /\ UNCHANGED coins => cSame
      /\ UNCHANGED spent => sSame
      /\ UNCHANGED remaining => mSame
  BY <1>2 DEF SumsOK
<1> HIDE DEF pSame, cSame, sSame, mSame
<1>4. ASSUME raced \subseteq raced', UNCHANGED over PROVE Undisturbed
  BY <1>4 DEF Undisturbed
<1>5. ASSUME UNCHANGED <<points, coins, spent, remaining, outside, over>>,
             raced \subseteq raced'
      PROVE  Conserves
  <2>1. pSame /\ cSame /\ sSame /\ mSame /\ Undisturbed /\ outside' = outside + (0 + 0 + 0 + 0)
    BY <1>1, <1>3, <1>4, <1>5
  <2> QED
    BY <1>2, <2>1, Balanced DEF pSame, cSame, sSame, mSame
<1>6. ASSUME NEW c \in Campaigns, CommitCreate(c) PROVE Conserves
  <2> DEFINE b == budget[c]
  <2>1. Publisher[c] \in Users /\ b \in Int /\ 0 - b \in Int /\ remaining[c] = 0
    BY <1>1, <1>6 DEF CommitCreate, CampaignInv, CampaignOK, Fresh
  <2>2. Adds(points, points', Users, Publisher[c], 0 - b)
    BY <1>1, <1>6, <2>1 DEF CommitCreate, Adds
  <2>3. Adds(remaining, remaining', Campaigns, c, b)
    BY <1>1, <1>6, <2>1 DEF CommitCreate, Open, Adds
  <2>4. UNCHANGED <<coins, spent, outside, over, raced>>
    BY <1>6 DEF CommitCreate, Open, outlay
  <2> HIDE DEF b
  <2>5. SumOf(points') = SumOf(points) + (0 - b)
    BY <2>2, SumAdds
  <2>6. SumOf(remaining') = SumOf(remaining) + b
    BY <2>3, SumAdds
  <2>7. cSame /\ sSame /\ Undisturbed /\ outside' = outside + ((0 - b) + 0 + 0 + b)
    BY <1>1, <1>3, <1>4, <2>1, <2>4
  <2> QED
    BY <1>2, <2>1, <2>5, <2>6, <2>7, Balanced DEF cSame, sSame
<1>7. ASSUME NEW r \in Requests, CommitReward(r) PROVE Conserves
  <2> PICK c \in Campaigns : c = camp[r]
    BY <1>1
  <2> DEFINE b == reward[c]
  <2>1. /\ b \in Int /\ 0 - b \in Int /\ user[r] \in Users
        /\ points' = [points EXCEPT ![user[r]] = @ + b]
        /\ remaining' = [remaining EXCEPT ![c] = copy[r] - b]
        /\ over' = [over EXCEPT ![c] = IF copy[r] # remaining[c] THEN @ + 1 ELSE @]
        /\ UNCHANGED <<coins, spent, outside, raced>>
    BY <1>1, <1>7 DEF CommitReward, Spend, PayOnce
  <2>2. copy[r] = remaining[c] /\ UNCHANGED over
    <3>1. over'[c] = 0 /\ over[c] \in Nat
      BY <1>1 DEF Undisturbed
    <3>2. copy[r] = remaining[c]
      BY <1>1, <2>1, <3>1
    <3> QED
      BY <1>1, <2>1, <3>2
  <2>3. Adds(points, points', Users, user[r], b)
    BY <1>1, <2>1 DEF Adds
  <2>4. Adds(remaining, remaining', Campaigns, c, 0 - b)
    BY <1>1, <2>1, <2>2 DEF Adds
  <2> HIDE DEF b
  <2>5. SumOf(points') = SumOf(points) + b
    BY <2>3, SumAdds
  <2>6. SumOf(remaining') = SumOf(remaining) + (0 - b)
    BY <2>4, SumAdds
  <2>7. cSame /\ sSame /\ Undisturbed /\ outside' = outside + (b + 0 + 0 + (0 - b))
    BY <1>1, <1>3, <1>4, <2>1, <2>2
  <2>8. b \in Int /\ 0 - b \in Int
    BY <2>1
  <2> QED
    BY <1>2, <2>5, <2>6, <2>7, <2>8, Balanced DEF cSame, sSame
<1>8. ASSUME NEW r \in Requests, NEW n \in Int, SaveOutside(r, n) PROVE Conserves
  <2>1. /\ points' = [points EXCEPT ![user[r]] = copy[r] + n]
        /\ UNCHANGED <<coins, spent, remaining, over>> /\ outside' = outside + n
        /\ raced \subseteq raced' /\ copy[r] = points[user[r]]
    BY <1>8 DEF SaveOutside, MarkRaced, campaigns, Undisturbed
  <2>2. Adds(points, points', Users, user[r], n)
    BY <1>1, <2>1 DEF Adds
  <2>3. SumOf(points') = SumOf(points) + n
    BY <2>2, SumAdds
  <2>4. cSame /\ sSame /\ mSame /\ Undisturbed /\ outside' = outside + (n + 0 + 0 + 0)
    BY <1>1, <1>3, <1>4, <2>1
  <2> QED
    BY <1>2, <2>3, <2>4, Balanced DEF cSame, sSame, mSame
<1>9. ASSUME NEW r \in Requests, NEW n \in Int, SaveCoins(r, n) PROVE Conserves
  <2>1. /\ coins' = [coins EXCEPT ![user[r]] = copy[r] - n]
        /\ spent' = [spent EXCEPT ![user[r]] = @ + n]
        /\ UNCHANGED <<points, remaining, over, outside>>
        /\ raced \subseteq raced' /\ copy[r] = coins[user[r]] /\ 0 - n \in Int
    BY <1>9 DEF SaveCoins, MarkRaced, campaigns, Undisturbed
  <2>2. Adds(coins, coins', Users, user[r], 0 - n)
    BY <1>1, <2>1 DEF Adds
  <2>3. Adds(spent, spent', Users, user[r], n)
    BY <1>1, <2>1 DEF Adds
  <2>4. SumOf(coins') = SumOf(coins) + (0 - n)
    BY <2>2, SumAdds
  <2>5. SumOf(spent') = SumOf(spent) + n
    BY <2>3, SumAdds
  <2>6. pSame /\ mSame /\ Undisturbed /\ outside' = outside + (0 + (0 - n) + n + 0)
    BY <1>1, <1>3, <1>4, <2>1
  <2>7. 0 - n \in Int
    OBVIOUS
  <2> QED
    BY <1>2, <2>4, <2>5, <2>6, <2>7, Balanced DEF pSame, mSame
<1>10. ASSUME NEW w \in Runners, NEW u \in Users, CommitConversion(w, u) PROVE Conserves
  <2> DEFINE b == points[u]
  <2>1. b \in Int /\ coins[u] \in Int /\ 0 - b \in Int
    BY <1>1
  <2>2. /\ points' = [points EXCEPT ![u] = 0]
        /\ coins' = [coins EXCEPT ![u] = @ + b]
        /\ UNCHANGED <<spent, remaining, over, outside, raced>>
    BY <1>10 DEF CommitConversion, campaigns, outlay
  <2>3. Adds(points, points', Users, u, 0 - b)
    BY <1>1, <2>1, <2>2 DEF Adds
  <2>4. Adds(coins, coins', Users, u, b)
    BY <1>1, <2>1, <2>2 DEF Adds
  <2> HIDE DEF b
  <2>5. SumOf(points') = SumOf(points) + (0 - b)
    BY <2>3, SumAdds
  <2>6. SumOf(coins') = SumOf(coins) + b
    BY <2>4, SumAdds
  <2>7. sSame /\ mSame /\ Undisturbed /\ outside' = outside + ((0 - b) + b + 0 + 0)
    BY <1>1, <1>3, <1>4, <2>1, <2>2
  <2> QED
    BY <1>2, <2>1, <2>5, <2>6, <2>7, Balanced DEF sSame, mSame
<1>11. ASSUME NEW c \in Campaigns, NEW u \in Users, StartTask(c, u) PROVE Conserves
  BY <1>5, <1>11 DEF StartTask, outlay
<1>12. ASSUME NEW r \in Requests, Reads(r) PROVE Conserves
  BY <1>5, <1>12, ReadsLeave DEF stores, campaigns, outlay
<1>13. ASSUME NEW r \in Requests,
              \/ SavePublisher(r) \/ SaveCampaign(r) \/ SaveSpending(r)
              \/ SaveWorker(r) \/ SaveParticipation(r)
       PROVE  Conserves
  BY <1>13 DEF Whole, SavePublisher, SaveCampaign, SaveSpending, SaveWorker,
               SaveParticipation
<1>14. ASSUME NEW w \in Runners,
              \/ StartRun(w) \/ SaveConversion(w) \/ RecordConversion(w)
              \/ FinishRun(w) \/ FailRun(w)
              \/ \E u \in Users : PassOver(w, u) \/ LoadConversion(w, u)
       PROVE  Conserves
  BY <1>5, <1>14 DEF Whole, StartRun, SaveConversion, RecordConversion, FinishRun,
                     FailRun, PassOver, LoadConversion, stores, campaigns, outlay
<1>15. ASSUME NEW r \in Requests, NEW n \in Amounts,
              SaveGrant(r, n) \/ SavePost(r, n) \/ SaveCoins(r, n)
       PROVE  Conserves
  <2>1. n \in Int /\ 0 - n \in Int
    BY <1>1
  <2> QED
    BY <1>8, <1>9, <1>15, <2>1 DEF SaveGrant, SavePost
<1>16. ASSUME NEW w \in Runners, Run(w) PROVE Conserves
  BY <1>10, <1>14, <1>16 DEF Run
<1> QED
  BY <1>6, <1>7, <1>11, <1>12, <1>13, <1>15, <1>16, NextCases

(* Points are neither made nor lost, whatever overlaps, as long as no save *)
(* overwrote another.                                                      *)
THEOREM PointsNeitherMadeNorLost == Spec => []PointsConserved
<1>1. Init => PointsConserved
  <2> SUFFICES ASSUME Init
               PROVE  Total = SumOf(GenPoints) + outside
    BY DEF PointsConserved, Total
  <2>1. StoresOK /\ CampaignsOK
    BY InitInv DEF PointsInv
  <2>2. SumOf(coins) = 0 /\ SumOf(spent) = 0 /\ SumOf(remaining) = 0
    <3>1. ASSUME NEW S, IsFiniteSet(S) PROVE SumOf([x \in S |-> 0]) = 0
      <4>1. SumFunctionOnSet([x \in S |-> 0], S) = SumFunctionOnSet([x \in S |-> 0], {})
        BY <3>1, SumOfSupport
      <4> QED
        BY <4>1, SumEmpty DEF SumOf
    <3>2. /\ coins = [x \in Users |-> 0] /\ spent = [x \in Users |-> 0]
          /\ remaining = [x \in Campaigns |-> 0]
      BY DEF Init
    <3> QED
      BY <3>1, <3>2, PointsAssumption
  <2>3. points = GenPoints /\ outside = 0
    BY DEF Init
  <2> QED
    BY <2>1, <2>2, <2>3, SumsTyped DEF Total, SumsOK
<1>2. PointsInv /\ PointsInv' /\ CampaignInv /\ Whole /\ PointsConserved /\ [Next]_vars
        => PointsConserved'
  <2> SUFFICES ASSUME PointsInv, PointsInv', CampaignInv, Whole, PointsConserved,
                      [Next]_vars, replicaSet', Undisturbed'
               PROVE  Total' = SumOf(GenPoints) + outside'
    BY DEF PointsConserved, Undisturbed, Total, SumOf
  <2>1. CASE UNCHANGED vars
    BY <2>1 DEF vars, setting, stores, campaigns, outlay, PointsConserved, Undisturbed,
                Total, SumOf
  <2>2. CASE Next
    <3>1. replicaSet
      <4>1. UNCHANGED setting
        BY <2>2, NextMoves, MovesAlone, RunLeaves DEF CommitCreate, StartTask
      <4> QED
        BY <4>1 DEF setting
    <3>2. Undisturbed /\ Total' - Total = outside' - outside
      BY <2>2, <3>1, StepConserves DEF Conserves
    <3>3. Total = SumOf(GenPoints) + outside
      BY <3>1, <3>2 DEF PointsConserved, Undisturbed, Total
    <3>4. SumsOK /\ SumsOK'
      <4>1. (StoresOK /\ CampaignsOK)' => SumsOK'
        BY SumsTyped, PTL
      <4> QED
        BY <4>1, SumsTyped DEF PointsInv
    <3>5. /\ Total \in Int /\ Total' \in Int
          /\ outside \in Int /\ outside' \in Int /\ SumOf(GenPoints) \in Int
      BY <3>4 DEF Total, SumsOK
    <3> QED
      BY <3>2, <3>3, <3>5
  <2> QED
    BY <2>1, <2>2
<1>3. Spec => []Whole
  BY InitWhole, StepKeepsWhole, PointsInvariant, CampaignInvariant, PTL DEF Spec
<1> QED
  BY <1>1, <1>2, <1>3, PointsInvariant, CampaignInvariant, PTL DEF Spec
=============================================================================
