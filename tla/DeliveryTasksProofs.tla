------------------------- MODULE DeliveryTasksProofs -------------------------
(***************************************************************************)
(* The lock on a task, stranded tasks and delivered ones, for any number   *)
(* of tasks, agents, jobs, sweeps and requests.                            *)
(***************************************************************************)
EXTENDS DeliveryTasks, TLAPS

Holds(j, t) == jobAt[j] \in Holding /\ jobTask[j] = t

(* The part of the typing that says what a busy job or request has in hand.*)
Busy ==
  /\ \A j \in Jobs : jobAt[j] # "none" => jobTask[j] \in Tasks /\ jobTries[j] >= 1
  /\ \A j \in Jobs : jobAt[j] \in {"found", "loaded"} => jobPick[j] \in Agents
  /\ \A r \in Requests : reqAt[r] = "loaded" => reqTask[r] \in Tasks
  /\ \A r \in Requests : "assignee" \in reqWrites[r] => reqAgent[r] \in Agents

Typed == TypeOK /\ Busy

JobsTyped ==
  /\ jobAt \in [Jobs -> {"none", "waiting"} \cup Holding]
  /\ jobTask \in [Jobs -> Tasks \cup {None}]
  /\ jobTries \in [Jobs -> 0 .. Attempts]
  /\ jobPick \in [Jobs -> Agents \cup {None}]
  /\ jobWrites \in [Jobs -> SUBSET {"status", "assignee"}]
  /\ \A j \in Jobs : jobAt[j] # "none" => jobTask[j] \in Tasks /\ jobTries[j] >= 1
  /\ \A j \in Jobs : jobAt[j] \in {"found", "loaded"} => jobPick[j] \in Agents

RequestsTyped ==
  /\ reqAt \in [Requests -> {"idle", "loaded"}]
  /\ reqKind \in [Requests -> {"none", "assign", "pickup", "deliver"}]
  /\ reqTask \in [Requests -> Tasks \cup {None}]
  /\ reqAgent \in [Requests -> Agents \cup {None}]
  /\ reqWrites \in [Requests -> SUBSET {"status", "assignee"}]
  /\ \A r \in Requests : reqAt[r] = "loaded" => reqTask[r] \in Tasks
  /\ \A r \in Requests : "assignee" \in reqWrites[r] => reqAgent[r] \in Agents

TasksTyped ==
  /\ status \in [Tasks -> Status]
  /\ assignee \in [Tasks -> Agents \cup {None}]
  /\ located \subseteq Tasks

RestTyped ==
  /\ found \in [Sweeps -> SUBSET Tasks]
  /\ requeue \in [Sweeps -> Tasks \cup {None}]
  /\ reset \subseteq Tasks /\ faulty \subseteq Tasks
  /\ enqueued \in Nat

LEMMA TypedParts ==
  /\ Typed => TasksTyped /\ JobsTyped /\ RequestsTyped /\ RestTyped
  /\ (TasksTyped /\ JobsTyped /\ RequestsTyped /\ RestTyped)' => Typed'
  BY DEF Typed, Busy, TypeOK, TasksTyped, JobsTyped, RequestsTyped, RestTyped

-----------------------------------------------------------------------------
(* A job that leaves, throws or dies keeps the typing, is no longer at     *)
(* work, and no other job notices.                                         *)
Released(j) ==
  /\ jobAt'[j] \in {"none", "waiting"}
  /\ \A k \in Jobs \ {j} :
       jobAt'[k] = jobAt[k] /\ jobTask'[k] = jobTask[k] /\ jobWrites'[k] = jobWrites[k]

LEMMA LeaveReleases ==
  ASSUME NEW j \in Jobs, JobsTyped, Leave(j)
  PROVE  JobsTyped' /\ Released(j)
  BY DeliveryAssumption DEF JobsTyped, Leave, Released, Holding

LEMMA ThrowReleases ==
  ASSUME NEW j \in Jobs, JobsTyped, jobAt[j] # "none", Throw(j)
  PROVE  JobsTyped' /\ Released(j)
<1>1. CASE TriesLeft(j) = 0
  BY <1>1, LeaveReleases DEF Throw
<1>2. CASE TriesLeft(j) # 0
  <2>1. TriesLeft(j) \in 1 .. Attempts
    BY <1>2, DeliveryAssumption DEF JobsTyped, TriesLeft
  <2>2. JobsTyped'
    BY <1>2, <2>1 DEF Throw, JobsTyped, Holding
  <2>3. Released(j)
    BY <1>2 DEF Throw, JobsTyped, Released
  <2>4. QED
    BY <2>2, <2>3
<1>3. QED
  BY <1>1, <1>2

LEMMA PlaceTyped ==
  ASSUME NEW j \in Jobs, NEW t \in Tasks, JobsTyped, Place(j, t)
  PROVE  JobsTyped' /\ Released(j)
  BY DeliveryAssumption DEF JobsTyped, Place, Released, Holding

LEMMA EndTyped ==
  ASSUME NEW r \in Requests, RequestsTyped, End(r)
  PROVE  RequestsTyped'
  BY DEF RequestsTyped, End

LEMMA SaveTyped ==
  ASSUME NEW t \in Tasks, NEW st \in Status, NEW a, NEW fields, TasksTyped,
         "assignee" \in fields => a \in Agents, Save(t, st, a, fields)
  PROVE  TasksTyped'
  BY DEF TasksTyped, Save

-----------------------------------------------------------------------------
LEMMA TypedInit == Init => Typed
  BY DeliveryAssumption DEF Init, Typed, TypeOK, Busy, Status, Holding

(* Each action, one lemma for the jobs, one for the sweep and the script,  *)
(* one for the requests.                                                   *)
LEMMA JobStepTyped ==
  ASSUME Typed, NEW j \in Jobs, JobStep(j) \/ JobDies(j)
  PROVE  Typed'
<1>0. TasksTyped /\ JobsTyped /\ RequestsTyped /\ RestTyped
  BY TypedParts
<1>1. jobAt[j] # "none" /\ jobTask[j] \in Tasks
  BY <1>0 DEF JobsTyped, JobStep, JobDies, JobLock, JobGiveBack, JobFind, JobReset, JobLoad, JobSave
<1>2. RequestsTyped'
  BY <1>0 DEF RequestsTyped, reqVars, JobStep, JobDies, JobLock, JobGiveBack, JobFind,
     JobReset, JobLoad, JobSave
<1>3. RestTyped'
  BY <1>0, <1>1 DEF RestTyped, sweepVars, histVars, JobStep, JobDies, JobLock, JobGiveBack,
     JobFind, JobReset, JobLoad, JobSave
<1>4. CASE JobLock(j)
  <2>1. TasksTyped'
    BY <1>0, <1>1, <1>4 DEF TasksTyped, JobLock, Status
  <2>2. CASE Leave(j)
    BY <2>2, <2>1, <1>0, <1>2, <1>3, LeaveReleases, TypedParts
  <2>3. CASE /\ jobAt' = [jobAt EXCEPT ![j] = "locked"]
             /\ UNCHANGED <<jobTask, jobTries, jobPick, jobWrites>>
    <3>1. JobsTyped'
      BY <2>3, <1>0, <1>1 DEF JobsTyped, Holding
    <3>2. QED
      BY <3>1, <2>1, <1>2, <1>3, TypedParts
  <2>4. QED
    BY <1>4, <2>2, <2>3 DEF JobLock
<1>5. CASE JobGiveBack(j)
  <2>1. TasksTyped'
    BY <1>0, <1>1, <1>5 DEF TasksTyped, JobGiveBack, Status
  <2>2. QED
    BY <2>1, <1>0, <1>2, <1>3, <1>5, LeaveReleases, TypedParts DEF JobGiveBack
<1>6. CASE JobFind(j)
  <2>1. TasksTyped'
    BY <1>0, <1>6 DEF TasksTyped, taskVars, JobFind
  <2>2. JobsTyped'
    BY <1>0, <1>1, <1>6 DEF JobsTyped, JobFind, Holding
  <2>3. QED
    BY <2>1, <2>2, <1>2, <1>3, TypedParts
<1>7. CASE JobReset(j)
  <2>1. TasksTyped'
    BY <1>0, <1>1, <1>7 DEF TasksTyped, JobReset, GivenBack, Status
  <2>2. QED
    BY <2>1, <1>0, <1>1, <1>2, <1>3, <1>7, ThrowReleases, TypedParts DEF JobReset
<1>8. CASE JobLoad(j)
  <2>1. TasksTyped'
    BY <1>0, <1>8 DEF TasksTyped, taskVars, JobLoad
  <2>2. JobsTyped'
    BY <1>0, <1>1, <1>8 DEF JobsTyped, JobLoad, Holding, Modified
  <2>3. QED
    BY <2>1, <2>2, <1>2, <1>3, TypedParts
<1>9. CASE JobSave(j)
  <2>1. jobPick[j] \in Agents
    BY <1>0, <1>9 DEF JobsTyped, JobSave
  <2>2. TasksTyped'
    BY <2>1, <1>0, <1>1, <1>9, SaveTyped DEF JobSave, Status
  <2>3. QED
    BY <2>2, <1>0, <1>1, <1>2, <1>3, <1>9, ThrowReleases, TypedParts DEF JobSave
<1>10. CASE JobDies(j)
  <2>1. TasksTyped'
    BY <1>0, <1>10 DEF TasksTyped, taskVars, JobDies
  <2>2. QED
    BY <2>1, <1>0, <1>1, <1>2, <1>3, <1>10, ThrowReleases, TypedParts DEF JobDies
<1>11. QED
  BY <1>4, <1>5, <1>6, <1>7, <1>8, <1>9, <1>10 DEF JobStep

LEMMA SweepStepTyped ==
  ASSUME Typed, RecoverAssigning \/ \E s \in Sweeps : Sweep(s)
  PROVE  Typed'
<1>0. TasksTyped /\ JobsTyped /\ RequestsTyped /\ RestTyped
  BY TypedParts
<1>1. RequestsTyped'
  BY <1>0 DEF RequestsTyped, reqVars, Sweep, RecoverAssigning, SweepFind, SweepReset,
     SweepEnqueue, SweepDies
<1>2. TasksTyped'
  BY <1>0 DEF TasksTyped, taskVars, Sweep, RecoverAssigning, SweepFind, SweepReset,
     SweepEnqueue, SweepDies, Status
<1>3. RestTyped'
  <2>1. CASE RecoverAssigning
    BY <1>0, <2>1 DEF RestTyped, sweepVars, RecoverAssigning
  <2>2. ASSUME NEW s \in Sweeps, Sweep(s) PROVE RestTyped'
    <3>1. CASE \E ts \in SUBSET Stale : SweepFind(s, ts)
      BY <1>0, <3>1 DEF RestTyped, histVars, SweepFind, Stale
    <3>2. ASSUME NEW t \in Tasks, SweepReset(s, t) PROVE RestTyped'
      BY <1>0, <3>2 DEF RestTyped, SweepReset
    <3>3. CASE SweepDies(s) \/ \E j \in Jobs : SweepEnqueue(s, j)
      BY <1>0, <3>3 DEF RestTyped, histVars, SweepDies, SweepEnqueue
    <3>4. QED
      BY <2>2, <3>1, <3>2, <3>3 DEF Sweep
  <2>3. QED
    BY <2>1, <2>2
<1>4. CASE \E s \in Sweeps, j \in Jobs : SweepEnqueue(s, j)
  <2>1. PICK s \in Sweeps, j \in Jobs : SweepEnqueue(s, j)
    BY <1>4
  <2>2. requeue[s] \in Tasks /\ Place(j, requeue[s])
    BY <1>0, <2>1 DEF RestTyped, SweepEnqueue
  <2>3. JobsTyped'
    BY <1>0, <2>2, PlaceTyped
  <2>4. QED
    BY <2>3, <1>1, <1>2, <1>3, TypedParts
<1>5. CASE ~\E s \in Sweeps, j \in Jobs : SweepEnqueue(s, j)
  <2>1. UNCHANGED jobVars
    BY <1>5 DEF Sweep, RecoverAssigning, SweepFind, SweepReset, SweepDies
  <2>2. JobsTyped'
    BY <1>0, <2>1 DEF JobsTyped, jobVars
  <2>3. QED
    BY <2>2, <1>1, <1>2, <1>3, TypedParts
<1>6. QED
  BY <1>4, <1>5

LEMMA RequestTyped ==
  ASSUME Typed, NEW r \in Requests,
         \/ \E t \in Tasks : LoadForAssign(r, t) \/ LoadForPickup(r, t) \/ LoadForDelivery(r, t)
         \/ RequestStep(r)
  PROVE  Typed'
<1>0. TasksTyped /\ JobsTyped /\ RequestsTyped /\ RestTyped
  BY TypedParts
<1>1. JobsTyped'
  BY <1>0 DEF JobsTyped, jobVars, LoadForAssign, LoadForPickup, LoadForDelivery, Load,
     RequestStep, AssignAgent, ConfirmPickup, ConfirmDelivery, Finish, RequestDies
<1>2. RestTyped'
  BY <1>0 DEF RestTyped, sweepVars, histVars, LoadForAssign, LoadForPickup, LoadForDelivery,
     Load, RequestStep, AssignAgent, ConfirmPickup, ConfirmDelivery, Finish, RequestDies
<1>3. CASE \E t \in Tasks : LoadForAssign(r, t) \/ LoadForPickup(r, t) \/ LoadForDelivery(r, t)
  <2>1. TasksTyped'
    BY <1>0, <1>3 DEF TasksTyped, taskVars, LoadForAssign, LoadForPickup, LoadForDelivery, Load
  <2>2. PICK t \in Tasks : LoadForAssign(r, t) \/ LoadForPickup(r, t) \/ LoadForDelivery(r, t)
    BY <1>3
  <2>3. PICK kind \in {"assign", "pickup", "deliver"}, a \in Agents \cup {None},
             fields \in SUBSET {"status", "assignee"} :
          Load(r, kind, t, a, fields) /\ ("assignee" \in fields => a \in Agents)
    <3>1. CASE LoadForAssign(r, t)
      BY <3>1 DEF LoadForAssign, Modified
    <3>2. CASE LoadForPickup(r, t)
      <4>1. Load(r, "pickup", t, None, Modified(t, "picked_up", assignee[t]))
        BY <3>2 DEF LoadForPickup
      <4>2. Modified(t, "picked_up", assignee[t]) \in SUBSET {"status"}
        BY DEF Modified
      <4>3. QED
        BY <4>1, <4>2
    <3>3. CASE LoadForDelivery(r, t)
      <4>1. Load(r, "deliver", t, None, Modified(t, "delivered", assignee[t]))
        BY <3>3 DEF LoadForDelivery
      <4>2. Modified(t, "delivered", assignee[t]) \in SUBSET {"status"}
        BY DEF Modified
      <4>3. QED
        BY <4>1, <4>2
    <3>4. QED
      BY <2>2, <3>1, <3>2, <3>3
  <2>4. RequestsTyped'
    BY <1>0, <2>3 DEF RequestsTyped, Load
  <2>5. QED
    BY <2>1, <2>4, <1>1, <1>2, TypedParts
<1>4. CASE RequestStep(r)
  <2>1. End(r)
    BY <1>4 DEF RequestStep, AssignAgent, ConfirmPickup, ConfirmDelivery, Finish, RequestDies
  <2>2. TasksTyped'
    <3>1. CASE RequestDies(r)
      BY <1>0, <3>1 DEF RequestDies, TasksTyped, taskVars
    <3>2. CASE \E kind \in {"assign", "pickup", "deliver"}, st \in Status : Finish(r, kind, st)
      <4>1. PICK st \in Status : Save(reqTask[r], st, reqAgent[r], reqWrites[r])
        BY <3>2 DEF Finish
      <4>2. reqTask[r] \in Tasks /\ ("assignee" \in reqWrites[r] => reqAgent[r] \in Agents)
        BY <1>0, <3>2 DEF RequestsTyped, Finish
      <4>3. QED
        BY <1>0, <4>1, <4>2, SaveTyped
    <3>3. QED
      BY <3>1, <3>2, <1>4 DEF RequestStep, AssignAgent, ConfirmPickup, ConfirmDelivery, Status
  <2>3. QED
    BY <2>1, <2>2, <1>0, <1>1, <1>2, EndTyped, TypedParts
<1>5. QED
  BY <1>3, <1>4

LEMMA TypedStep == Typed /\ [Next]_vars => Typed'
<1> SUFFICES ASSUME Typed, [Next]_vars PROVE Typed'
  OBVIOUS
<1>0. TasksTyped /\ JobsTyped /\ RequestsTyped /\ RestTyped
  BY TypedParts
<1>1. ASSUME NEW t \in Tasks, CreateTask(t) PROVE Typed'
  <2>1. TasksTyped'
    BY <1>0, <1>1 DEF TasksTyped, CreateTask, Status
  <2>2. JobsTyped' /\ RequestsTyped' /\ RestTyped'
    BY <1>0, <1>1 DEF JobsTyped, RequestsTyped, RestTyped, CreateTask, jobVars, reqVars,
       sweepVars, histVars
  <2>3. QED
    BY <2>1, <2>2, TypedParts
<1>2. ASSUME NEW j \in Jobs, NEW t \in Tasks, EnqueueAssignment(j, t) PROVE Typed'
  <2>1. JobsTyped'
    BY <1>0, <1>2, PlaceTyped DEF EnqueueAssignment
  <2>2. TasksTyped' /\ RequestsTyped' /\ RestTyped'
    BY <1>0, <1>2 DEF TasksTyped, RequestsTyped, RestTyped, EnqueueAssignment, taskVars,
       reqVars, sweepVars, histVars
  <2>3. QED
    BY <2>1, <2>2, TypedParts
<1>3. CASE UNCHANGED vars
  BY <1>3 DEF Typed, TypeOK, Busy, vars, taskVars, jobVars, reqVars, sweepVars, histVars
<1>4. QED
  BY <1>1, <1>2, <1>3, JobStepTyped, SweepStepTyped, RequestTyped DEF Next

(* Every document and every local copy has its type in every behaviour:    *)
(* a status is one the code writes, "assigning" included, which the schema *)
(* of a task does not list.                                                *)
THEOREM DeliveryTyped == Spec => []TypeOK
<1>1. Typed => TypeOK
  BY DEF Typed
<1>2. QED
  BY <1>1, TypedInit, TypedStep, PTL DEF Spec

-----------------------------------------------------------------------------
(* A job at work has its task neither absent nor, unless the task was      *)
(* reset under it, unassigned, and has it to itself.  The first two parts  *)
(* are what makes the third inductive: the lock is taken only from         *)
(* unassigned.                                                             *)
LockInv ==
  /\ \A t \in Tasks, j \in Jobs : Holds(j, t) => status[t] # "absent"
  /\ \A t \in Tasks \ reset, j \in Jobs : Holds(j, t) => status[t] # "unassigned"
  /\ \A t \in Tasks \ reset, j, k \in Jobs : Holds(j, t) /\ Holds(k, t) => j = k

(* Who is left at work after a job has released its task.                  *)
LEMMA ReleasedHolds ==
  ASSUME NEW j \in Jobs, Released(j)
  PROVE  \A k \in Jobs, t \in Tasks : Holds(k, t)' => Holds(k, t) /\ k # j
  BY DEF Released, Holds, Holding

LEMMA JobStepLock ==
  ASSUME Typed, LockInv, NEW j \in Jobs, JobStep(j) \/ JobDies(j)
  PROVE  LockInv'
<1>0. TasksTyped /\ JobsTyped /\ RestTyped
  BY TypedParts
<1>1. jobAt[j] # "none" /\ jobTask[j] \in Tasks
  BY <1>0 DEF JobsTyped, JobStep, JobDies, JobLock, JobGiveBack, JobFind, JobReset, JobLoad, JobSave
<1>2. reset' = reset
  BY DEF histVars, JobStep, JobDies, JobLock, JobGiveBack, JobFind, JobReset, JobLoad, JobSave
<1>3. CASE /\ Released(j)
           /\ \A t \in Tasks : status'[t] = status[t] \/ status'[t] = "assigned"
  BY <1>3, <1>2, ReleasedHolds DEF LockInv
<1>4. CASE /\ Released(j)
           /\ Holds(j, jobTask[j])
           /\ status' = [status EXCEPT ![jobTask[j]] = "unassigned"]
  <2>1. \A t \in Tasks, k \in Jobs : Holds(k, t)' => Holds(k, t) /\ k # j
    BY <1>4, ReleasedHolds
  <2>2. \A t \in Tasks : status'[t] = IF t = jobTask[j] THEN "unassigned" ELSE status[t]
    BY <1>0, <1>1, <1>4 DEF TasksTyped
  <2>3. QED
    BY <1>2, <1>4, <2>1, <2>2 DEF LockInv
<1>5. CASE /\ status' = status
           /\ \A k \in Jobs, t \in Tasks : Holds(k, t)' <=> Holds(k, t)
  BY <1>5, <1>2 DEF LockInv
<1>6. CASE /\ status[jobTask[j]] = "unassigned"
           /\ status' = [status EXCEPT ![jobTask[j]] = "assigning"]
           /\ \A k \in Jobs \ {j}, t \in Tasks : Holds(k, t)' <=> Holds(k, t)
           /\ \A t \in Tasks : Holds(j, t)' => t = jobTask[j]
  <2>1. \A t \in Tasks : status'[t] = IF t = jobTask[j] THEN "assigning" ELSE status[t]
    BY <1>0, <1>1, <1>6 DEF TasksTyped
  <2>2. \A t \in Tasks \ reset, k \in Jobs \ {j} : Holds(k, t)' => t # jobTask[j]
    BY <1>1, <1>6 DEF LockInv
  <2>3. \A t \in Tasks, k \in Jobs : Holds(k, t)' => status'[t] # "absent"
    BY <1>6, <2>1 DEF LockInv
  <2>4. \A t \in Tasks \ reset', k \in Jobs : Holds(k, t)' => status'[t] # "unassigned"
    BY <1>2, <1>6, <2>1, <2>2 DEF LockInv
  <2>5. \A t \in Tasks \ reset', i, k \in Jobs : Holds(i, t)' /\ Holds(k, t)' => i = k
    BY <1>2, <1>6, <2>2 DEF LockInv
  <2>6. QED
    BY <2>3, <2>4, <2>5 DEF LockInv
<1>7. CASE JobLock(j)
  <2>1. CASE Leave(j) /\ UNCHANGED status
    BY <2>1, <1>0, <1>3, LeaveReleases
  <2>2. CASE /\ Lockable(jobTask[j])
             /\ status' = [status EXCEPT ![jobTask[j]] = "assigning"]
             /\ jobAt' = [jobAt EXCEPT ![j] = "locked"]
             /\ UNCHANGED <<jobTask, jobTries, jobPick, jobWrites>>
    <3>1. \A k \in Jobs \ {j}, t \in Tasks : Holds(k, t)' <=> Holds(k, t)
      BY <1>0, <2>2 DEF Holds, JobsTyped
    <3>2. \A t \in Tasks : Holds(j, t)' => t = jobTask[j]
      BY <1>0, <2>2 DEF Holds
    <3>3. QED
      BY <3>1, <3>2, <2>2, <1>6 DEF Lockable
  <2>3. QED
    BY <1>7, <2>1, <2>2 DEF JobLock
<1>8. CASE JobGiveBack(j)
  <2>1. Released(j)
    BY <1>0, <1>8, LeaveReleases DEF JobGiveBack
  <2>2. QED
    BY <2>1, <1>4, <1>8 DEF JobGiveBack, Holds, Holding
<1>9. CASE JobFind(j) \/ JobLoad(j)
  BY <1>0, <1>5, <1>9 DEF JobFind, JobLoad, taskVars, Holds, Holding, JobsTyped
<1>10. CASE JobReset(j)
  <2>1. Released(j)
    BY <1>0, <1>1, <1>10, ThrowReleases DEF JobReset
  <2>2. QED
    BY <2>1, <1>4, <1>10 DEF JobReset, GivenBack, Holds, Holding
<1>11. CASE JobSave(j)
  <2>1. Released(j)
    BY <1>0, <1>1, <1>11, ThrowReleases DEF JobSave
  <2>2. \A t \in Tasks : status'[t] = status[t] \/ status'[t] = "assigned"
    BY <1>0, <1>1, <1>11 DEF JobSave, Save, TasksTyped
  <2>3. QED
    BY <2>1, <2>2, <1>3
<1>12. CASE JobDies(j)
  <2>1. Released(j)
    BY <1>0, <1>1, <1>12, ThrowReleases DEF JobDies
  <2>2. QED
    BY <2>1, <1>3, <1>12 DEF JobDies, taskVars
<1>13. QED
  BY <1>7, <1>8, <1>9, <1>10, <1>11, <1>12 DEF JobStep

LEMMA LockStep == Typed /\ LockInv /\ [Next]_vars => LockInv'
<1> SUFFICES ASSUME Typed, LockInv, [Next]_vars PROVE LockInv'
  OBVIOUS
<1>0. TasksTyped /\ JobsTyped /\ RequestsTyped /\ RestTyped
  BY TypedParts
<1>1. ASSUME NEW t \in Tasks, CreateTask(t) PROVE LockInv'
  <2>1. \A u \in Tasks, j \in Jobs : Holds(j, u)' <=> Holds(j, u)
    BY <1>1 DEF CreateTask, jobVars, Holds
  <2>2. \A u \in Tasks : status'[u] = IF u = t THEN "unassigned" ELSE status[u]
    BY <1>0, <1>1 DEF CreateTask, TasksTyped
  <2>3. reset' = reset /\ status[t] = "absent"
    BY <1>1 DEF CreateTask, histVars
  <2>4. QED
    BY <2>1, <2>2, <2>3 DEF LockInv
<1>2. ASSUME NEW j \in Jobs, NEW t \in Tasks, EnqueueAssignment(j, t) PROVE LockInv'
  <2>1. Released(j)
    BY <1>0, <1>2, PlaceTyped DEF EnqueueAssignment
  <2>2. QED
    BY <2>1, <1>2, ReleasedHolds DEF LockInv, EnqueueAssignment, taskVars, histVars
<1>3. ASSUME NEW s \in Sweeps, NEW t \in Tasks, SweepReset(s, t) PROVE LockInv'
  <2>1. \A u \in Tasks, j \in Jobs : Holds(j, u)' <=> Holds(j, u)
    BY <1>3 DEF SweepReset, jobVars, Holds
  <2>2. \A u \in Tasks : status'[u] = IF u = t THEN "unassigned" ELSE status[u]
    BY <1>0, <1>3 DEF SweepReset, TasksTyped
  <2>3. QED
    BY <2>1, <2>2, <1>3 DEF LockInv, SweepReset
<1>4. CASE RecoverAssigning
  <2>1. PICK ts \in SUBSET Tasks :
          /\ status' = [t \in Tasks |-> IF t \in ts THEN "unassigned" ELSE status[t]]
          /\ reset' = reset \cup ts
          /\ UNCHANGED jobVars
    BY <1>4 DEF RecoverAssigning
  <2>2. \A u \in Tasks, j \in Jobs : Holds(j, u)' <=> Holds(j, u)
    BY <2>1 DEF jobVars, Holds
  <2>3. QED
    BY <2>1, <2>2 DEF LockInv
<1>5. CASE \E s \in Sweeps : SweepDies(s) \/ \E ts \in SUBSET Stale \ {{}} : SweepFind(s, ts)
  <2>1. \A u \in Tasks, j \in Jobs : Holds(j, u)' <=> Holds(j, u)
    BY <1>5 DEF SweepDies, SweepFind, jobVars, Holds
  <2>2. QED
    BY <2>1, <1>5 DEF LockInv, SweepDies, SweepFind, taskVars, histVars
<1>6. ASSUME NEW s \in Sweeps, NEW j \in Jobs, SweepEnqueue(s, j) PROVE LockInv'
  <2>1. requeue[s] \in Tasks /\ Place(j, requeue[s])
    BY <1>0, <1>6 DEF RestTyped, SweepEnqueue
  <2>2. Released(j)
    BY <1>0, <2>1, PlaceTyped
  <2>3. QED
    BY <2>2, <1>6, ReleasedHolds DEF LockInv, SweepEnqueue, taskVars, histVars
<1>7. ASSUME NEW r \in Requests,
             \/ \E t \in Tasks : LoadForAssign(r, t) \/ LoadForPickup(r, t) \/ LoadForDelivery(r, t)
             \/ RequestStep(r)
      PROVE  LockInv'
  <2>1. UNCHANGED <<jobAt, jobTask, reset>>
    BY <1>7 DEF jobVars, histVars, LoadForAssign, LoadForPickup, LoadForDelivery, Load,
       RequestStep, AssignAgent, ConfirmPickup, ConfirmDelivery, Finish, RequestDies
  <2>2. \A u \in Tasks, j \in Jobs : Holds(j, u)' <=> Holds(j, u)
    BY <2>1 DEF Holds
  <2>3. \A u \in Tasks : status'[u] \in {status[u], "assigned", "picked_up", "delivered"}
    BY <1>0, <1>7 DEF TasksTyped, taskVars, LoadForAssign, LoadForPickup, LoadForDelivery,
       Load, RequestStep, AssignAgent, ConfirmPickup, ConfirmDelivery, Finish, Save, RequestDies
  <2>4. QED
    BY <2>1, <2>2, <2>3 DEF LockInv
<1>8. CASE UNCHANGED vars
  <2>1. \A u \in Tasks, j \in Jobs : Holds(j, u)' <=> Holds(j, u)
    BY <1>8 DEF vars, jobVars, Holds
  <2>2. QED
    BY <2>1, <1>8 DEF LockInv, vars, taskVars, histVars
<1>9. QED
  BY <1>1, <1>2, <1>3, <1>4, <1>5, <1>6, <1>7, <1>8, JobStepLock DEF Next, Sweep

(* Two jobs work on one task only after it was reset under the first.      *)
THEOREM LockExclusive == Spec => []LockIsExclusive
<1>1. Init => LockInv
  BY DEF Init, LockInv, Holds, Holding
<1>2. LockInv => LockIsExclusive
  BY DEF LockInv, LockIsExclusive, Holders, Holds
<1>3. QED
  BY <1>1, <1>2, TypedInit, TypedStep, LockStep, PTL DEF Spec

-----------------------------------------------------------------------------
(* A job that has loaded a task as assigned will not write its status, so  *)
(* it does not help a task that is being assigned again: some job that     *)
(* will must hold it.                                                      *)
WillMove(j, t) == Holds(j, t) /\ (jobAt[j] = "loaded" => "status" \in jobWrites[j])

HeldInv ==
  \A t \in Tasks \ faulty : status[t] = "assigning" => \E j \in Jobs : WillMove(j, t)

(* Other jobs keep what they have in hand.                                 *)
LEMMA ReleasedMoves ==
  ASSUME JobsTyped, NEW j \in Jobs, Released(j)
  PROVE  \A k \in Jobs \ {j}, t \in Tasks : WillMove(k, t)' <=> WillMove(k, t)
  BY DEF Released, WillMove, Holds, JobsTyped

LEMMA JobStepHeld ==
  ASSUME Typed, HeldInv, NEW j \in Jobs, JobStep(j) \/ JobDies(j)
  PROVE  HeldInv'
<1>0. TasksTyped /\ JobsTyped /\ RestTyped
  BY TypedParts
<1>1. jobAt[j] # "none" /\ jobTask[j] \in Tasks /\ faulty \subseteq faulty'
  BY <1>0 DEF JobsTyped, histVars, JobStep, JobDies, JobLock, JobGiveBack, JobFind, JobReset,
     JobLoad, JobSave
<1>2. CASE /\ Released(j)
           /\ \A t \in Tasks : t # jobTask[j] => status'[t] = status[t]
           /\ jobTask[j] \in faulty' \/ status'[jobTask[j]] # "assigning"
                \/ (status' = status /\ ~WillMove(j, jobTask[j]))
  <2>1. ASSUME NEW t \in Tasks \ faulty', status'[t] = "assigning"
        PROVE  \E k \in Jobs : WillMove(k, t)'
    <3>1. status[t] = "assigning" /\ t \notin faulty /\ ~WillMove(j, t)
      BY <1>1, <1>2, <2>1 DEF WillMove, Holds
    <3>2. PICK k \in Jobs : WillMove(k, t)
      BY <3>1 DEF HeldInv
    <3>3. QED
      BY <1>0, <1>2, <3>1, <3>2, ReleasedMoves
  <2>2. QED
    BY <2>1 DEF HeldInv
<1>3. CASE JobLock(j)
  <2>1. CASE Leave(j) /\ UNCHANGED status
    <3>1. Released(j) /\ ~WillMove(j, jobTask[j])
      BY <1>0, <1>3, <2>1, LeaveReleases DEF JobLock, WillMove, Holds, Holding
    <3>2. QED
      BY <1>2, <2>1, <3>1
  <2>2. CASE /\ Lockable(jobTask[j])
             /\ status' = [status EXCEPT ![jobTask[j]] = "assigning"]
             /\ jobAt' = [jobAt EXCEPT ![j] = "locked"]
             /\ UNCHANGED <<jobTask, jobTries, jobPick, jobWrites>>
    <3>1. WillMove(j, jobTask[j])'
      BY <1>0, <2>2 DEF WillMove, Holds, Holding, JobsTyped
    <3>2. \A k \in Jobs, t \in Tasks : WillMove(k, t) => WillMove(k, t)'
      BY <1>0, <1>3, <2>2 DEF JobLock, WillMove, Holds, Holding, JobsTyped
    <3>3. \A t \in Tasks : t # jobTask[j] => status'[t] = status[t]
      BY <1>0, <2>2 DEF TasksTyped
    <3>4. jobTask'[j] = jobTask[j]
      BY <2>2
    <3>5. QED
      BY <1>1, <3>1, <3>2, <3>3, <3>4 DEF HeldInv
  <2>3. QED
    BY <1>3, <2>1, <2>2 DEF JobLock
<1>4. CASE JobGiveBack(j)
  <2>1. Released(j) /\ status' = [status EXCEPT ![jobTask[j]] = "unassigned"]
    BY <1>0, <1>4, LeaveReleases DEF JobGiveBack
  <2>2. QED
    BY <1>0, <1>1, <1>2, <2>1 DEF TasksTyped
<1>5. CASE JobReset(j)
  <2>1. Released(j) /\ status' = [status EXCEPT ![jobTask[j]] = "unassigned"]
    BY <1>0, <1>1, <1>5, ThrowReleases DEF JobReset, GivenBack
  <2>2. QED
    BY <1>0, <1>1, <1>2, <2>1 DEF TasksTyped
<1>6. CASE JobSave(j)
  <2>1. Released(j)
    BY <1>0, <1>1, <1>6, ThrowReleases DEF JobSave
  <2>2. CASE "status" \in jobWrites[j]
    <3>1. status' = [status EXCEPT ![jobTask[j]] = "assigned"]
      BY <1>6, <2>2 DEF JobSave, Save
    <3>2. QED
      BY <1>0, <1>1, <1>2, <2>1, <3>1 DEF TasksTyped
  <2>3. CASE "status" \notin jobWrites[j]
    <3>1. status' = status /\ ~WillMove(j, jobTask[j])
      BY <1>6, <2>3 DEF JobSave, Save, WillMove
    <3>2. QED
      BY <1>2, <2>1, <3>1
  <2>4. QED
    BY <2>2, <2>3
<1>7. CASE JobDies(j)
  <2>1. Released(j) /\ status' = status
    BY <1>0, <1>1, <1>7, ThrowReleases DEF JobDies, taskVars
  <2>2. jobTask[j] \in faulty' \/ ~WillMove(j, jobTask[j])
    BY <1>7 DEF JobDies, WillMove, Holds
  <2>3. QED
    BY <1>2, <2>1, <2>2
<1>8. CASE JobFind(j) \/ JobLoad(j)
  <2>1. status' = status /\ jobTask' = jobTask
    BY <1>8 DEF JobFind, JobLoad, taskVars
  <2>2. ASSUME NEW k \in Jobs, NEW t \in Tasks, WillMove(k, t), status[t] = "assigning"
        PROVE  WillMove(k, t)'
    <3>1. CASE JobFind(j)
      BY <1>0, <2>2, <3>1 DEF JobFind, WillMove, Holds, Holding, JobsTyped
    <3>2. CASE JobLoad(j)
      <4>1. jobAt' = [jobAt EXCEPT ![j] = "loaded"]
            /\ jobWrites' = [jobWrites EXCEPT ![j] = Modified(jobTask[j], "assigned", jobPick[j])]
        BY <3>2 DEF JobLoad
      <4>2. CASE k = j
        <5>1. jobTask[j] = t /\ "status" \in Modified(jobTask[j], "assigned", jobPick[j])
          BY <2>2, <4>2 DEF WillMove, Holds, Modified
        <5>2. QED
          BY <1>0, <2>1, <4>1, <4>2, <5>1 DEF WillMove, Holds, Holding, JobsTyped
      <4>3. CASE k # j
        BY <1>0, <2>1, <2>2, <4>1, <4>3 DEF WillMove, Holds, JobsTyped
      <4>4. QED
        BY <4>2, <4>3
    <3>3. QED
      BY <1>8, <3>1, <3>2
  <2>3. QED
    BY <1>1, <2>1, <2>2 DEF HeldInv
<1>9. QED
  BY <1>3, <1>4, <1>5, <1>6, <1>7, <1>8 DEF JobStep

LEMMA HeldStep == Typed /\ HeldInv /\ [Next]_vars => HeldInv'
<1> SUFFICES ASSUME Typed, HeldInv, [Next]_vars PROVE HeldInv'
  OBVIOUS
<1>0. TasksTyped /\ JobsTyped /\ RequestsTyped /\ RestTyped
  BY TypedParts
<1>1. CASE /\ UNCHANGED <<jobAt, jobTask, jobWrites, faulty>>
           /\ \A t \in Tasks : status'[t] = status[t] \/ status'[t] # "assigning"
  <2>1. \A j \in Jobs, t \in Tasks : WillMove(j, t)' <=> WillMove(j, t)
    BY <1>1 DEF WillMove, Holds
  <2>2. QED
    BY <1>1, <2>1 DEF HeldInv
<1>2. ASSUME NEW j \in Jobs, NEW t \in Tasks, Place(j, t), UNCHANGED <<status, faulty>>
      PROVE  HeldInv'
  <2>1. Released(j) /\ \A u \in Tasks : ~WillMove(j, u)
    BY <1>0, <1>2, PlaceTyped DEF Place, WillMove, Holds, Holding
  <2>2. \A k \in Jobs, u \in Tasks : WillMove(k, u) => WillMove(k, u)'
    BY <1>0, <2>1, ReleasedMoves
  <2>3. QED
    BY <1>2, <2>2 DEF HeldInv
<1>3. ASSUME NEW t \in Tasks, CreateTask(t) \/ \E s \in Sweeps : SweepReset(s, t)
      PROVE  HeldInv'
  BY <1>0, <1>1, <1>3 DEF CreateTask, SweepReset, jobVars, histVars, TasksTyped
<1>4. CASE RecoverAssigning
  <2>1. PICK ts \in SUBSET Tasks :
          /\ status' = [t \in Tasks |-> IF t \in ts THEN "unassigned" ELSE status[t]]
          /\ UNCHANGED jobVars /\ faulty' = faulty
    BY <1>4 DEF RecoverAssigning
  <2>2. QED
    BY <1>1, <2>1 DEF jobVars
<1>5. CASE \E s \in Sweeps : SweepDies(s) \/ \E ts \in SUBSET Stale \ {{}} : SweepFind(s, ts)
  BY <1>1, <1>5 DEF SweepDies, SweepFind, jobVars, taskVars, histVars
<1>6. ASSUME NEW j \in Jobs,
             (\E t \in Tasks : EnqueueAssignment(j, t)) \/ \E s \in Sweeps : SweepEnqueue(s, j)
      PROVE  HeldInv'
  <2>1. UNCHANGED <<status, faulty>> /\ \E t \in Tasks : Place(j, t)
    BY <1>0, <1>6 DEF EnqueueAssignment, SweepEnqueue, taskVars, histVars, RestTyped
  <2>2. QED
    BY <1>2, <2>1
<1>7. ASSUME NEW r \in Requests,
             \/ \E t \in Tasks : LoadForAssign(r, t) \/ LoadForPickup(r, t) \/ LoadForDelivery(r, t)
             \/ RequestStep(r)
      PROVE  HeldInv'
  <2>1. UNCHANGED <<jobAt, jobTask, jobWrites, faulty>>
    BY <1>7 DEF jobVars, histVars, LoadForAssign, LoadForPickup, LoadForDelivery, Load,
       RequestStep, AssignAgent, ConfirmPickup, ConfirmDelivery, Finish, RequestDies
  <2>2. \A u \in Tasks : status'[u] \in {status[u], "assigned", "picked_up", "delivered"}
    BY <1>0, <1>7 DEF TasksTyped, taskVars, LoadForAssign, LoadForPickup, LoadForDelivery,
       Load, RequestStep, AssignAgent, ConfirmPickup, ConfirmDelivery, Finish, Save, RequestDies
  <2>3. \A u \in Tasks : status'[u] = status[u] \/ status'[u] # "assigning"
    BY <2>2
  <2>4. QED
    BY <1>1, <2>1, <2>3
<1>8. CASE UNCHANGED vars
  BY <1>1, <1>8 DEF vars, jobVars, taskVars, histVars
<1>9. QED
  BY <1>3, <1>4, <1>5, <1>6, <1>7, <1>8, JobStepHeld DEF Next, Sweep

(* A task is left in assigning without a job only after a job died on it.  *)
THEOREM OnlyFaultsStrand == Spec => []StrandedOnlyByFault
<1>1. Init => HeldInv
  BY DEF Init, HeldInv
<1>2. HeldInv => StrandedOnlyByFault
  BY DEF HeldInv, WillMove, Holds, StrandedOnlyByFault, Holders
<1>3. QED
  BY <1>1, <1>2, TypedInit, TypedStep, HeldStep, PTL DEF Spec

-----------------------------------------------------------------------------
(* Only what reset a task by its id opens a delivered one again.           *)
Hand(t) == (\E s \in Sweeps : t \in found[s]) \/ Holders(t) # {}

LEMMA StepKeepsDelivered ==
  ASSUME Typed, Next, NEW t \in Tasks, status[t] = "delivered", status'[t] = "unassigned"
  PROVE  Hand(t)
<1>0. TasksTyped /\ JobsTyped /\ RequestsTyped /\ RestTyped
  BY TypedParts
<1>1. ASSUME NEW u \in Tasks, CreateTask(u) PROVE Hand(t)
  BY <1>0, <1>1 DEF CreateTask, TasksTyped
<1>2. ASSUME NEW s \in Sweeps, NEW u \in Tasks, SweepReset(s, u) PROVE Hand(t)
  BY <1>0, <1>2 DEF SweepReset, TasksTyped, Hand
<1>3. ASSUME NEW j \in Jobs, JobStep(j) \/ JobDies(j) PROVE Hand(t)
  <2>1. CASE JobGiveBack(j) \/ JobReset(j)
    <3>1. status' = [status EXCEPT ![jobTask[j]] = "unassigned"] /\ jobAt[j] \in Holding
      BY <2>1 DEF JobGiveBack, JobReset, GivenBack, Holding
    <3>2. t = jobTask[j]
      BY <1>0, <3>1 DEF TasksTyped
    <3>3. QED
      BY <3>1, <3>2 DEF Holders, Hand
  <2>2. CASE JobLock(j) \/ JobSave(j)
    BY <1>0, <2>2 DEF JobLock, JobSave, Save, TasksTyped
  <2>3. CASE JobFind(j) \/ JobLoad(j) \/ JobDies(j)
    BY <2>3 DEF JobFind, JobLoad, JobDies, taskVars
  <2>4. QED
    BY <1>3, <2>1, <2>2, <2>3 DEF JobStep
<1>4. CASE RecoverAssigning
  BY <1>0, <1>4 DEF RecoverAssigning, Recovered
<1>5. CASE \E s \in Sweeps : SweepDies(s) \/ \E ts \in SUBSET Stale \ {{}} : SweepFind(s, ts)
  BY <1>5 DEF SweepDies, SweepFind, taskVars
<1>6. ASSUME NEW j \in Jobs,
             (\E u \in Tasks : EnqueueAssignment(j, u)) \/ \E s \in Sweeps : SweepEnqueue(s, j)
      PROVE  Hand(t)
  BY <1>6 DEF EnqueueAssignment, SweepEnqueue, taskVars
<1>7. ASSUME NEW r \in Requests,
             \/ \E u \in Tasks : LoadForAssign(r, u) \/ LoadForPickup(r, u) \/ LoadForDelivery(r, u)
             \/ RequestStep(r)
      PROVE  Hand(t)
  <2>1. status'[t] \in {status[t], "assigned", "picked_up", "delivered"}
    BY <1>0, <1>7 DEF TasksTyped, taskVars, LoadForAssign, LoadForPickup, LoadForDelivery,
       Load, RequestStep, AssignAgent, ConfirmPickup, ConfirmDelivery, Finish, Save, RequestDies
  <2>2. QED
    BY <2>1
<1>8. QED
  BY <1>1, <1>2, <1>3, <1>4, <1>5, <1>6, <1>7 DEF Next, Sweep

(* A delivered task is offered again only by a sweep that found it or a    *)
(* job that holds it.                                                      *)
THEOREM DeliveredClosed == Spec => DeliveredStaysClosed
<1>1. Typed /\ [Next]_vars =>
        [\A t \in Tasks : status[t] = "delivered" /\ status'[t] = "unassigned"
                            => (\E s \in Sweeps : t \in found[s]) \/ Holders(t) # {}]_vars
  BY StepKeepsDelivered DEF Hand
<1>2. QED
  BY <1>1, TypedInit, TypedStep, PTL DEF Spec, DeliveredStaysClosed
=============================================================================
