---------------------------- MODULE DeliveryTasks ----------------------------
(***************************************************************************)
(* Dispatch of deliveries in the marketplace backend: task documents that  *)
(* the queue job (workers/assignmentWorker.js), the sweep of stale tasks   *)
(* (workers/requeueWorker.js) and the request handlers                     *)
(* (controllers/deliveryController.js) load, change and save.  Two models  *)
(* these files import, DeliveryHistory and DeliveryLog, export an object   *)
(* instead of the model, so whatever follows their first use never runs:   *)
(* a handler fails after its save, the payout of a confirmed delivery      *)
(* included, and the job throws after it has assigned the task.            *)
(*                                                                         *)
(* Every await is a step.  findOneAndUpdate and findByIdAndUpdate are      *)
(* atomic; save() writes the fields that differ from the loaded document   *)
(* and nothing else, whatever the document has become meanwhile.  Time is  *)
(* not modelled: a task that is being assigned may be found stale at any   *)
(* moment.                                                                 *)
(***************************************************************************)
EXTENDS Integers, FiniteSets

CONSTANTS
  Tasks,        \* the task documents that may come to exist
  Agents,       \* the delivery agents
  None,         \* no agent
  Jobs,         \* places for jobs in the queue
  Sweeps,       \* bound: callbacks of the sweep's interval under way at a time
  Requests,     \* requests the server handles at a time
  Attempts,     \* the attempts a job is given
  MaxEnqueued   \* bound: jobs enqueued by enqueueAssignment

ASSUME DeliveryAssumption ==
  /\ None \notin Agents
  /\ Attempts \in Nat \ {0}
  /\ MaxEnqueued \in Nat

VARIABLES
  status,    \* DeliveryTask.status; "absent" before the document exists
  assignee,  \* DeliveryTask.assignedAgentId
  located,   \* the tasks whose pickup has coordinates
  jobAt, jobTask, jobTries, jobPick, jobWrites,  \* a job: where it is, its task, its
             \* attempts left, the agent it found, the fields its save() will write
  found,     \* the stale tasks each sweep under way has still to reset
  requeue,   \* the task each has reset and not yet enqueued
  reqAt, reqKind, reqTask, reqAgent, reqWrites,  \* a request: where it is, what it does,
             \* its task, the agent it assigns, the fields its save() will write
  reset,     \* history: tasks that a sweep or the recovery script reset
  faulty,    \* history: tasks on which a job died
  enqueued   \* history: jobs enqueued by enqueueAssignment

taskVars == <<status, assignee, located>>
jobVars == <<jobAt, jobTask, jobTries, jobPick, jobWrites>>
sweepVars == <<found, requeue>>
reqVars == <<reqAt, reqKind, reqTask, reqAgent, reqWrites>>
histVars == <<reset, faulty>>
vars == <<taskVars, jobVars, sweepVars, reqVars, histVars, enqueued>>

Status == {"absent", "unassigned", "assigning", "assigned", "picked_up", "delivered"}
Holding == {"locked", "nobody", "found", "loaded"}
Holders(t) == {j \in Jobs : jobAt[j] \in Holding /\ jobTask[j] = t}

(* save() writes the fields whose new value differs from the loaded one:   *)
(* Modified when the document t is set to status st and agent a, and what  *)
(* those fields hold once they are written.                                *)
Modified(t, st, a) ==
  (IF status[t] # st THEN {"status"} ELSE {}) \cup (IF assignee[t] # a THEN {"assignee"} ELSE {})

Save(t, st, a, fields) ==
  /\ status' = IF "status" \in fields THEN [status EXCEPT ![t] = st] ELSE status
  /\ assignee' = IF "assignee" \in fields THEN [assignee EXCEPT ![t] = a] ELSE assignee
  /\ UNCHANGED located

Init ==
  /\ status = [t \in Tasks |-> "absent"]
  /\ assignee = [t \in Tasks |-> None]
  /\ located = {}
  /\ jobAt = [j \in Jobs |-> "none"]
  /\ jobTask = [j \in Jobs |-> None]
  /\ jobTries = [j \in Jobs |-> 0]
  /\ jobPick = [j \in Jobs |-> None]
  /\ jobWrites = [j \in Jobs |-> {}]
  /\ found = [s \in Sweeps |-> {}]
  /\ requeue = [s \in Sweeps |-> None]
  /\ reqAt = [r \in Requests |-> "idle"]
  /\ reqKind = [r \in Requests |-> "none"]
  /\ reqTask = [r \in Requests |-> None]
  /\ reqAgent = [r \in Requests |-> None]
  /\ reqWrites = [r \in Requests |-> {}]
  /\ reset = {} /\ faulty = {}
  /\ enqueued = 0

-----------------------------------------------------------------------------
(* A document is created unassigned, and the handler fails before it gets  *)
(* to the assignment, which is left to enqueueAssignment.                  *)
CreateTask(t) ==
  /\ status[t] = "absent"
  /\ status' = [status EXCEPT ![t] = "unassigned"]
  /\ located' \in {located, located \cup {t}}
  /\ UNCHANGED <<assignee, jobVars, sweepVars, reqVars, histVars, enqueued>>

-----------------------------------------------------------------------------
(* The queue and its processor.                                            *)

Place(j, t) ==
  /\ jobAt[j] = "none"
  /\ jobAt' = [jobAt EXCEPT ![j] = "waiting"]
  /\ jobTask' = [jobTask EXCEPT ![j] = t]
  /\ jobTries' = [jobTries EXCEPT ![j] = Attempts]
  /\ UNCHANGED <<jobPick, jobWrites>>

Leave(j) ==
  /\ jobAt' = [jobAt EXCEPT ![j] = "none"]
  /\ jobTask' = [jobTask EXCEPT ![j] = None]
  /\ jobTries' = [jobTries EXCEPT ![j] = 0]
  /\ jobPick' = [jobPick EXCEPT ![j] = None]
  /\ jobWrites' = [jobWrites EXCEPT ![j] = {}]

(* A processor that throws is tried again while attempts are left.         *)
TriesLeftForever(j) == Attempts   \* mutant
TriesLeft(j) == jobTries[j] - 1
Throw(j) ==
  IF TriesLeft(j) = 0 THEN Leave(j)
  ELSE /\ jobAt' = [jobAt EXCEPT ![j] = "waiting"]
       /\ jobTries' = [jobTries EXCEPT ![j] = TriesLeft(j)]
       /\ jobPick' = [jobPick EXCEPT ![j] = None]
       /\ jobWrites' = [jobWrites EXCEPT ![j] = {}]
       /\ UNCHANGED jobTask

EnqueueAssignment(j, t) ==
  /\ enqueued < MaxEnqueued
  /\ status[t] # "absent"
  /\ Place(j, t)
  /\ enqueued' = enqueued + 1
  /\ UNCHANGED <<taskVars, sweepVars, reqVars, histVars>>

(* The lock: one atomic update from unassigned to assigning.               *)
LockableTwice(t) == status[t] \in {"unassigned", "assigning"}   \* mutant
Lockable(t) == status[t] = "unassigned"
JobLock(j) ==
  LET t == jobTask[j]
  IN /\ jobAt[j] = "waiting"
     /\ \/ /\ Lockable(t)
           /\ status' = [status EXCEPT ![t] = "assigning"]
           /\ jobAt' = [jobAt EXCEPT ![j] = "locked"]
           /\ UNCHANGED <<jobTask, jobTries, jobPick, jobWrites>>
        \/ /\ ~Lockable(t)
           /\ Leave(j)
           /\ UNCHANGED status
     /\ UNCHANGED <<assignee, located, sweepVars, reqVars, histVars, enqueued>>

(* A task without coordinates is given back and the job is done.           *)
JobGiveBack(j) ==
  /\ jobAt[j] = "locked"
  /\ jobTask[j] \notin located
  /\ status' = [status EXCEPT ![jobTask[j]] = "unassigned"]
  /\ Leave(j)
  /\ UNCHANGED <<assignee, located, sweepVars, reqVars, histVars, enqueued>>

(* findNearestAgent: any agent that sockets, the toggle or a location      *)
(* update have left online, or nobody, also when the query fails.          *)
JobFind(j) ==
  /\ jobAt[j] = "locked"
  /\ jobTask[j] \in located
  /\ \/ \E a \in Agents :
          /\ jobPick' = [jobPick EXCEPT ![j] = a]
          /\ jobAt' = [jobAt EXCEPT ![j] = "found"]
     \/ /\ jobAt' = [jobAt EXCEPT ![j] = "nobody"]
        /\ UNCHANGED jobPick
  /\ UNCHANGED <<taskVars, jobTask, jobTries, jobWrites, sweepVars, reqVars, histVars, enqueued>>

(* Nobody was found: the task is reset by its id and the processor throws. *)
GivenBackNot(t) == "assigning"   \* mutant
GivenBack(t) == "unassigned"
JobReset(j) ==
  /\ jobAt[j] = "nobody"
  /\ status' = [status EXCEPT ![jobTask[j]] = GivenBack(jobTask[j])]
  /\ Throw(j)
  /\ UNCHANGED <<assignee, located, sweepVars, reqVars, histVars, enqueued>>

(* assignTaskToAgent loads the task again ...                              *)
JobLoad(j) ==
  /\ jobAt[j] = "found"
  /\ jobAt' = [jobAt EXCEPT ![j] = "loaded"]
  /\ jobWrites' = [jobWrites EXCEPT ![j] = Modified(jobTask[j], "assigned", jobPick[j])]
  /\ UNCHANGED <<taskVars, jobTask, jobTries, jobPick, sweepVars, reqVars, histVars, enqueued>>

(* ... and saves it as assigned.  The log entry that follows throws.       *)
JobSave(j) ==
  /\ jobAt[j] = "loaded"
  /\ Save(jobTask[j], "assigned", jobPick[j], jobWrites[j])
  /\ Throw(j)
  /\ UNCHANGED <<sweepVars, reqVars, histVars, enqueued>>

(* A database error, no connection to begin with, or the end of the        *)
(* process: the queue tries the job again while attempts are left.         *)
JobDies(j) ==
  /\ jobAt[j] # "none"
  /\ Throw(j)
  /\ faulty' = IF jobAt[j] \in Holding THEN faulty \cup {jobTask[j]} ELSE faulty
  /\ UNCHANGED <<taskVars, sweepVars, reqVars, reset, enqueued>>

-----------------------------------------------------------------------------
(* A sweep finds tasks that are being assigned, then resets each by its id *)
(* and enqueues it.  The interval starts the next sweep whether or not the *)
(* one before it has ended, so several work at a time, each with what it   *)
(* found itself.  The recovery script is one filtered update.              *)

StaleNever == {t \in Tasks : status[t] = "unassigned"}   \* mutant
Stale == {t \in Tasks : status[t] = "assigning"}

Idle(s) == found[s] = {} /\ requeue[s] = None

SweepFind(s, ts) ==
  /\ Idle(s)
  /\ found' = [found EXCEPT ![s] = ts]
  /\ UNCHANGED <<taskVars, jobVars, requeue, reqVars, histVars, enqueued>>

SweepReset(s, t) ==
  /\ t \in found[s] /\ requeue[s] = None
  /\ status' = [status EXCEPT ![t] = "unassigned"]
  /\ found' = [found EXCEPT ![s] = found[s] \ {t}]
  /\ requeue' = [requeue EXCEPT ![s] = t]
  /\ reset' = reset \cup {t}
  /\ UNCHANGED <<assignee, located, jobVars, reqVars, faulty, enqueued>>

SweepEnqueue(s, j) ==
  /\ requeue[s] # None
  /\ Place(j, requeue[s])
  /\ requeue' = [requeue EXCEPT ![s] = None]
  /\ UNCHANGED <<taskVars, found, reqVars, histVars, enqueued>>

(* An operation of the sweep fails, or its process ends, with tasks in     *)
(* hand.                                                                   *)
SweepDies(s) ==
  /\ ~Idle(s)
  /\ found' = [found EXCEPT ![s] = {}]
  /\ requeue' = [requeue EXCEPT ![s] = None]
  /\ UNCHANGED <<taskVars, jobVars, reqVars, histVars, enqueued>>

RecoveredAll(t) == status[t] # "absent"   \* mutant
Recovered(t) == status[t] = "assigning"
RecoverAssigning ==
  \E ts \in SUBSET {t \in Tasks : Recovered(t)} \ {{}} :
    /\ status' = [t \in Tasks |-> IF t \in ts THEN "unassigned" ELSE status[t]]
    /\ reset' = reset \cup ts
    /\ UNCHANGED <<assignee, located, jobVars, sweepVars, reqVars, faulty, enqueued>>

-----------------------------------------------------------------------------
(* Requests.  assign is the administrator's, pickup and deliver are an     *)
(* agent's.  /agent/accept names no task in its path, so that handler      *)
(* never finds one and changes nothing.                                    *)

End(r) ==
  /\ reqAt' = [reqAt EXCEPT ![r] = "idle"]
  /\ reqKind' = [reqKind EXCEPT ![r] = "none"]
  /\ reqTask' = [reqTask EXCEPT ![r] = None]
  /\ reqAgent' = [reqAgent EXCEPT ![r] = None]
  /\ reqWrites' = [reqWrites EXCEPT ![r] = {}]

Load(r, kind, t, a, fields) ==
  /\ reqAt[r] = "idle"
  /\ status[t] # "absent"
  /\ reqAt' = [reqAt EXCEPT ![r] = "loaded"]
  /\ reqKind' = [reqKind EXCEPT ![r] = kind]
  /\ reqTask' = [reqTask EXCEPT ![r] = t]
  /\ reqAgent' = [reqAgent EXCEPT ![r] = a]
  /\ reqWrites' = [reqWrites EXCEPT ![r] = fields]
  /\ UNCHANGED <<taskVars, jobVars, sweepVars, histVars, enqueued>>

(* An agent may act on a task that is its own or nobody's; whoever may,    *)
(* the assigned agent is left as it is and the status is not looked at, so *)
(* a task may be picked up or delivered again.                             *)
LoadForAssign(r, t) ==
  \E a \in Agents : Load(r, "assign", t, a, Modified(t, "assigned", a))
LoadForPickup(r, t) == Load(r, "pickup", t, None, Modified(t, "picked_up", assignee[t]))
LoadForDelivery(r, t) == Load(r, "deliver", t, None, Modified(t, "delivered", assignee[t]))

Finish(r, kind, st) ==
  /\ reqAt[r] = "loaded" /\ reqKind[r] = kind
  /\ Save(reqTask[r], st, reqAgent[r], reqWrites[r])
  /\ End(r)
  /\ UNCHANGED <<jobVars, sweepVars, histVars, enqueued>>

AssignAgent(r) == Finish(r, "assign", "assigned")
ConfirmPickup(r) == Finish(r, "pickup", "picked_up")
ConfirmDelivery(r) == Finish(r, "deliver", "delivered")

(* A database error, or the end of the process, between two steps.         *)
RequestDies(r) ==
  /\ reqAt[r] # "idle"
  /\ End(r)
  /\ UNCHANGED <<taskVars, jobVars, sweepVars, histVars, enqueued>>

-----------------------------------------------------------------------------
JobStep(j) ==
  \/ JobLock(j) \/ JobGiveBack(j) \/ JobFind(j) \/ JobReset(j) \/ JobLoad(j) \/ JobSave(j)

Sweep(s) ==
  \/ \E ts \in SUBSET Stale \ {{}} : SweepFind(s, ts)
  \/ \E t \in Tasks : SweepReset(s, t)
  \/ \E j \in Jobs : SweepEnqueue(s, j)
  \/ SweepDies(s)

RequestStep(r) ==
  \/ AssignAgent(r) \/ ConfirmPickup(r) \/ ConfirmDelivery(r)
  \/ RequestDies(r)

Next ==
  \/ \E t \in Tasks : CreateTask(t)
  \/ \E j \in Jobs : \/ \E t \in Tasks : EnqueueAssignment(j, t)
                     \/ JobStep(j)
                     \/ JobDies(j)
  \/ \E s \in Sweeps : Sweep(s)
  \/ RecoverAssigning
  \/ \E r \in Requests : \/ \E t \in Tasks : \/ LoadForAssign(r, t)
                                            \/ LoadForPickup(r, t)
                                            \/ LoadForDelivery(r, t)
                         \/ RequestStep(r)

Spec == Init /\ [][Next]_vars

(* The queue runs a job that waits and a processor that awaits resumes.    *)
(* The interval of the sweep fires again and again, also when its process  *)
(* was restarted: a task that stays in assigning grows older than the      *)
(* threshold and is found, and the sweeps that found it do not all die     *)
(* before one resets it; one that awaits the queue is answered.            *)
FairSpec ==
  /\ Spec
  /\ \A t \in Tasks :
       /\ SF_vars(\E s \in Sweeps, ts \in SUBSET Stale : t \in ts /\ SweepFind(s, ts))
       /\ SF_vars(\E s \in Sweeps : SweepReset(s, t))
  /\ WF_vars(\E s \in Sweeps, j \in Jobs : SweepEnqueue(s, j))
  /\ \A j \in Jobs : WF_vars(JobStep(j))

-----------------------------------------------------------------------------
(* Every document and every local copy has its type.  "assigning" is none  *)
(* of the states the schema of a task lists: findOneAndUpdate of the       *)
(* worker writes it past the schema's validators.                          *)
TypeOK ==
  /\ status \in [Tasks -> Status]
  /\ assignee \in [Tasks -> Agents \cup {None}]
  /\ jobAt \in [Jobs -> {"none", "waiting"} \cup Holding]
  /\ jobTask \in [Jobs -> Tasks \cup {None}]
  /\ jobTries \in [Jobs -> 0 .. Attempts]
  /\ jobPick \in [Jobs -> Agents \cup {None}]
  /\ jobWrites \in [Jobs -> SUBSET {"status", "assignee"}]
  /\ found \in [Sweeps -> SUBSET Tasks]
  /\ requeue \in [Sweeps -> Tasks \cup {None}]
  /\ reqAt \in [Requests -> {"idle", "loaded"}]
  /\ reqKind \in [Requests -> {"none", "assign", "pickup", "deliver"}]
  /\ reqTask \in [Requests -> Tasks \cup {None}]
  /\ reqAgent \in [Requests -> Agents \cup {None}]
  /\ reqWrites \in [Requests -> SUBSET {"status", "assignee"}]
  /\ located \subseteq Tasks /\ reset \subseteq Tasks /\ faulty \subseteq Tasks
  /\ enqueued \in Nat

(* The atomic update of the worker is a lock: two jobs work on one task    *)
(* only if the sweep or the recovery script took it from the first, or the *)
(* first died.                                                             *)
LockIsExclusive ==
  \A t \in Tasks \ reset : \A j, k \in Holders(t) : j = k

(* However requests, jobs and sweeps overlap, a task is left in assigning  *)
(* with no job working on it only after a job died on it.                  *)
StrandedOnlyByFault ==
  \A t \in Tasks \ faulty : status[t] = "assigning" => Holders(t) # {}

(* A delivered task is offered again only by a sweep or a job that had it  *)
(* in hand already; the recovery script and new jobs leave it alone.       *)
DeliveredStaysClosed ==
  [][\A t \in Tasks :
       status[t] = "delivered" /\ status'[t] = "unassigned"
         => (\E s \in Sweeps : t \in found[s]) \/ Holders(t) # {}]_vars

(* Whatever dies, no task stays in assigning for ever: the sweep is for    *)
(* that.                                                                   *)
NoTaskStaysAssigning ==
  \A t \in Tasks : []<>(status[t] # "assigning")

(* No job is retried for ever: each leaves the queue.                      *)
JobsEnd == \A j \in Jobs : []<>(jobAt[j] = "none")

=============================================================================
