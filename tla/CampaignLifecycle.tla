------------------------- MODULE CampaignLifecycle -------------------------
(***************************************************************************)
(* One campaign from its creation to its end: the status column, the job   *)
(* of the campaign-execution queue, the execution lock, the workers that   *)
(* run processCampaignExecution, the API requests (start, pause, resume,   *)
(* delete) and the scheduler tick (reconcileFailedCampaignJobs and the due *)
(* campaigns it starts).                                                   *)
(*                                                                         *)
(* Every await on Postgres or Redis ends a step: what a request read       *)
(* before it may be stale when it writes.  Recipients are only counted     *)
(* here; CampaignSend has them one by one.                                 *)
(***************************************************************************)
EXTENDS Naturals

CONSTANTS
  Exec,          \* worker slots that may run the campaign's job
  Client,        \* API requests of the owner, each made at most once
  Asks,          \* what each of them may ask for
  Scheduler,     \* the scheduler, when it calls startCampaign
  Creator,       \* the request that created the campaign
  NoExec,        \* nobody
  Recipients,    \* campaign_messages rows
  MaxFaults,     \* bound on faults, deferrals and crashes together
  FaultKinds,    \* those that may happen
  Workloads      \* bounds: the clients that ask anything, the slots that are there,
                 \* how many faults of which kinds

Requester == Client \cup {Scheduler, Creator}

ASSUME ActorsAssumption ==
  /\ NoExec \notin Exec
  /\ Scheduler \notin Client /\ Creator \notin Client /\ Scheduler # Creator
ASSUME AsksAssumption ==
  Asks \in [Client -> SUBSET {"start", "pause", "resume", "delete"}]
ASSUME BoundsAssumption ==
  /\ Recipients \in Nat /\ MaxFaults \in Nat
  \* "stall": BullMQ fails the job of a live but late worker; "lapse": a live
  \* worker loses the execution lock.
  /\ FaultKinds \subseteq {"defer", "failure", "crash", "stall", "lapse"}
  /\ Workloads \subseteq
       [asking : SUBSET Client, slots : SUBSET Exec,
        left : 0..MaxFaults, kinds : SUBSET FaultKinds]

VARIABLES
  status,   \* campaigns.status, "deleted" when the row is gone
  due,      \* scheduled_at is set and has passed
  pending,  \* campaign_messages rows not attempted yet
  job,      \* state of the BullMQ job whose id is the campaign's
  jobOwner, \* the worker slot that holds the active job
  lock,     \* Redis key campaign-execution-lock:<campaign>
  at,       \* where each execution is
  ends,     \* how an execution that leaves will settle its job
  op,       \* where each request is
  read,     \* the status a request read
  tick,     \* where the scheduler tick is
  tickRead, \* the status the tick's reconciliation read
  faults    \* how many faults may still happen, and of which kinds

campaign == <<status, due, pending>>
queue == <<job, jobOwner>>
execution == <<at, ends>>
request == <<op, read>>
schedule == <<tick, tickRead>>
vars == <<status, due, pending, job, jobOwner, lock, at, ends, op, read,
          tick, tickRead, faults>>
-----------------------------------------------------------------------------
Status == {"draft", "scheduled", "running", "paused", "completed", "failed", "deleted"}
JobState == {"none", "waiting", "delayed", "active", "completed", "failed"}
\* The execution is inside its try block and holds or held the lock.
Inside == {"loading", "closing", "admitted", "starting", "selecting", "checking",
           "chunk", "finished", "completing", "rechecking", "failing", "finishing", "marking",
           "leaving"}

TypeOK ==
  /\ status \in Status /\ due \in BOOLEAN /\ pending \in 0..Recipients
  /\ job \in JobState /\ jobOwner \in Exec \cup {NoExec}
  /\ lock \in Exec \cup {NoExec}
  /\ at \in [Exec -> Inside \cup {"absent", "idle", "entering", "settling"}]
  /\ ends \in [Exec -> {"completed", "failed", "delayed"}]
  /\ op \in [Requester -> {"absent", "idle", "finalize", "start", "remove", "schedule", "add",
                           "promoteSchedule", "promote", "rewriteRunning",
                           "rewriteScheduled", "pause", "resume", "delete", "done"}]
  /\ read \in [Requester -> Status]
  /\ tick \in {"idle", "lock", "complete", "job", "mark", "scan", "due", "starting"}
  /\ tickRead \in Status
  /\ faults \in [left : 0..MaxFaults, kinds : SUBSET FaultKinds]

\* createCampaign has committed: a draft, a campaign for later, or one to start
\* now, whose job is about to be added.
Init ==
  /\ \/ status = "draft" /\ due = FALSE
     \/ status = "scheduled" /\ due \in BOOLEAN
  /\ pending = Recipients
  /\ job = "none" /\ jobOwner = NoExec
  /\ lock = NoExec
  /\ ends = [e \in Exec |-> "completed"]
  /\ \E w \in Workloads, creating \in IF due THEN {"add", "done"} ELSE {"done"} :
       /\ op = [r \in Requester |-> IF r = Creator THEN creating
                                    ELSE IF r \in w.asking \cup {Scheduler} THEN "idle"
                                    ELSE "absent"]
       /\ at = [e \in Exec |-> IF e \in w.slots THEN "idle" ELSE "absent"]
       /\ faults = [left |-> w.left, kinds |-> w.kinds]
  /\ read = [r \in Requester |-> status]
  /\ tick = "idle" /\ tickRead = status
-----------------------------------------------------------------------------
(***************************************************************************)
(* The campaign row.                                                       *)
(***************************************************************************)
\* CampaignModel.updateStatus: by id, whatever the status became meanwhile.
UpdateStatus(s) == status' = IF status = "deleted" THEN status ELSE s

\* Mutant of NothingPending: without whereNotExists.
RunningOrFailed == status \in {"running", "failed"}

\* completeIfNoPendingMessages and markRunningJobFailed: one conditional UPDATE.
NothingPending == status \in {"running", "failed"} /\ pending = 0
CompleteIfNoPendingMessages ==
  status' = IF NothingPending THEN "completed" ELSE status
MarkRunningJobFailed ==
  status' = IF status = "running" /\ pending > 0 THEN "failed" ELSE status

ScheduledTimeArrives ==
  /\ status = "scheduled" /\ ~due
  /\ due' = TRUE
  /\ UNCHANGED <<status, pending, queue, lock, execution, request, schedule, faults>>

Fault(kind) ==
  /\ kind \in faults.kinds /\ faults.left > 0
  /\ faults' = [faults EXCEPT !.left = @ - 1]

LeaseCanLapse == "lapse" \in faults.kinds
-----------------------------------------------------------------------------
(***************************************************************************)
(* The job and the execution of a worker.                                  *)
(***************************************************************************)
Goto(e, a) == at' = [at EXCEPT ![e] = a] /\ UNCHANGED ends
Leave(e, how) == at' = [at EXCEPT ![e] = "leaving"] /\ ends' = [ends EXCEPT ![e] = how]

TakeJob(e) ==
  /\ job = "waiting"
  /\ at[e] = "idle"
  /\ job' = "active" /\ jobOwner' = e
  /\ Goto(e, "entering")
  /\ UNCHANGED <<campaign, lock, request, schedule, faults>>

\* A delay runs out.
DelayEnds ==
  /\ job = "delayed"
  /\ job' = "waiting"
  /\ UNCHANGED <<campaign, jobOwner, lock, execution, request, schedule, faults>>

\* Mutant of AcquireLock: SET without NX.
AcquireLockWithoutNX(e) ==
  /\ at[e] = "entering"
  /\ lock' = e
  /\ Goto(e, "loading")
  /\ UNCHANGED <<campaign, queue, request, schedule, faults>>

\* SET NX on the lock key.
AcquireLock(e) ==
  /\ at[e] = "entering"
  /\ lock = NoExec
  /\ lock' = e
  /\ Goto(e, "loading")
  /\ UNCHANGED <<campaign, queue, request, schedule, faults>>

\* A held lock, or a worker that drains, delays the job by a second.
DeferAtEntry(e) ==
  /\ at[e] = "entering"
  /\ (lock # NoExec /\ UNCHANGED faults) \/ Fault("defer")
  /\ Goto(e, "idle")
  /\ IF jobOwner = e THEN job' = "delayed" /\ jobOwner' = NoExec ELSE UNCHANGED queue
  /\ UNCHANGED <<campaign, lock, request, schedule>>

\* defer() in the try block: moveToDelayed needs the job's token, and throws
\* into the catch block without it.
Defer(e) ==
  IF jobOwner = e THEN job' = "delayed" /\ jobOwner' = NoExec /\ Leave(e, "delayed")
                  ELSE Goto(e, "failing") /\ UNCHANGED queue

LoadCampaign(e) ==
  /\ at[e] = "loading"
  /\ \/ status = "failed" /\ Goto(e, "closing")
     \/ status \in {"paused", "completed", "deleted"} /\ Leave(e, "completed")
     \/ status = "running" /\ Goto(e, "admitted")
     \/ status \in {"draft", "scheduled"} /\ Goto(e, "starting")
  /\ UNCHANGED <<campaign, queue, lock, request, schedule, faults>>

\* A failed campaign is only ever completed here, never run.
CloseFailedCampaign(e) ==
  /\ at[e] = "closing"
  /\ CompleteIfNoPendingMessages
  /\ Leave(e, "completed")
  /\ UNCHANGED <<due, pending, queue, lock, request, schedule, faults>>

\* The slot is held; the status read before it decides this write.
MarkRunning(e) ==
  /\ at[e] = "starting"
  /\ UpdateStatus("running")
  /\ Goto(e, "admitted")
  /\ UNCHANGED <<due, pending, queue, lock, request, schedule, faults>>

LoadConfiguration(e) ==
  /\ at[e] = "admitted"
  /\ Goto(e, "selecting")
  /\ UNCHANGED <<campaign, queue, lock, request, schedule, faults>>

SelectRecipients(e) ==
  /\ at[e] = "selecting"
  /\ Goto(e, IF pending = 0 THEN "completing" ELSE "checking")
  /\ UNCHANGED <<campaign, queue, lock, request, schedule, faults>>

\* Before every chunk and after every batch.
CheckStatus(e) ==
  /\ at[e] \in {"checking", "finished"}
  /\ IF status = "running"
       THEN Goto(e, IF at[e] = "checking" THEN "chunk" ELSE "selecting")
       ELSE Leave(e, "completed")
  /\ UNCHANGED <<campaign, queue, lock, request, schedule, faults>>

\* One claimed recipient stands for a chunk, the last of its batch or not; a
\* chunk may find its recipients claimed by others or deleted, or defer them.
SendChunk(e) ==
  /\ at[e] = "chunk"
  /\ \/ pending' = (IF pending > 0 THEN pending - 1 ELSE 0) /\ UNCHANGED faults
     \/ Fault("defer") /\ UNCHANGED pending
  /\ (pending > 0 /\ Goto(e, "checking")) \/ Goto(e, "finished")
  /\ UNCHANGED <<status, due, queue, lock, request, schedule>>

\* The heartbeat has found another owner: the chunk throws.
NoticeLostLock(e) ==
  /\ at[e] = "chunk" /\ lock # e
  /\ Goto(e, "failing")
  /\ UNCHANGED <<campaign, queue, lock, request, schedule, faults>>

CompleteCampaign(e) ==
  /\ at[e] = "completing"
  /\ CompleteIfNoPendingMessages
  /\ IF NothingPending THEN Leave(e, "completed") ELSE Goto(e, "rechecking")
  /\ UNCHANGED <<due, pending, queue, lock, request, schedule, faults>>

RecheckStatus(e) ==
  /\ at[e] = "rechecking"
  /\ IF status = "running" THEN Defer(e) ELSE Leave(e, "completed") /\ UNCHANGED queue
  /\ UNCHANGED <<campaign, lock, request, schedule, faults>>

\* Slot, cooldown, deferred recipients, drain, no database connection, or a
\* schedule that is still ahead by the worker's clock.
DeferExecution(e) ==
  /\ Fault("defer")
  /\ \/ at[e] = "loading" /\ status = "scheduled"
     \/ at[e] \in {"starting", "admitted", "selecting", "checking", "chunk", "finished",
                   "completing", "rechecking"}
  /\ Defer(e)
  /\ UNCHANGED <<campaign, lock, request, schedule>>

\* Missing template, number or account, an inactive number, Redis.
ExecutionFails(e) ==
  /\ Fault("failure")
  /\ at[e] \in {"loading", "starting", "admitted", "selecting", "checking",
               "chunk", "finished"}
  /\ Goto(e, "failing")
  /\ UNCHANGED <<campaign, queue, lock, request, schedule>>

\* The catch block leaves the status alone when the database is down.
DatabaseFails(e) ==
  /\ Fault("failure")
  /\ at[e] \in Inside \ {"leaving"}
  /\ Leave(e, "failed")
  /\ UNCHANGED <<campaign, queue, lock, request, schedule>>

CatchReadsStatus(e) ==
  /\ at[e] = "failing"
  /\ IF status = "running" THEN Goto(e, "finishing") ELSE Leave(e, "failed")
  /\ UNCHANGED <<campaign, queue, lock, request, schedule, faults>>

CatchCompletes(e) ==
  /\ at[e] = "finishing"
  /\ CompleteIfNoPendingMessages
  /\ IF NothingPending THEN Leave(e, "completed") ELSE Goto(e, "marking")
  /\ UNCHANGED <<due, pending, queue, lock, request, schedule, faults>>

CatchMarksFailed(e) ==
  /\ at[e] = "marking"
  /\ MarkRunningJobFailed
  /\ Leave(e, "failed")
  /\ UNCHANGED <<due, pending, queue, lock, request, schedule, faults>>

\* The finally block deletes the lock only while it is this execution's; a
\* lock that Redis fails to delete stays for its lease.
ReleaseLock(e) ==
  /\ at[e] = "leaving"
  /\ \/ lock' = (IF lock = e THEN NoExec ELSE lock) /\ UNCHANGED faults
     \/ Fault("failure") /\ UNCHANGED lock
  /\ Goto(e, IF ends[e] = "delayed" THEN "idle" ELSE "settling")
  /\ UNCHANGED <<campaign, queue, request, schedule>>

\* BullMQ moves the job to its end if the worker still holds it.
SettleJob(e) ==
  /\ at[e] = "settling"
  /\ IF jobOwner = e THEN job' = ends[e] /\ jobOwner' = NoExec ELSE UNCHANGED queue
  /\ Goto(e, "idle")
  /\ UNCHANGED <<campaign, lock, request, schedule, faults>>

Crash(e) ==
  /\ Fault("crash")
  /\ at[e] \notin {"absent", "idle"}
  /\ Goto(e, "idle")
  /\ UNCHANGED <<campaign, queue, lock, request, schedule>>

\* maxStalledCount is 0: a stalled job fails at once.
StalledJobFails ==
  /\ job = "active" /\ at[jobOwner] = "idle"
  /\ job' = "failed" /\ jobOwner' = NoExec
  /\ UNCHANGED <<campaign, lock, execution, request, schedule, faults>>

LiveJobFails ==
  /\ Fault("stall")
  /\ job = "active" /\ at[jobOwner] # "idle"
  /\ job' = "failed" /\ jobOwner' = NoExec
  /\ UNCHANGED <<campaign, lock, execution, request, schedule>>

DeadLockExpires ==
  /\ lock # NoExec /\ at[lock] \notin Inside
  /\ lock' = NoExec
  /\ UNCHANGED <<campaign, queue, execution, request, schedule, faults>>

LiveLockExpires ==
  /\ Fault("lapse")
  /\ lock # NoExec /\ at[lock] \in Inside
  /\ lock' = NoExec
  /\ UNCHANGED <<campaign, queue, execution, request, schedule>>
-----------------------------------------------------------------------------
(***************************************************************************)
(* The API requests.                                                       *)
(***************************************************************************)
GoOn(r, p) == op' = [op EXCEPT ![r] = p] /\ UNCHANGED read

Begin(r, p) == op' = [op EXCEPT ![r] = p] /\ read' = [read EXCEPT ![r] = status]

BeginStart(r) ==
  /\ op[r] = "idle"
  /\ status # "deleted"
  /\ Begin(r, IF status = "failed" /\ pending = 0 THEN "finalize" ELSE "start")
  /\ UNCHANGED <<campaign, queue, lock, execution, faults>>

FinalizeFailedCampaign(r) ==
  /\ op[r] = "finalize"
  /\ CompleteIfNoPendingMessages
  /\ GoOn(r, "done")
  /\ UNCHANGED <<due, pending, queue, lock, execution, schedule, faults>>

\* startCampaign looks at the job by id and decides on the status it read.
AfterInspection(r) ==
  CASE job \in {"completed", "failed"} -> "remove"
    [] job = "none" -> "schedule"
    [] job = "active" /\ read[r] = "failed" -> "rewriteRunning"
    [] job \in {"waiting", "delayed"} /\ read[r] = "paused" -> "remove"
    [] job = "delayed" /\ read[r] = "scheduled" -> "promoteSchedule"
    [] job \in {"waiting", "delayed"} /\ read[r] = "failed" -> "rewriteScheduled"
    [] OTHER -> "done"

InspectJobToStart(r) ==
  /\ op[r] = "start"
  /\ GoOn(r, AfterInspection(r))
  /\ UNCHANGED <<campaign, queue, lock, execution, schedule, faults>>

\* remove() throws for an active job.
RemoveJob(r) ==
  /\ op[r] = "remove"
  /\ IF job = "active" THEN GoOn(r, "done") /\ UNCHANGED job
                       ELSE GoOn(r, "schedule") /\ job' = "none"
  /\ UNCHANGED <<campaign, jobOwner, lock, execution, schedule, faults>>

Schedule(r) ==
  /\ op[r] = "schedule"
  /\ UpdateStatus("scheduled") /\ due' = TRUE
  /\ GoOn(r, "add")
  /\ UNCHANGED <<pending, queue, lock, execution, schedule, faults>>

\* Mutant of AddJob: the request returns without queue.add.
AddNothing(r) ==
  /\ op[r] = "add"
  /\ GoOn(r, "done")
  /\ UNCHANGED <<campaign, queue, lock, execution, schedule, faults>>

\* A job whose id exists is not added again.
AddJob(r) ==
  /\ op[r] = "add"
  /\ job' = IF job = "none" THEN "waiting" ELSE job
  /\ GoOn(r, "done")
  /\ UNCHANGED <<campaign, jobOwner, lock, execution, schedule, faults>>

ScheduleNow(r) ==
  /\ op[r] = "promoteSchedule"
  /\ UpdateStatus("scheduled") /\ due' = TRUE
  /\ GoOn(r, "promote")
  /\ UNCHANGED <<pending, queue, lock, execution, schedule, faults>>

\* promote() throws unless the job is still delayed.
PromoteJob(r) ==
  /\ op[r] = "promote"
  /\ job' = IF job = "delayed" THEN "waiting" ELSE job
  /\ GoOn(r, "done")
  /\ UNCHANGED <<campaign, jobOwner, lock, execution, schedule, faults>>

RewriteFailedCampaign(r) ==
  /\ op[r] \in {"rewriteRunning", "rewriteScheduled"}
  /\ UpdateStatus(IF op[r] = "rewriteRunning" THEN "running" ELSE "scheduled")
  /\ due' = TRUE
  /\ GoOn(r, "done")
  /\ UNCHANGED <<pending, queue, lock, execution, schedule, faults>>

BeginPause(r) ==
  /\ op[r] = "idle"
  /\ status = "running"
  /\ Begin(r, "pause")
  /\ UNCHANGED <<campaign, queue, lock, execution, schedule, faults>>

Pause(r) ==
  /\ op[r] = "pause"
  /\ UpdateStatus("paused")
  /\ GoOn(r, "done")
  /\ UNCHANGED <<due, pending, queue, lock, execution, schedule, faults>>

BeginResume(r) ==
  /\ op[r] = "idle"
  /\ status = "paused"
  /\ Begin(r, "resume")
  /\ UNCHANGED <<campaign, queue, lock, execution, schedule, faults>>

InspectJobToResume(r) ==
  /\ op[r] = "resume"
  /\ GoOn(r, CASE job = "active" -> "done" [] job = "none" -> "schedule" [] OTHER -> "remove")
  /\ UNCHANGED <<campaign, queue, lock, execution, schedule, faults>>

BeginDelete(r) ==
  /\ op[r] = "idle"
  /\ status \notin {"running", "deleted"}
  /\ Begin(r, "delete")
  /\ UNCHANGED <<campaign, queue, lock, execution, schedule, faults>>

\* The recipients go with the row (ON DELETE CASCADE).
Delete(r) ==
  /\ op[r] = "delete"
  /\ status' = "deleted" /\ pending' = 0
  /\ GoOn(r, "done")
  /\ UNCHANGED <<due, queue, lock, execution, schedule, faults>>

\* The API process dies in the middle of a request.
RequestCrashes(r) ==
  /\ Fault("crash")
  /\ op[r] \notin {"absent", "idle", "done"}
  /\ GoOn(r, "done")
  /\ UNCHANGED <<campaign, queue, lock, execution, schedule>>
-----------------------------------------------------------------------------
(***************************************************************************)
(* The scheduler tick: reconciliation, then the due campaigns.             *)
(***************************************************************************)
Tick(t) == tick' = t /\ UNCHANGED tickRead

\* Mutant of BeginTick: getRunningCampaigns for getCampaignsForReconciliation.
BeginTickOfRunning ==
  /\ tick = "idle"
  /\ tick' = IF status = "running" THEN "lock" ELSE "scan"
  /\ tickRead' = status
  /\ UNCHANGED <<campaign, queue, lock, execution, request, faults>>

\* getCampaignsForReconciliation.
BeginTick ==
  /\ tick = "idle"
  /\ tick' = IF status \in {"running", "failed"} THEN "lock" ELSE "scan"
  /\ tickRead' = status
  /\ UNCHANGED <<campaign, queue, lock, execution, request, faults>>

ReconcileChecksLock ==
  /\ tick = "lock"
  /\ Tick(IF lock = NoExec THEN "complete" ELSE "scan")
  /\ UNCHANGED <<campaign, queue, lock, execution, request, faults>>

ReconcileCompletes ==
  /\ tick = "complete"
  /\ CompleteIfNoPendingMessages
  /\ Tick(IF NothingPending \/ tickRead = "failed" THEN "scan" ELSE "job")
  /\ UNCHANGED <<due, pending, queue, lock, execution, request, faults>>

\* Mutant of ReconcileInspectsJob: a failed job counts as one that is not visible.
ReconcileOverlooksJob ==
  /\ tick = "job"
  /\ Tick("scan")
  /\ UNCHANGED <<campaign, queue, lock, execution, request, faults>>

ReconcileInspectsJob ==
  /\ tick = "job"
  /\ Tick(IF job = "failed" THEN "mark" ELSE "scan")
  /\ UNCHANGED <<campaign, queue, lock, execution, request, faults>>

ReconcileMarksFailed ==
  /\ tick = "mark"
  /\ MarkRunningJobFailed
  /\ Tick("scan")
  /\ UNCHANGED <<due, pending, queue, lock, execution, request, faults>>

ScanDueCampaigns ==
  /\ tick = "scan"
  /\ Tick(IF status = "scheduled" /\ due THEN "due" ELSE "idle")
  /\ UNCHANGED <<campaign, queue, lock, execution, request, faults>>

\* startCampaign reads the campaign again; a deleted one is not found.
SchedulerStarts ==
  /\ tick = "due"
  /\ IF status = "deleted" THEN Tick("idle") /\ UNCHANGED request
                           ELSE Tick("starting") /\ BeginStart(Scheduler)
  /\ UNCHANGED <<campaign, queue, lock, execution, faults>>

SchedulerDone ==
  /\ tick = "starting" /\ op[Scheduler] = "done"
  /\ GoOn(Scheduler, "idle")
  /\ Tick("idle")
  /\ UNCHANGED <<campaign, queue, lock, execution, faults>>
-----------------------------------------------------------------------------
ExecutionStep(e) ==
  \/ TakeJob(e) \/ AcquireLock(e) \/ DeferAtEntry(e) \/ LoadCampaign(e) \/ CloseFailedCampaign(e)
  \/ MarkRunning(e) \/ LoadConfiguration(e) \/ SelectRecipients(e) \/ CheckStatus(e)
  \/ SendChunk(e) \/ CompleteCampaign(e) \/ RecheckStatus(e)
  \/ CatchReadsStatus(e) \/ CatchCompletes(e) \/ CatchMarksFailed(e)
  \/ ReleaseLock(e) \/ SettleJob(e)

ExecutionFault(e) ==
  \/ NoticeLostLock(e) \/ DeferExecution(e) \/ ExecutionFails(e) \/ DatabaseFails(e)
  \/ Crash(e)

RequestStep(r) ==
  \/ FinalizeFailedCampaign(r) \/ InspectJobToStart(r) \/ RemoveJob(r) \/ Schedule(r)
  \/ AddJob(r) \/ ScheduleNow(r) \/ PromoteJob(r) \/ RewriteFailedCampaign(r)
  \/ Pause(r) \/ InspectJobToResume(r) \/ Delete(r)

ClientBegins(c) ==
  \/ "start" \in Asks[c] /\ BeginStart(c) /\ UNCHANGED schedule
  \/ "pause" \in Asks[c] /\ BeginPause(c)
  \/ "resume" \in Asks[c] /\ BeginResume(c)
  \/ "delete" \in Asks[c] /\ BeginDelete(c)

TickStep ==
  \/ BeginTick \/ ReconcileChecksLock \/ ReconcileCompletes \/ ReconcileInspectsJob
  \/ ReconcileMarksFailed \/ ScanDueCampaigns \/ SchedulerStarts \/ SchedulerDone

TimeStep == DelayEnds \/ StalledJobFails \/ DeadLockExpires \/ ScheduledTimeArrives

Next ==
  \/ \E e \in Exec : ExecutionStep(e) \/ ExecutionFault(e)
  \/ \E r \in Requester : RequestStep(r) \/ RequestCrashes(r)
  \/ \E c \in Client : ClientBegins(c)
  \/ TickStep
  \/ TimeStep
  \/ LiveJobFails
  \/ LiveLockExpires

Spec == Init /\ [][Next]_vars

\* A live execution, a request in progress and the tick go on; delays, dead
\* locks and stalls of dead workers run out.  No client has to ask anything.
Fairness ==
  /\ \A e \in Exec : WF_vars(ExecutionStep(e))
  /\ \A r \in Requester : WF_vars(RequestStep(r))
  /\ WF_vars(TickStep)
  /\ WF_vars(DelayEnds) /\ WF_vars(StalledJobFails) /\ WF_vars(DeadLockExpires)
  /\ WF_vars(ScheduledTimeArrives)

LiveSpec == Spec /\ Fairness
-----------------------------------------------------------------------------
(***************************************************************************)
(* Properties.                                                             *)
(***************************************************************************)
\* docs/campaign-no-retry.md, "Completion still requires zero pending
\* recipients", at every one of the five places that may complete it.
CompletedMeansProcessed == status = "completed" => pending = 0

\* While live workers keep the lock, at most one execution of the campaign is
\* past it, however often its job stalled, was removed and was added again.
OneExecution ==
  ~LeaseCanLapse =>
    \A d, e \in Exec : at[d] \in Inside /\ at[e] \in Inside => d = e

\* Why: an execution past the lock holds it.
LockInv == ~LeaseCanLapse => \A e \in Exec : at[e] \in Inside => lock = e

\* Whether requests of clients, but no fault, or one fault, but no request, may have
\* disturbed the campaign (a second fault leaves none of MaxFaults).
Calm == (\E c \in Client : op[c] # "absent") \/ MaxFaults - faults.left < 2

\* A campaign that should run does not stay so for ever: it completes, fails,
\* or somebody pauses or deletes it.
EventuallyStops ==
  (status \in {"running", "scheduled"} /\ Calm) ~>
    (status \notin {"running", "scheduled"} \/ ~Calm)

\* docs/campaign-no-retry.md: "Previously stopped campaigns require an explicit
\* start to continue their pending rows."
StoppedNeedsExplicitStart ==
  [][status = "failed" /\ status' \notin {"failed", "completed"}
       => \E c \in Client : op'[c] # op[c]]_vars

\* app/services/campaignRecovery.ts:25: "Preserve an operator pause or a concurrent status
\* change": a campaign that was scheduled and set running again meanwhile, and whose new
\* job waits or is being executed, is not marked failed for the job before it.
RestartIsPreserved ==
  [][status = "running" /\ status' = "failed" /\ tick = "mark"
       => job \notin {"waiting", "delayed", "active"}]_vars

\* A campaign with nothing left to send is finalized, whatever failed before
\* (docs/campaign-no-retry.md: "When no live execution lock and no pending
\* recipients remain, it marks the campaign completed").
ExhaustedIsFinalized ==
  (status \in {"running", "failed"} /\ pending = 0) ~> (status \notin {"running", "failed"})
=============================================================================
