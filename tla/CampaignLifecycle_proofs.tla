---------------------- MODULE CampaignLifecycle_proofs ----------------------
(* Proofs about CampaignLifecycle for any number of workers and requests. *)
EXTENDS CampaignLifecycle, TLAPS

USE ActorsAssumption, AsksAssumption, BoundsAssumption

\* A fault uses up one of those left; which kinds may happen never changes.
LEMMA FaultUsedUp ==
  ASSUME faults \in [left : 0..MaxFaults, kinds : SUBSET FaultKinds], NEW k, Fault(k)
  PROVE  /\ faults' \in [left : 0..MaxFaults, kinds : SUBSET FaultKinds]
         /\ faults'.kinds = faults.kinds
BY DEF Fault

\* The campaign, its job, the lock and every execution and request stay well
\* formed: no handler writes a state another one does not know.
THEOREM TypeCorrect == Spec => []TypeOK
<1>1. Init => TypeOK
  <2> SUFFICES ASSUME Init
               PROVE  TypeOK
    OBVIOUS
  <2>1. status \in Status /\ pending \in 0..Recipients
    BY DEF Init, Status
  <2>2. due \in BOOLEAN
    BY Zenon DEF Init
  <2>3. op \in [Requester -> {"absent", "add", "done", "idle"}]
    <3>1. PICK w \in Workloads, creating \in {"add", "done"} :
            op = [r \in Requester |-> IF r = Creator THEN creating
                                     ELSE IF r \in w.asking \cup {Scheduler} THEN "idle"
                                     ELSE "absent"]
      BY Zenon DEF Init
    <3> QED  BY <3>1
  <2>4. /\ read \in [Requester -> Status]
        /\ at \in [Exec -> {"idle", "absent"}]
    <3>1. PICK w \in Workloads :
            at = [e \in Exec |-> IF e \in w.slots THEN "idle" ELSE "absent"]
      BY Zenon DEF Init
    <3> QED  BY <2>1, <3>1 DEF Init
  <2>5. faults \in [left : 0..MaxFaults, kinds : SUBSET FaultKinds]
    <3>1. PICK w \in Workloads : faults = [left |-> w.left, kinds |-> w.kinds]
      BY Zenon DEF Init
    <3> QED  BY <3>1
  <2> QED  BY <2>1, <2>2, <2>3, <2>4, <2>5 DEF Init, TypeOK, Status, JobState, Inside
<1>2. TypeOK /\ [Next]_vars => TypeOK'
  <2> SUFFICES ASSUME TypeOK, [Next]_vars
               PROVE  TypeOK'
    OBVIOUS
  <2> USE DEF Status, JobState, Inside, campaign, queue, execution, request, schedule, TypeOK
  <2>1. ASSUME NEW e \in Exec, ExecutionStep(e)
       PROVE  TypeOK'
    <3>1. CASE TakeJob(e)
      BY <2>1, <3>1 DEF TakeJob, Goto
    <3>2. CASE AcquireLock(e)
      BY <2>1, <3>2 DEF AcquireLock, Goto
    <3>3. CASE DeferAtEntry(e)
      BY <2>1, <3>3, FaultUsedUp DEF DeferAtEntry, Goto
    <3>4. CASE LoadCampaign(e)
      BY <2>1, <3>4 DEF LoadCampaign, Goto, Leave
    <3>5. CASE CloseFailedCampaign(e)
      BY <2>1, <3>5 DEF CloseFailedCampaign, CompleteIfNoPendingMessages, NothingPending, Leave
    <3>6. CASE MarkRunning(e)
      BY <2>1, <3>6 DEF MarkRunning, UpdateStatus, Goto
    <3>7. CASE LoadConfiguration(e)
      BY <2>1, <3>7 DEF LoadConfiguration, Goto
    <3>8. CASE SelectRecipients(e)
      BY <2>1, <3>8 DEF SelectRecipients, Goto
    <3>9. CASE CheckStatus(e)
      BY <2>1, <3>9 DEF CheckStatus, Goto, Leave
    <3>10. CASE SendChunk(e)
      BY <2>1, <3>10, FaultUsedUp DEF SendChunk, Goto
    <3>11. CASE CompleteCampaign(e)
      BY <2>1, <3>11 DEF CompleteCampaign, CompleteIfNoPendingMessages, NothingPending,
        Goto, Leave
    <3>12. CASE RecheckStatus(e)
      BY <2>1, <3>12 DEF RecheckStatus, Defer, Goto, Leave
    <3>13. CASE CatchReadsStatus(e)
      BY <2>1, <3>13 DEF CatchReadsStatus, Goto, Leave
    <3>14. CASE CatchCompletes(e)
      BY <2>1, <3>14 DEF CatchCompletes, CompleteIfNoPendingMessages, NothingPending, Goto,
        Leave
    <3>15. CASE CatchMarksFailed(e)
      BY <2>1, <3>15 DEF CatchMarksFailed, MarkRunningJobFailed, Leave
    <3>16. CASE ReleaseLock(e)
      BY <2>1, <3>16, FaultUsedUp DEF ReleaseLock, Goto
    <3>17. CASE SettleJob(e)
      BY <2>1, <3>17 DEF SettleJob, Goto
    <3> QED  BY <2>1, <3>1, <3>2, <3>3, <3>4, <3>5, <3>6, <3>7, <3>8, <3>9, <3>10, <3>11,
      <3>12, <3>13, <3>14, <3>15, <3>16, <3>17 DEF ExecutionStep
  <2>2. ASSUME NEW e \in Exec, ExecutionFault(e)
       PROVE  TypeOK'
    <3>1. CASE NoticeLostLock(e)
      BY <2>2, <3>1 DEF NoticeLostLock, Goto
    <3>2. CASE DeferExecution(e)
      BY <2>2, <3>2, FaultUsedUp DEF DeferExecution, Defer, Goto, Leave
    <3>3. CASE ExecutionFails(e)
      BY <2>2, <3>3, FaultUsedUp DEF ExecutionFails, Goto
    <3>4. CASE DatabaseFails(e)
      BY <2>2, <3>4, FaultUsedUp DEF DatabaseFails, Leave
    <3>5. CASE Crash(e)
      BY <2>2, <3>5, FaultUsedUp DEF Crash, Goto
    <3> QED  BY <2>2, <3>1, <3>2, <3>3, <3>4, <3>5 DEF ExecutionFault
  <2>3. ASSUME NEW r \in Requester, RequestStep(r)
       PROVE  TypeOK'
    <3>1. CASE FinalizeFailedCampaign(r)
      BY <2>3, <3>1 DEF FinalizeFailedCampaign, CompleteIfNoPendingMessages, NothingPending,
        GoOn
    <3>2. CASE InspectJobToStart(r)
      BY <2>3, <3>2 DEF InspectJobToStart, AfterInspection, GoOn
    <3>3. CASE RemoveJob(r)
      BY <2>3, <3>3 DEF RemoveJob, GoOn
    <3>4. CASE Schedule(r)
      BY <2>3, <3>4 DEF Schedule, UpdateStatus, GoOn
    <3>5. CASE AddJob(r)
      BY <2>3, <3>5 DEF AddJob, GoOn
    <3>6. CASE ScheduleNow(r)
      BY <2>3, <3>6 DEF ScheduleNow, UpdateStatus, GoOn
    <3>7. CASE PromoteJob(r)
      BY <2>3, <3>7 DEF PromoteJob, GoOn
    <3>8. CASE RewriteFailedCampaign(r)
      BY <2>3, <3>8 DEF RewriteFailedCampaign, UpdateStatus, GoOn
    <3>9. CASE Pause(r)
      BY <2>3, <3>9 DEF Pause, UpdateStatus, GoOn
    <3>10. CASE InspectJobToResume(r)
      BY <2>3, <3>10 DEF InspectJobToResume, GoOn
    <3>11. CASE Delete(r)
      BY <2>3, <3>11 DEF Delete, GoOn
    <3> QED  BY <2>3, <3>1, <3>2, <3>3, <3>4, <3>5, <3>6, <3>7, <3>8, <3>9, <3>10, <3>11 DEF
      RequestStep
  <2>4. ASSUME NEW r \in Requester, RequestCrashes(r)
       PROVE  TypeOK'
    BY <2>4, FaultUsedUp DEF RequestCrashes, GoOn
  <2>5. ASSUME NEW c \in Client, ClientBegins(c)
       PROVE  TypeOK'
    <3>1. CASE BeginStart(c) /\ UNCHANGED schedule
      BY <2>5, <3>1 DEF BeginStart, Begin, schedule, Requester
    <3>2. CASE BeginPause(c)
      BY <2>5, <3>2 DEF BeginPause, Begin, schedule, Requester
    <3>3. CASE BeginResume(c)
      BY <2>5, <3>3 DEF BeginResume, Begin, schedule, Requester
    <3>4. CASE BeginDelete(c)
      BY <2>5, <3>4 DEF BeginDelete, Begin, schedule, Requester
    <3> QED  BY <2>5, <3>1, <3>2, <3>3, <3>4 DEF ClientBegins
  <2>6. ASSUME TickStep
       PROVE  TypeOK'
    <3>1. CASE BeginTick
      BY <2>6, <3>1 DEF BeginTick, Requester
    <3>2. CASE ReconcileChecksLock
      BY <2>6, <3>2 DEF ReconcileChecksLock, Tick, Requester
    <3>3. CASE ReconcileCompletes
      BY <2>6, <3>3 DEF ReconcileCompletes, Tick, CompleteIfNoPendingMessages,
        NothingPending, Requester
    <3>4. CASE ReconcileInspectsJob
      BY <2>6, <3>4 DEF ReconcileInspectsJob, Tick, Requester
    <3>5. CASE ReconcileMarksFailed
      BY <2>6, <3>5 DEF ReconcileMarksFailed, Tick, MarkRunningJobFailed, Requester
    <3>6. CASE ScanDueCampaigns
      BY <2>6, <3>6 DEF ScanDueCampaigns, Tick, Requester
    <3>7. CASE SchedulerStarts
      BY <2>6, <3>7 DEF SchedulerStarts, Tick, BeginStart, Begin, Requester
    <3>8. CASE SchedulerDone
      BY <2>6, <3>8 DEF SchedulerDone, Tick, GoOn, Requester
    <3> QED  BY <2>6, <3>1, <3>2, <3>3, <3>4, <3>5, <3>6, <3>7, <3>8 DEF TickStep
  <2>7. ASSUME TimeStep
       PROVE  TypeOK'
    <3>1. CASE DelayEnds
      BY <2>7, <3>1 DEF DelayEnds
    <3>2. CASE StalledJobFails
      BY <2>7, <3>2 DEF StalledJobFails
    <3>3. CASE DeadLockExpires
      BY <2>7, <3>3 DEF DeadLockExpires
    <3>4. CASE ScheduledTimeArrives
      BY <2>7, <3>4 DEF ScheduledTimeArrives
    <3> QED  BY <2>7, <3>1, <3>2, <3>3, <3>4 DEF TimeStep
  <2>8. CASE LiveJobFails
    BY <2>8, FaultUsedUp DEF LiveJobFails
  <2>9. CASE LiveLockExpires
    BY <2>9, FaultUsedUp DEF LiveLockExpires
  <2>10. CASE UNCHANGED vars
    BY <2>10 DEF vars
  <2> QED  BY <2>1, <2>2, <2>3, <2>4, <2>5, <2>6, <2>7, <2>8, <2>9, <2>10 DEF Next
<1> QED  BY <1>1, <1>2, PTL DEF Spec

\* No step changes which kinds of fault may happen: every handler leaves faults
\* alone or uses one up.
LEMMA LapsingKept == ASSUME TypeOK, [Next]_vars  PROVE LeaseCanLapse' = LeaseCanLapse
<1>0. \A k : Fault(k) => faults'.kinds = faults.kinds
  BY FaultUsedUp DEF TypeOK
<1>1. ASSUME NEW e \in Exec, ExecutionStep(e)
      PROVE  faults'.kinds = faults.kinds
  BY <1>0, <1>1 DEF ExecutionStep, TakeJob, AcquireLock, DeferAtEntry, LoadCampaign,
    CloseFailedCampaign, MarkRunning, LoadConfiguration, SelectRecipients, CheckStatus,
    SendChunk, CompleteCampaign, RecheckStatus, CatchReadsStatus, CatchCompletes,
    CatchMarksFailed, ReleaseLock, SettleJob
<1>2. ASSUME NEW e \in Exec, ExecutionFault(e)
      PROVE  faults'.kinds = faults.kinds
  BY <1>0, <1>2 DEF ExecutionFault, NoticeLostLock, DeferExecution, ExecutionFails,
    DatabaseFails, Crash
<1>3. ASSUME NEW r \in Requester, RequestStep(r)
      PROVE  UNCHANGED faults
  BY <1>3 DEF RequestStep, FinalizeFailedCampaign, InspectJobToStart, RemoveJob, Schedule,
    AddJob, ScheduleNow, PromoteJob, RewriteFailedCampaign, Pause, InspectJobToResume, Delete
<1>4. ASSUME NEW r \in Requester, RequestCrashes(r)
      PROVE  faults'.kinds = faults.kinds
  BY <1>0, <1>4 DEF RequestCrashes
<1>5. ASSUME NEW c \in Client, ClientBegins(c)
      PROVE  UNCHANGED faults
  BY <1>5 DEF ClientBegins, BeginStart, BeginPause, BeginResume, BeginDelete
<1>6. ASSUME TickStep
      PROVE  UNCHANGED faults
  BY <1>6 DEF TickStep, BeginTick, ReconcileChecksLock, ReconcileCompletes,
    ReconcileInspectsJob, ReconcileMarksFailed, ScanDueCampaigns, SchedulerStarts,
    SchedulerDone
<1>7. ASSUME TimeStep \/ UNCHANGED vars
      PROVE  UNCHANGED faults
  BY <1>7 DEF TimeStep, DelayEnds, StalledJobFails, DeadLockExpires, ScheduledTimeArrives,
    vars
<1>8. ASSUME LiveJobFails \/ LiveLockExpires
      PROVE  faults'.kinds = faults.kinds
  BY <1>0, <1>8 DEF LiveJobFails, LiveLockExpires
<1> QED  BY <1>1, <1>2, <1>3, <1>4, <1>5, <1>6, <1>7, <1>8 DEF Next, LeaseCanLapse

\* A step that leaves the lock alone, and at which no execution passes it,
\* keeps every execution behind its lock.
LEMMA LockKept ==
  ASSUME LockInv, LeaseCanLapse' = LeaseCanLapse, lock' = lock,
         \A e \in Exec : at'[e] \in Inside => at[e] \in Inside
  PROVE  LockInv'
BY DEF LockInv

\* While live workers keep the lock, every execution past it holds it: the lock
\* is taken when free, and given back or lost only by who leaves or is dead.
LEMMA LockStep == ASSUME TypeOK, LockInv, [Next]_vars  PROVE LockInv'
<1> USE DEF Inside, TypeOK
<1>0. LeaseCanLapse' = LeaseCanLapse
  BY LapsingKept
<1>1. ASSUME NEW e \in Exec, AcquireLock(e)
      PROVE  LockInv'
  BY <1>0, <1>1 DEF AcquireLock, Goto, LockInv
<1>2. ASSUME NEW e \in Exec, ReleaseLock(e)
      PROVE  LockInv'
  BY <1>0, <1>2 DEF ReleaseLock, Goto, Fault, LockInv
<1>3. ASSUME DeadLockExpires
      PROVE  LockInv'
  BY <1>0, <1>3 DEF DeadLockExpires, execution, LockInv
<1>4. ASSUME LiveLockExpires
      PROVE  LockInv'
  BY <1>0, <1>4 DEF LiveLockExpires, Fault, LeaseCanLapse, LockInv
<1>5. ASSUME NEW e \in Exec, TakeJob(e) \/ DeferAtEntry(e) \/ LoadCampaign(e) \/
  CloseFailedCampaign(e) \/ MarkRunning(e) \/ LoadConfiguration(e) \/ SelectRecipients(e) \/
  CheckStatus(e) \/ SendChunk(e) \/ CompleteCampaign(e) \/ RecheckStatus(e) \/
  CatchReadsStatus(e) \/ CatchCompletes(e) \/ CatchMarksFailed(e) \/ SettleJob(e)
      PROVE  LockInv'
  <2>1. CASE TakeJob(e)
    BY <2>1, <1>0, LockKept DEF TakeJob, Goto, execution
  <2>2. CASE DeferAtEntry(e)
    BY <2>2, <1>0, LockKept DEF DeferAtEntry, Goto, Fault, execution
  <2>3. CASE LoadCampaign(e)
    BY <2>3, <1>0, LockKept DEF LoadCampaign, Goto, Leave, execution
  <2>4. CASE CloseFailedCampaign(e)
    BY <2>4, <1>0, LockKept DEF CloseFailedCampaign, CompleteIfNoPendingMessages, NothingPending,
      Leave, execution
  <2>5. CASE MarkRunning(e)
    BY <2>5, <1>0, LockKept DEF MarkRunning, UpdateStatus, Goto, execution
  <2>6. CASE LoadConfiguration(e)
    BY <2>6, <1>0, LockKept DEF LoadConfiguration, Goto, execution
  <2>7. CASE SelectRecipients(e)
    BY <2>7, <1>0, LockKept DEF SelectRecipients, Goto, execution
  <2>8. CASE CheckStatus(e)
    BY <2>8, <1>0, LockKept DEF CheckStatus, Goto, Leave, execution
  <2>9. CASE SendChunk(e)
    BY <2>9, <1>0, LockKept DEF SendChunk, Goto, Fault, execution
  <2>10. CASE CompleteCampaign(e)
    BY <2>10, <1>0, LockKept DEF CompleteCampaign, CompleteIfNoPendingMessages, NothingPending,
      Goto, Leave, execution
  <2>11. CASE RecheckStatus(e)
    BY <2>11, <1>0, LockKept DEF RecheckStatus, Defer, Goto, Leave, execution
  <2>12. CASE CatchReadsStatus(e)
    BY <2>12, <1>0, LockKept DEF CatchReadsStatus, Goto, Leave, execution
  <2>13. CASE CatchCompletes(e)
    BY <2>13, <1>0, LockKept DEF CatchCompletes, CompleteIfNoPendingMessages, NothingPending,
      Goto, Leave, execution
  <2>14. CASE CatchMarksFailed(e)
    BY <2>14, <1>0, LockKept DEF CatchMarksFailed, MarkRunningJobFailed, Leave, execution
  <2>15. CASE SettleJob(e)
    BY <2>15, <1>0, LockKept DEF SettleJob, Goto, execution
  <2> QED  BY <1>5, <2>1, <2>2, <2>3, <2>4, <2>5, <2>6, <2>7, <2>8, <2>9, <2>10, <2>11,
    <2>12, <2>13, <2>14, <2>15
<1>6. ASSUME NEW e \in Exec, NoticeLostLock(e) \/ DeferExecution(e) \/ ExecutionFails(e) \/
  DatabaseFails(e) \/ Crash(e)
      PROVE  LockInv'
  <2>1. CASE NoticeLostLock(e)
    BY <2>1, <1>0, LockKept DEF NoticeLostLock, Goto, execution
  <2>2. CASE DeferExecution(e)
    BY <2>2, <1>0, LockKept DEF DeferExecution, Defer, Goto, Leave, Fault, execution
  <2>3. CASE ExecutionFails(e)
    BY <2>3, <1>0, LockKept DEF ExecutionFails, Goto, Fault, execution
  <2>4. CASE DatabaseFails(e)
    BY <2>4, <1>0, LockKept DEF DatabaseFails, Leave, Fault, execution
  <2>5. CASE Crash(e)
    BY <2>5, <1>0, LockKept DEF Crash, Goto, Fault, execution
  <2> QED  BY <1>6, <2>1, <2>2, <2>3, <2>4, <2>5
<1>7. ASSUME UNCHANGED <<lock, execution>>
      PROVE  LockInv'
  BY <1>7, <1>0, LockKept DEF execution
<1>8. ASSUME NEW r \in Requester, RequestStep(r) \/ RequestCrashes(r)
      PROVE  UNCHANGED <<lock, execution>>
  BY <1>8 DEF RequestStep, RequestCrashes, FinalizeFailedCampaign, InspectJobToStart,
    RemoveJob, Schedule, AddJob, ScheduleNow, PromoteJob, RewriteFailedCampaign, Pause,
    InspectJobToResume, Delete
<1>9. ASSUME NEW c \in Client, ClientBegins(c)
      PROVE  UNCHANGED <<lock, execution>>
  BY <1>9 DEF ClientBegins, BeginStart, BeginPause, BeginResume, BeginDelete
<1>10. ASSUME TickStep
      PROVE  UNCHANGED <<lock, execution>>
  BY <1>10 DEF TickStep, BeginTick, ReconcileChecksLock, ReconcileCompletes,
    ReconcileInspectsJob, ReconcileMarksFailed, ScanDueCampaigns, SchedulerStarts,
    SchedulerDone
<1>11. ASSUME DelayEnds \/ StalledJobFails \/ ScheduledTimeArrives \/ LiveJobFails
             \/ UNCHANGED vars
      PROVE  UNCHANGED <<lock, execution>>
  BY <1>11 DEF DelayEnds, StalledJobFails, ScheduledTimeArrives, LiveJobFails, vars, execution
<1> QED  BY <1>1, <1>2, <1>3, <1>4, <1>5, <1>6, <1>7, <1>8, <1>9, <1>10, <1>11 DEF Next,
  ExecutionStep, ExecutionFault, TimeStep

\* With its lock kept while it lives, an execution of the campaign is alone past
\* the lock (queues/processors/campaignExecution.processor.ts:54 and :222).
THEOREM ExecutionsAreExclusive == Spec => []OneExecution
<1>1. Init => LockInv
  <2> SUFFICES ASSUME Init
               PROVE  LockInv
    OBVIOUS
  <2>1. PICK w \in Workloads :
          at = [e \in Exec |-> IF e \in w.slots THEN "idle" ELSE "absent"]
    BY Zenon DEF Init
  <2> QED  BY <2>1 DEF LockInv, Inside
<1>2. TypeOK /\ LockInv /\ [Next]_vars => LockInv'
  BY LockStep
<1>3. LockInv => OneExecution
  BY DEF LockInv, OneExecution
<1> QED  BY <1>1, <1>2, <1>3, TypeCorrect, PTL DEF Spec

\* No step that leaves the status or does not complete the campaign brings
\* pending recipients back.
LEMMA CompletedKept ==
  ASSUME TypeOK, CompletedMeansProcessed,
         \/ UNCHANGED <<status, pending>>
         \/ pending' = pending /\ CompleteIfNoPendingMessages
         \/ pending' = pending /\ MarkRunningJobFailed
         \/ pending' = pending /\ status' # "completed"
         \/ pending = 0 /\ pending' = 0
         \/ pending' = pending /\ \E s \in Status \ {"completed"} : UpdateStatus(s)
  PROVE  CompletedMeansProcessed'
BY DEF CompletedMeansProcessed, CompleteIfNoPendingMessages, NothingPending,
       MarkRunningJobFailed, UpdateStatus

\* Whoever completes a campaign, nothing is pending then and nothing becomes
\* pending later (models/campaign.model.ts:108).
THEOREM CompletionIsFinal == Spec => []CompletedMeansProcessed
<1>1. Init => CompletedMeansProcessed
  BY DEF Init, CompletedMeansProcessed
<1>2. TypeOK /\ CompletedMeansProcessed /\ [Next]_vars => CompletedMeansProcessed'
  <2> SUFFICES ASSUME TypeOK, CompletedMeansProcessed, [Next]_vars
               PROVE  CompletedMeansProcessed'
    OBVIOUS
  <2> USE DEF Status
  <2>1. ASSUME NEW e \in Exec, CloseFailedCampaign(e)
       PROVE  CompletedMeansProcessed'
    BY <2>1, CompletedKept DEF CloseFailedCampaign
  <2>2. ASSUME NEW e \in Exec, MarkRunning(e)
       PROVE  CompletedMeansProcessed'
    BY <2>2, CompletedKept DEF MarkRunning
  <2>3. ASSUME NEW e \in Exec, SendChunk(e)
       PROVE  CompletedMeansProcessed'
    BY <2>3, CompletedKept DEF SendChunk, CompletedMeansProcessed, TypeOK, Goto, Fault
  <2>4. ASSUME NEW e \in Exec, CompleteCampaign(e)
       PROVE  CompletedMeansProcessed'
    BY <2>4, CompletedKept DEF CompleteCampaign
  <2>5. ASSUME NEW e \in Exec, CatchCompletes(e)
       PROVE  CompletedMeansProcessed'
    BY <2>5, CompletedKept DEF CatchCompletes
  <2>6. ASSUME NEW e \in Exec, CatchMarksFailed(e)
       PROVE  CompletedMeansProcessed'
    BY <2>6, CompletedKept DEF CatchMarksFailed
  <2>7. ASSUME NEW r \in Requester, FinalizeFailedCampaign(r)
       PROVE  CompletedMeansProcessed'
    BY <2>7, CompletedKept DEF FinalizeFailedCampaign
  <2>8. ASSUME NEW r \in Requester, Schedule(r)
       PROVE  CompletedMeansProcessed'
    BY <2>8, CompletedKept DEF Schedule
  <2>9. ASSUME NEW r \in Requester, ScheduleNow(r)
       PROVE  CompletedMeansProcessed'
    BY <2>9, CompletedKept DEF ScheduleNow
  <2>10. ASSUME NEW r \in Requester, RewriteFailedCampaign(r)
       PROVE  CompletedMeansProcessed'
    BY <2>10, CompletedKept DEF RewriteFailedCampaign
  <2>11. ASSUME NEW r \in Requester, Pause(r)
       PROVE  CompletedMeansProcessed'
    BY <2>11, CompletedKept DEF Pause
  <2>12. ASSUME NEW r \in Requester, Delete(r)
       PROVE  CompletedMeansProcessed'
    BY <2>12, CompletedKept DEF Delete, CompletedMeansProcessed
  <2>13. ASSUME ReconcileCompletes
       PROVE  CompletedMeansProcessed'
    BY <2>13, CompletedKept DEF ReconcileCompletes
  <2>14. ASSUME ReconcileMarksFailed
       PROVE  CompletedMeansProcessed'
    BY <2>14, CompletedKept DEF ReconcileMarksFailed
  <2>15. ASSUME UNCHANGED <<status, pending>>
       PROVE  CompletedMeansProcessed'
    BY <2>15, CompletedKept
  <2>16. ASSUME NEW e \in Exec, TakeJob(e) \/ AcquireLock(e) \/ DeferAtEntry(e) \/
    LoadCampaign(e) \/ LoadConfiguration(e) \/ SelectRecipients(e) \/ CheckStatus(e) \/
    RecheckStatus(e) \/ CatchReadsStatus(e) \/ ReleaseLock(e) \/ SettleJob(e)
       PROVE  UNCHANGED <<status, pending>>
    BY <2>16 DEF campaign, TakeJob, AcquireLock, DeferAtEntry, LoadCampaign,
      LoadConfiguration, SelectRecipients, CheckStatus, RecheckStatus, CatchReadsStatus,
      ReleaseLock, SettleJob
  <2>17. ASSUME NEW e \in Exec, ExecutionFault(e)
       PROVE  UNCHANGED <<status, pending>>
    BY <2>17 DEF campaign, ExecutionFault, NoticeLostLock, DeferExecution, ExecutionFails,
      DatabaseFails, Crash
  <2>18. ASSUME NEW r \in Requester, RequestCrashes(r) \/ InspectJobToStart(r) \/
    RemoveJob(r) \/ AddJob(r) \/ PromoteJob(r) \/ InspectJobToResume(r)
       PROVE  UNCHANGED <<status, pending>>
    BY <2>18 DEF campaign, RequestCrashes, InspectJobToStart, RemoveJob, AddJob, PromoteJob,
      InspectJobToResume
  <2>19. ASSUME NEW c \in Client, ClientBegins(c)
       PROVE  UNCHANGED <<status, pending>>
    BY <2>19 DEF campaign, ClientBegins, BeginStart, BeginPause, BeginResume, BeginDelete
  <2>20. ASSUME BeginTick \/ ReconcileChecksLock \/ ReconcileInspectsJob \/ ScanDueCampaigns
    \/ SchedulerStarts \/ SchedulerDone
       PROVE  UNCHANGED <<status, pending>>
    BY <2>20 DEF campaign, BeginTick, ReconcileChecksLock, ReconcileInspectsJob,
      ScanDueCampaigns, SchedulerStarts, SchedulerDone
  <2>21. ASSUME ScheduledTimeArrives \/ DelayEnds \/ StalledJobFails \/ DeadLockExpires \/
    LiveJobFails \/ LiveLockExpires \/ UNCHANGED vars
       PROVE  UNCHANGED <<status, pending>>
    BY <2>21 DEF campaign, vars, ScheduledTimeArrives, DelayEnds, StalledJobFails,
      DeadLockExpires, LiveJobFails, LiveLockExpires
  <2> QED  BY <2>1, <2>2, <2>3, <2>4, <2>5, <2>6, <2>7, <2>8, <2>9, <2>10, <2>11, <2>12,
    <2>13, <2>14, <2>15, <2>16, <2>17, <2>18, <2>19, <2>20, <2>21 DEF Next, ExecutionStep,
    RequestStep, TickStep, TimeStep
<1> QED  BY <1>1, <1>2, TypeCorrect, PTL DEF Spec
=============================================================================
