---------------------- MODULE BackgroundServices_proofs ----------------------
(***************************************************************************)
(* Proofs about the background services, for any numbers of reminders,     *)
(* recipients, workers, deliveries, signups, rows and faults.  Each        *)
(* service is proved about as its own module specifies it; in the          *)
(* composition each behaves as that specification says.                    *)
(***************************************************************************)
EXTENDS BackgroundServices, AutomationFlows_proofs, FiniteSums, TLAPS

\* Every step of the services is a step of one of them and leaves the others alone.
LEMMA ServicesStep ==
  ASSUME [Next]_serviceVars
  PROVE  /\ [RemindersNext]_reminderVars /\ [BulkNext]_bulkVars /\ [ShopifyNext]_shopifyVars
         /\ [OnboardingNext]_onboardingVars /\ [ImportNext]_importVars /\ [GateNext]_gateVars
         /\ [AutomationNext]_automationVars
BY DEF Next, serviceVars

\* In the composition every service behaves as its own module specifies.
THEOREM ServicesAreThemselves ==
  Spec => /\ RemindersSpec /\ BulkSpec /\ ShopifySpec /\ OnboardingSpec /\ ImportSpec
          /\ GateSpec /\ AutomationSpec
<1>1. Init => /\ RemindersInit /\ BulkInit /\ ShopifyInit /\ OnboardingInit /\ ImportInit
              /\ GateInit /\ AutomationInit
  BY DEF Init
<1>2. [Next]_serviceVars =>
        /\ [RemindersNext]_reminderVars /\ [BulkNext]_bulkVars /\ [ShopifyNext]_shopifyVars
        /\ [OnboardingNext]_onboardingVars /\ [ImportNext]_importVars /\ [GateNext]_gateVars
        /\ [AutomationNext]_automationVars
  BY ServicesStep
<1> QED
  BY <1>1, <1>2, PTL DEF Spec, RemindersSpec, BulkSpec, ShopifySpec, OnboardingSpec, ImportSpec,
     GateSpec, AutomationSpec
-----------------------------------------------------------------------------
(***************************************************************************)
(* The bulk message job.                                                   *)
(***************************************************************************)
Busy(w) == worker[w].step # "idle"

\* A job that may be taken up, or was completed, has no worker; there is never more
\* than one, and only a worker holds the lock, of a job that is active.
BulkLockInv ==
  /\ job.state \in {"waiting", "delayed", "completed"} => \A w \in Worker : ~Busy(w)
  /\ \A w, v \in Worker : Busy(w) /\ Busy(v) => w = v
  /\ \A w \in job.locked : Busy(w) /\ job.state = "active"

\* Before a worker's next recipient everybody was called or refused once, but for those of
\* its chunk and those a lost database leaves in doubt; behind it nobody was.
BulkWorkerInv(w) ==
  LET k == worker[w] IN
  /\ job.nextIndex = k.batch /\ k.batch <= k.next /\ k.next <= BatchEnd(w)
  /\ k.step # "chunk" => k.chunk = {} /\ ~k.lost
  /\ k.step = "saved" => k.next = k.batch
  /\ k.next = k.batch => k.chunk = {} /\ ~k.lost /\ job.successful = k.good
  /\ \A m \in Recipient :
       /\ m > k.next \/ m \in k.chunk => Attempts(m) = 0 /\ m \notin accepted
       /\ m <= k.next /\ m \notin k.chunk /\ ~k.lost => Attempts(m) = 1
  /\ k.chunk \subseteq 1..k.next
  /\ k.good = Cardinality(accepted)

BulkInv ==
  /\ BulkLockInv
  /\ \A m \in Recipient : Attempts(m) <= 1
  /\ \A w \in Worker : Busy(w) => BulkWorkerInv(w)
  /\ job.state \in {"waiting", "delayed"} =>
       /\ job.successful = Cardinality(accepted)
       /\ \A m \in Recipient : /\ m <= job.nextIndex => Attempts(m) = 1
                               /\ m > job.nextIndex => Attempts(m) = 0 /\ m \notin accepted
  /\ job.state = "completed" => /\ \A m \in Recipient : Attempts(m) = 1
                                /\ job.successful = Cardinality(accepted)

BulkJob == [state : {"waiting", "active", "delayed", "completed", "failed"},
            locked : SUBSET Worker, nextIndex : 0..Total, successful : 0..Total]
BulkWork == [step : {"idle", "batch", "chunk", "saved"}, batch : 0..Total,
             next : 0..Total, chunk : SUBSET Recipient, good : 0..Total, lost : BOOLEAN]

\* What the fields of the job and of a worker are.
LEMMA BulkFields ==
  ASSUME BulkTypeOK
  PROVE  /\ job \in BulkJob /\ worker \in [Worker -> BulkWork]
         /\ job.state \in {"waiting", "active", "delayed", "completed", "failed"}
         /\ job.locked \subseteq Worker /\ job.nextIndex \in 0..Total /\ job.successful \in 0..Total
         /\ \A w \in Worker :
              /\ worker[w] \in BulkWork
              /\ worker[w].step \in {"idle", "batch", "chunk", "saved"}
              /\ worker[w].batch \in 0..Total /\ worker[w].next \in 0..Total
              /\ worker[w].chunk \subseteq Recipient /\ worker[w].good \in 0..Total
              /\ worker[w].lost \in BOOLEAN
BY DEF BulkTypeOK, BulkJob, BulkWork

LEMMA LeastIs ==
  ASSUME NEW a \in Int, NEW b \in Int
  PROVE  /\ Least(a, b) \in {a, b} /\ Least(a, b) <= a /\ Least(a, b) <= b
BY DEF Least

LEMMA BatchEnds ==
  ASSUME BulkTypeOK, NEW w \in Worker
  PROVE  /\ BatchEnd(w) \in 0..Total
         /\ worker[w].batch < Total => worker[w].batch < BatchEnd(w)
<1>1. worker[w].batch \in 0..Total  BY BulkFields
<1> QED  BY <1>1, BulkAssumption DEF BatchEnd, Least

\* The job moves only under its lock, to where the worker sends it.
LEMMA JobMoves ==
  ASSUME BulkTypeOK, NEW w \in Worker, NEW state, MoveJob(w, state)
  PROVE  /\ w \in job.locked => /\ job'.state = state /\ job'.locked = {}
                                /\ job'.nextIndex = job.nextIndex /\ job'.successful = job.successful
         /\ w \notin job.locked => job' = job
         /\ state \in {"delayed", "completed", "failed"} => job' \in BulkJob
<1>1. CASE w \in job.locked
  <2>1. job' = [job EXCEPT !.state = state, !.locked = {}]
    BY <1>1 DEF MoveJob
  <2> QED  BY <1>1, <2>1, BulkFields DEF BulkJob
<1>2. CASE w \notin job.locked
  BY <1>2, BulkFields DEF MoveJob
<1> QED  BY <1>1, <1>2

\* The type invariant, after a step, by the names of its record sets.
LEMMA BulkTypedNext ==
  ASSUME job' \in BulkJob, worker' \in [Worker -> BulkWork], draining' \subseteq Worker,
         calls' \in [Recipient -> 0..2], accepted' \subseteq Recipient,
         refused' \subseteq Recipient, troubles' \in 0..MaxTroubles
  PROVE  BulkTypeOK'
<1>1. job' \in [state : {"waiting", "active", "delayed", "completed", "failed"},
               locked : SUBSET Worker, nextIndex : 0..Total, successful : 0..Total]
  BY DEF BulkJob
<1>2. worker' \in [Worker -> [step : {"idle", "batch", "chunk", "saved"}, batch : 0..Total,
                             next : 0..Total, chunk : SUBSET Recipient, good : 0..Total,
                             lost : BOOLEAN]]
  BY Zenon DEF BulkWork
<1> QED  BY <1>1, <1>2, Zenon DEF BulkTypeOK

\* The job's checkpoint, lock and state, and the counts of its calls, are well-formed.
THEOREM BulkTypeCorrect == BulkSpec => []BulkTypeOK
<1> USE BulkAssumption
<1>1. BulkInit => BulkTypeOK
  BY DEF BulkInit, BulkTypeOK, Idle, Recipient
<1>2. BulkTypeOK /\ [BulkNext]_bulkVars => BulkTypeOK'
  <2> SUFFICES ASSUME BulkTypeOK, [BulkNext]_bulkVars PROVE BulkTypeOK'
    OBVIOUS
  <2>0. /\ job \in BulkJob /\ worker \in [Worker -> BulkWork] /\ draining \subseteq Worker
        /\ calls \in [Recipient -> 0..2] /\ accepted \subseteq Recipient
        /\ refused \subseteq Recipient /\ troubles \in 0..MaxTroubles
    BY BulkFields DEF BulkTypeOK
  <2>b. Idle \in BulkWork
    BY DEF Idle, BulkWork, Recipient
  <2>1. ASSUME NEW w \in Worker, Take(w) PROVE BulkTypeOK'
    <3>1. /\ job' = [job EXCEPT !.state = "active", !.locked = {w}]
          /\ worker' = [worker EXCEPT ![w] = [Idle EXCEPT !.step = "batch", !.batch = job.nextIndex,
                                                !.next = job.nextIndex, !.good = job.successful]]
          /\ UNCHANGED <<draining, calls, accepted, refused, troubles>>
      BY <2>1 DEF Take
    <3>2. job' \in BulkJob  BY <2>0, <3>1 DEF BulkJob
    <3>3. worker' \in [Worker -> BulkWork]  BY <2>0, <3>1, BulkFields DEF Idle, BulkWork
    <3> QED  BY <2>0, BulkTypedNext, <3>1, <3>2, <3>3
  <2>2. ASSUME NEW w \in Worker, Yield(w) \/ FinishSending(w) PROVE BulkTypeOK'
    <3>1. job' \in BulkJob /\ worker' = [worker EXCEPT ![w] = Idle]
          /\ UNCHANGED <<draining, calls, accepted, refused, troubles>>
      BY <2>2, JobMoves DEF Yield, FinishSending, Leave
    <3> QED  BY <2>0, BulkTypedNext, <2>b, <3>1
  <2>3. ASSUME NEW w \in Worker, StartBatch(w) PROVE BulkTypeOK'
    BY <2>0, BulkTypedNext, <2>3 DEF StartBatch, BulkWork
  <2>4. ASSUME NEW w \in Worker, StartChunk(w) PROVE BulkTypeOK'
    <3> DEFINE last == Least(worker[w].next + MaxParallel, BatchEnd(w))
               first == worker[w].next + 1
    <3>1. last \in 0..Total /\ first \in Nat \ {0}
      BY BatchEnds, BulkFields DEF Least
    <3>2. /\ worker' = [worker EXCEPT ![w].step = "chunk", ![w].next = last, ![w].chunk = first..last]
          /\ UNCHANGED <<job, draining, calls, accepted, refused, troubles>>
      BY <2>4 DEF StartChunk
    <3>3. first..last \subseteq Recipient
      BY <3>1 DEF Recipient
    <3> DEFINE k == [worker[w] EXCEPT !.step = "chunk", !.next = last, !.chunk = first..last]
    <3>4. k \in BulkWork
      <4> HIDE DEF first, last
      <4>1. worker[w] \in BulkWork  BY BulkFields
      <4> QED  BY <3>1, <3>3, <4>1 DEF BulkWork
    <3>5. worker' = [worker EXCEPT ![w] = k]
      BY <2>0, <3>2
    <3> HIDE DEF k
    <3>6. worker' \in [Worker -> BulkWork]  BY <2>0, <3>4, <3>5
    <3> QED  BY <2>0, BulkTypedNext, <3>2, <3>6
  <2>5. ASSUME NEW w \in Worker, NEW m \in Recipient, Settle(w, m) PROVE BulkTypeOK'
    <3>1. calls' \in [Recipient -> 0..2] /\ accepted' \subseteq Recipient
          /\ refused' \subseteq Recipient /\ troubles' \in 0..MaxTroubles /\ UNCHANGED <<job, draining>>
      BY <2>0, <2>5 DEF Settle, RefuseSend, Least
    <3>2. Least(worker[w].good + 1, Total) \in 0..Total
      BY BulkFields DEF Least
    <3>3. \/ worker' = [worker EXCEPT ![w].chunk = @ \ {m}, ![w].good = Least(@ + 1, Total)]
          \/ worker' = [worker EXCEPT ![w].chunk = @ \ {m}]
          \/ worker' = [worker EXCEPT ![w].chunk = @ \ {m}, ![w].lost = TRUE]
      BY <2>5 DEF Settle, RefuseSend
    <3>4. worker' \in [Worker -> BulkWork]
      BY <2>0, <3>2, <3>3 DEF BulkWork
    <3> QED  BY <2>0, BulkTypedNext, <3>1, <3>4
  <2>6. ASSUME NEW w \in Worker, EndChunk(w) PROVE BulkTypeOK'
    <3>1. job' \in BulkJob /\ UNCHANGED <<draining, calls, accepted, refused, troubles>>
      BY <2>0, <2>6, JobMoves DEF EndChunk
    <3>2. worker' = [worker EXCEPT ![w] = Idle] \/ worker' = [worker EXCEPT ![w].step = "batch"]
      BY <2>6 DEF EndChunk, Leave
    <3>3. worker' \in [Worker -> BulkWork]
      BY <2>0, <2>b, <3>2 DEF BulkWork
    <3> QED  BY <2>0, BulkTypedNext, <3>1, <3>3
  <2>7. ASSUME NEW w \in Worker, Checkpoint(w) PROVE BulkTypeOK'
    <3>1. /\ job' = [job EXCEPT !.nextIndex = worker[w].next, !.successful = worker[w].good]
          /\ worker' = [worker EXCEPT ![w].step = "saved", ![w].batch = worker[w].next]
          /\ UNCHANGED <<draining, calls, accepted, refused, troubles>>
      BY <2>7 DEF Checkpoint
    <3>2. job' \in BulkJob  BY <2>0, <3>1, BulkFields DEF BulkJob
    <3> DEFINE k == [worker[w] EXCEPT !.step = "saved", !.batch = worker[w].next]
    <3>3. k \in BulkWork
      <4>1. worker[w] \in BulkWork /\ worker[w].next \in 0..Total  BY BulkFields
      <4> QED  BY <4>1 DEF BulkWork
    <3>4. worker' = [worker EXCEPT ![w] = k]
      BY <2>0, <3>1
    <3> HIDE DEF k
    <3>5. worker' \in [Worker -> BulkWork]  BY <2>0, <3>3, <3>4
    <3> QED  BY <2>0, BulkTypedNext, <3>1, <3>2, <3>5
  <2>8. ASSUME NEW w \in Worker, Drain(w) \/ Restart(w) PROVE BulkTypeOK'
    BY <2>0, BulkTypedNext, <2>8 DEF Drain, Restart, Trouble
  <2>9. ASSUME NEW w \in Worker, Crash(w) \/ LoseLock(w) PROVE BulkTypeOK'
    <3>1. \/ job' = [job EXCEPT !.locked = @ \ {w}] \/ job' = [job EXCEPT !.locked = {}]
      BY <2>9 DEF Crash, LoseLock
    <3>2. job' \in BulkJob  BY <2>0, <3>1 DEF BulkJob
    <3>3. worker' = worker \/ worker' = [worker EXCEPT ![w] = Idle]
      BY <2>9 DEF Crash, LoseLock, Leave
    <3>4. troubles' \in 0..MaxTroubles /\ UNCHANGED <<draining, calls, accepted, refused>>
      BY <2>0, <2>9 DEF Crash, LoseLock, Trouble
    <3> QED  BY <2>0, BulkTypedNext, <2>b, <3>2, <3>3, <3>4
  <2>10. CASE FindStalled
    BY <2>0, BulkTypedNext, <2>10 DEF FindStalled, AfterStall, BulkJob
  <2>11. CASE UNCHANGED bulkVars
    BY <2>11 DEF bulkVars, BulkTypeOK
  <2> QED
    BY <2>1, <2>2, <2>3, <2>4, <2>5, <2>6, <2>7, <2>8, <2>9, <2>10, <2>11 DEF BulkNext, BulkStep
<1> QED  BY <1>1, <1>2, PTL DEF BulkSpec

LEMMA AcceptedFinite ==
  ASSUME BulkTypeOK
  PROVE  /\ IsFiniteSet(accepted) /\ Cardinality(accepted) \in 0..Total
         /\ \A m \in Recipient \ accepted :
              /\ Cardinality(accepted \union {m}) = Cardinality(accepted) + 1
              /\ Cardinality(accepted) < Total
<1>1. IsFiniteSet(Recipient) /\ Cardinality(Recipient) = Total
  BY BulkAssumption, FS_Interval DEF Recipient
<1>2. accepted \subseteq Recipient
  BY DEF BulkTypeOK
<1>3. IsFiniteSet(accepted) /\ Cardinality(accepted) <= Total /\ Cardinality(accepted) \in Nat
  BY <1>1, <1>2, FS_Subset, FS_CardinalityType
<1>4. ASSUME NEW m \in Recipient \ accepted
      PROVE  /\ Cardinality(accepted \union {m}) = Cardinality(accepted) + 1
             /\ Cardinality(accepted) < Total
  <2>1. Cardinality(accepted \union {m}) = Cardinality(accepted) + 1
    BY <1>3, <1>4, FS_AddElement
  <2>2. accepted \union {m} \subseteq Recipient
    BY <1>2, <1>4
  <2>3. Cardinality(accepted \union {m}) <= Total
    BY <1>1, <2>2, FS_Subset
  <2> QED  BY <1>3, <2>1, <2>3, BulkAssumption
<1> QED  BY <1>3, <1>4, BulkAssumption

\* While a worker works, the job is active or has failed and nobody else works.
LEMMA WorksAlone ==
  ASSUME BulkTypeOK, BulkInv, NEW w \in Worker, Busy(w)
  PROVE  /\ job.state \in {"active", "failed"}
         /\ \A v \in Worker : v # w => ~Busy(v)
         /\ job.locked \subseteq {w}
         /\ BulkWorkerInv(w)
<1>1. job.state \in {"waiting", "active", "delayed", "completed", "failed"}
  BY BulkFields
<1>2. job.locked \subseteq Worker
  BY BulkFields
<1> QED  BY <1>1, <1>2 DEF BulkInv, BulkLockInv

\* What is to be shown after a step of a worker that goes on working.
LEMMA WorkGoesOn ==
  ASSUME BulkTypeOK, BulkInv, NEW w \in Worker, Busy(w), Busy(w)',
         job'.state = job.state, job'.locked = job.locked,
         \A v \in Worker : v # w => worker'[v] = worker[v],
         \A m \in Recipient : Attempts(m)' <= 1,
         BulkWorkerInv(w)'
  PROVE  BulkInv'
<1>1. /\ job.state \in {"active", "failed"}
      /\ \A v \in Worker : v # w => ~Busy(v)
      /\ job.locked \subseteq {w}
  BY WorksAlone
<1>2. \A v \in Worker : v # w => ~Busy(v)'
  BY <1>1 DEF Busy
<1>3. BulkLockInv'
  BY <1>1, <1>2 DEF BulkInv, BulkLockInv
<1> QED  BY <1>1, <1>2, <1>3 DEF BulkInv

\* A worker that leaves without its job having moved on leaves a job that can only fail.
LEMMA WorkEnds ==
  ASSUME BulkTypeOK, BulkInv, NEW w \in Worker, Busy(w),
         worker' = [worker EXCEPT ![w] = Idle],
         job'.state \in {"active", "failed"}, job'.locked = {},
         \A m \in Recipient : Attempts(m)' <= 1
  PROVE  BulkInv'
<1>1. \A v \in Worker : ~Busy(v)'
  BY WorksAlone DEF Busy, BulkTypeOK, Idle
<1> QED  BY <1>1 DEF BulkInv, BulkLockInv

LEMMA BulkTake ==
  ASSUME BulkTypeOK, BulkInv, NEW w \in Worker, Take(w) PROVE BulkInv'
<1>1. /\ job.state \in {"waiting", "delayed"}
      /\ job' = [job EXCEPT !.state = "active", !.locked = {w}]
      /\ worker' = [worker EXCEPT ![w] = [Idle EXCEPT !.step = "batch", !.batch = job.nextIndex,
                                            !.next = job.nextIndex, !.good = job.successful]]
      /\ UNCHANGED <<draining, calls, accepted, refused, troubles>>
  BY DEF Take
<1>2. \A v \in Worker : ~Busy(v)
  BY <1>1 DEF BulkInv, BulkLockInv
<1>3. /\ worker'[w].step = "batch" /\ worker'[w].batch = job.nextIndex /\ worker'[w].next = job.nextIndex
      /\ worker'[w].chunk = {} /\ worker'[w].good = job.successful /\ ~worker'[w].lost
      /\ \A v \in Worker : v # w => worker'[v] = worker[v]
  BY <1>1, BulkFields DEF Idle
<1>4. /\ job'.state = "active" /\ job'.locked = {w} /\ job'.nextIndex = job.nextIndex
      /\ job'.successful = job.successful
  BY <1>1, BulkFields DEF BulkJob
<1>5. \A v \in Worker : Busy(v)' <=> v = w
  BY <1>2, <1>3 DEF Busy
<1>6. BulkLockInv'
  BY <1>4, <1>5 DEF BulkLockInv
<1>7. job.nextIndex <= BatchEnd(w)'
  BY <1>3, BulkFields, BulkAssumption DEF BatchEnd, Least
<1>8. BulkWorkerInv(w)'
  <2>1. job.nextIndex \in 0..Total  BY BulkFields
  <2> QED  BY <1>1, <1>3, <1>4, <1>7, <2>1 DEF BulkInv, BulkWorkerInv, Attempts
<1> QED  BY <1>1, <1>4, <1>5, <1>6, <1>8 DEF BulkInv, Attempts

LEMMA BulkYield ==
  ASSUME BulkTypeOK, BulkInv, NEW w \in Worker, Yield(w) \/ FinishSending(w) PROVE BulkInv'
<1>1. PICK state \in {"delayed", "completed"} :
        /\ MoveJob(w, state)
        /\ worker[w].step \in {"batch", "saved"} /\ worker[w].next = worker[w].batch
        /\ state = "completed" => worker[w].batch = Total
        /\ worker' = [worker EXCEPT ![w] = Idle]
        /\ UNCHANGED <<draining, calls, accepted, refused, troubles>>
  <2>1. CASE Yield(w)  BY <2>1 DEF Yield, Leave
  <2>2. CASE FinishSending(w)
    <3>1. /\ worker[w].step \in {"batch", "saved"} /\ worker[w].batch = Total
          /\ MoveJob(w, "completed") /\ worker' = [worker EXCEPT ![w] = Idle]
          /\ UNCHANGED <<draining, calls, accepted, refused, troubles>>
      BY <2>2 DEF FinishSending, Leave
    <3>2. Busy(w)  BY <3>1 DEF Busy
    <3>3. BulkWorkerInv(w)  BY <3>2, WorksAlone
    <3>4. worker[w].next \in 0..Total  BY BulkFields
    <3>5. worker[w].next = Total
      BY <3>1, <3>3, <3>4, BulkAssumption DEF BulkWorkerInv
    <3> QED  BY <3>1, <3>5
  <2> QED  BY <2>1, <2>2
<1>2. Busy(w)  BY <1>1 DEF Busy
<1>3. /\ job.state \in {"active", "failed"} /\ job.locked \subseteq {w} /\ BulkWorkerInv(w)
      /\ \A v \in Worker : v # w => ~Busy(v)
  BY <1>2, WorksAlone
<1>4. CASE w \notin job.locked
  <2>1. job' = job /\ job.locked = {}  BY <1>1, <1>3, <1>4, JobMoves
  <2>2. \A m \in Recipient : Attempts(m)' <= 1  BY <1>1 DEF BulkInv, Attempts
  <2> QED  BY <1>1, <1>2, <1>3, <2>1, <2>2, WorkEnds
<1>5. CASE w \in job.locked
  <2>1. /\ job'.state \in {"delayed", "completed"} /\ job'.locked = {}
        /\ job'.state = "completed" => worker[w].batch = Total
        /\ job'.nextIndex = job.nextIndex /\ job'.successful = job.successful
    BY <1>1, <1>5, JobMoves
  <2>2. \A v \in Worker : ~Busy(v)'
    BY <1>1, <1>3 DEF Busy, BulkTypeOK, Idle
  <2>3. worker[w].next \in 0..Total /\ worker[w].lost \in BOOLEAN
    BY BulkFields
  <2>4. /\ job.nextIndex = worker[w].next /\ job.successful = worker[w].good
        /\ worker[w].good = Cardinality(accepted)
        /\ \A m \in Recipient : /\ m <= job.nextIndex => Attempts(m) = 1
                                /\ m > job.nextIndex => Attempts(m) = 0 /\ m \notin accepted
    BY <1>1, <1>3, <2>3 DEF BulkWorkerInv
  <2>5. job'.state = "completed" => \A m \in Recipient : Attempts(m) = 1
    BY <1>1, <2>1, <2>4, BulkAssumption DEF Recipient
  <2>6. BulkLockInv'
    BY <2>1, <2>2 DEF BulkLockInv
  <2> QED  BY <1>1, <2>1, <2>2, <2>4, <2>5, <2>6 DEF BulkInv, Attempts
<1> QED  BY <1>4, <1>5

LEMMA BulkStart ==
  ASSUME BulkTypeOK, BulkInv, NEW w \in Worker, StartBatch(w) \/ StartChunk(w) PROVE BulkInv'
<1>1. Busy(w) /\ UNCHANGED <<job, draining, calls, accepted, refused, troubles>>
  BY DEF StartBatch, StartChunk, Busy
<1>2. BulkWorkerInv(w) /\ job.state \in {"active", "failed"}
  BY <1>1, WorksAlone
<1>3. /\ worker[w].batch \in 0..Total /\ worker[w].next \in 0..Total
      /\ worker[w] \in BulkWork /\ worker \in [Worker -> BulkWork] /\ BatchEnd(w) \in 0..Total
  BY BulkFields, BatchEnds
<1>4. \A m \in Recipient : Attempts(m)' <= 1
  BY <1>1 DEF BulkInv, Attempts
<1>5. CASE StartBatch(w)
  <2>1. worker[w].step = "saved" /\ worker' = [worker EXCEPT ![w].step = "batch"]
    BY <1>5 DEF StartBatch
  <2>2. /\ worker'[w].step = "batch" /\ worker'[w].batch = worker[w].batch
        /\ worker'[w].next = worker[w].next /\ worker'[w].chunk = worker[w].chunk
        /\ worker'[w].good = worker[w].good /\ worker'[w].lost = worker[w].lost
        /\ \A v \in Worker : v # w => worker'[v] = worker[v]
    BY <1>3, <2>1 DEF BulkWork
  <2>3. BulkWorkerInv(w)'
    BY <1>1, <1>2, <2>1, <2>2 DEF BulkWorkerInv, BatchEnd, Attempts
  <2>4. Busy(w)'  BY <2>2 DEF Busy
  <2> QED  BY <1>1, <1>4, <2>2, <2>3, <2>4, WorkGoesOn
<1>6. CASE StartChunk(w)
  <2> DEFINE first == worker[w].next + 1
             last == Least(worker[w].next + MaxParallel, BatchEnd(w))
  <2>1. /\ worker[w].step = "batch" /\ first <= last
        /\ worker' = [worker EXCEPT ![w].step = "chunk", ![w].next = last, ![w].chunk = first..last]
    BY <1>6 DEF StartChunk
  <2>2. last \in 0..Total /\ last <= BatchEnd(w) /\ last >= first
    BY <1>3, <2>1, BulkAssumption DEF Least
  <2>3. /\ worker'[w].step = "chunk" /\ worker'[w].batch = worker[w].batch
        /\ worker'[w].next = last /\ worker'[w].chunk = first..last
        /\ worker'[w].good = worker[w].good /\ worker'[w].lost = worker[w].lost
        /\ \A v \in Worker : v # w => worker'[v] = worker[v]
    <3> HIDE DEF first, last
    <3> QED  BY <1>3, <2>1 DEF BulkWork
  <2>4. ~worker[w].lost /\ worker[w].chunk = {}
    BY <1>2, <2>1 DEF BulkWorkerInv
  <2>5. \A m \in Recipient : /\ m > worker[w].next => Attempts(m) = 0 /\ m \notin accepted
                             /\ m <= worker[w].next => Attempts(m) = 1
    BY <1>2, <2>4 DEF BulkWorkerInv
  <2>6. BatchEnd(w)' = BatchEnd(w)
    BY <2>3 DEF BatchEnd
  <2>7. /\ last > worker[w].batch /\ first > worker[w].next
        /\ first..last \subseteq 1..last
    BY <1>2, <1>3, <2>2 DEF BulkWorkerInv
  <2>8. \A m \in Recipient :
          /\ m > last \/ m \in first..last => Attempts(m) = 0 /\ m \notin accepted
          /\ m <= last /\ m \notin first..last => Attempts(m) = 1
    BY <1>3, <2>2, <2>5 DEF Recipient
  <2> HIDE DEF first, last
  <2>9. BulkWorkerInv(w)'
    BY <1>1, <1>2, <1>3, <2>2, <2>3, <2>4, <2>6, <2>7, <2>8 DEF BulkWorkerInv, Attempts
  <2>10. Busy(w)'  BY <2>3 DEF Busy
  <2> QED  BY <1>1, <1>4, <2>3, <2>9, <2>10, WorkGoesOn
<1> QED  BY <1>5, <1>6

LEMMA BulkSettle ==
  ASSUME BulkTypeOK, BulkInv, NEW w \in Worker, NEW m \in Recipient, Settle(w, m) PROVE BulkInv'
<1>1. /\ Busy(w) /\ worker[w].step = "chunk" /\ m \in worker[w].chunk /\ job' = job
  BY DEF Settle, Busy
<1>2. BulkWorkerInv(w) /\ job.state \in {"active", "failed"}
  BY <1>1, WorksAlone
<1>3. /\ worker[w] \in BulkWork /\ worker \in [Worker -> BulkWork]
      /\ calls \in [Recipient -> 0..2] /\ worker[w].lost \in BOOLEAN
      /\ worker[w].next \in 0..Total /\ worker[w].chunk \subseteq Recipient
  BY BulkFields DEF BulkTypeOK
<1>4. calls[m] = 0 /\ m \notin refused /\ m \notin accepted /\ m <= worker[w].next
  BY <1>1, <1>2, <1>3 DEF BulkWorkerInv, Attempts
<1>5. /\ Least(calls[m] + 1, 2) = 1 /\ Least(calls[m] + 0, 2) = 0
  BY <1>4 DEF Least
<1>6. /\ worker[w].good = Cardinality(accepted) /\ worker[w].good + 1 <= Total
      /\ worker[w].good \in 0..Total
  <2>1. worker[w].good = Cardinality(accepted)
    BY <1>2 DEF BulkWorkerInv
  <2>2. m \in Recipient \ accepted
    BY <1>4
  <2>3. Cardinality(accepted) < Total /\ Cardinality(accepted) \in 0..Total
    BY <2>2, AcceptedFinite
  <2> QED  BY <2>1, <2>3, BulkAssumption
<1>a. \A q \in Recipient : q # m /\ calls'[q] = calls[q] /\ (q \in refused' <=> q \in refused)
        => Attempts(q)' = Attempts(q)
  BY DEF Attempts
<1>7. /\ Attempts(m)' \in {0, 1} /\ \A q \in Recipient : q # m => Attempts(q)' = Attempts(q)
      /\ Attempts(m)' = 0 => worker'[w].lost
      /\ worker[w].lost => worker'[w].lost
      /\ \/ accepted' = accepted /\ worker'[w].good = worker[w].good
         \/ accepted' = accepted \union {m} /\ worker'[w].good = worker[w].good + 1
      /\ worker'[w].step = "chunk" /\ worker'[w].batch = worker[w].batch
      /\ worker'[w].next = worker[w].next /\ worker'[w].chunk = worker[w].chunk \ {m}
      /\ \A v \in Worker : v # w => worker'[v] = worker[v]
  <2>1. CASE /\ calls' = [calls EXCEPT ![m] = Least(@ + 1, 2)] /\ refused' = refused
             /\ accepted' = accepted \union {m}
             /\ worker' = [worker EXCEPT ![w].chunk = @ \ {m}, ![w].good = Least(@ + 1, Total)]
    <3>1. Least(worker[w].good + 1, Total) = worker[w].good + 1
      BY <1>6, BulkAssumption DEF Least
    <3>2. worker' = [worker EXCEPT ![w] = [worker[w] EXCEPT !.chunk = @ \ {m},
                                                           !.good = worker[w].good + 1]]
      BY <1>3, <2>1, <3>1
    <3>3. /\ worker'[w].step = worker[w].step /\ worker'[w].batch = worker[w].batch
          /\ worker'[w].next = worker[w].next /\ worker'[w].chunk = worker[w].chunk \ {m}
          /\ worker'[w].good = worker[w].good + 1 /\ worker'[w].lost = worker[w].lost
          /\ \A v \in Worker : v # w => worker'[v] = worker[v]
      BY <1>3, <3>2 DEF BulkWork
    <3>4. calls'[m] = 1 /\ \A q \in Recipient : q # m => calls'[q] = calls[q]
      BY <1>3, <1>5, <2>1
    <3>5. Attempts(m)' = 1 /\ \A q \in Recipient : q # m => Attempts(q)' = Attempts(q)
      BY <1>4, <1>a, <2>1, <3>4 DEF Attempts
    <3>6. accepted' = accepted \union {m} /\ Attempts(m)' \in {0, 1} /\ ~(Attempts(m)' = 0)
      BY <2>1, <3>5
    <3> QED  BY <1>1, <3>3, <3>5, <3>6, Zenon
  <2>2. CASE /\ \/ calls' = [calls EXCEPT ![m] = Least(@ + 1, 2)] /\ refused' = refused
                \/ calls' = calls /\ refused' = refused \union {m}
             /\ accepted' = accepted
             /\ worker' = [worker EXCEPT ![w].chunk = @ \ {m}]
    <3>1. /\ worker'[w].step = worker[w].step /\ worker'[w].batch = worker[w].batch
          /\ worker'[w].next = worker[w].next /\ worker'[w].chunk = worker[w].chunk \ {m}
          /\ worker'[w].good = worker[w].good /\ worker'[w].lost = worker[w].lost
          /\ \A v \in Worker : v # w => worker'[v] = worker[v]
      BY <1>3, <2>2 DEF BulkWork
    <3>2. /\ \/ calls'[m] = 1 /\ m \notin refused'
             \/ calls'[m] = 0 /\ m \in refused'
          /\ \A q \in Recipient : q # m => /\ calls'[q] = calls[q]
                                           /\ q \in refused' <=> q \in refused
      BY <1>3, <1>4, <1>5, <2>2
    <3>3. Attempts(m)' = 1 /\ \A q \in Recipient : q # m => Attempts(q)' = Attempts(q)
      BY <1>a, <3>2 DEF Attempts
    <3> QED  BY <1>1, <2>2, <3>1, <3>3
  <2>3. CASE /\ \E n \in 0..1 : calls' = [calls EXCEPT ![m] = Least(@ + n, 2)]
             /\ accepted' = accepted /\ refused' = refused
             /\ worker' = [worker EXCEPT ![w].chunk = @ \ {m}, ![w].lost = TRUE]
    <3>1. /\ worker'[w].step = worker[w].step /\ worker'[w].batch = worker[w].batch
          /\ worker'[w].next = worker[w].next /\ worker'[w].chunk = worker[w].chunk \ {m}
          /\ worker'[w].good = worker[w].good /\ worker'[w].lost = TRUE
          /\ \A v \in Worker : v # w => worker'[v] = worker[v]
      BY <1>3, <2>3 DEF BulkWork
    <3>2. calls'[m] \in {0, 1} /\ \A q \in Recipient : q # m => calls'[q] = calls[q]
      <4>1. PICK n \in 0..1 : calls' = [calls EXCEPT ![m] = Least(@ + n, 2)]
        BY <2>3
      <4>2. n = 0 \/ n = 1  OBVIOUS
      <4> QED  BY <1>3, <1>5, <4>1, <4>2
    <3>3. Attempts(m)' \in {0, 1} /\ \A q \in Recipient : q # m => Attempts(q)' = Attempts(q)
      BY <1>4, <1>a, <2>3, <3>2 DEF Attempts
    <3> QED  BY <1>1, <2>3, <3>1, <3>3
  <2> QED  BY <2>1, <2>2, <2>3 DEF Settle, RefuseSend
<1>8. worker'[w].good = Cardinality(accepted')
  BY <1>4, <1>6, <1>7, AcceptedFinite
<1>9. worker[w].next # worker[w].batch
  BY <1>1, <1>2 DEF BulkWorkerInv
<1>10. ASSUME NEW q \in Recipient
       PROVE  /\ q > worker[w].next \/ q \in worker'[w].chunk
                   => Attempts(q)' = 0 /\ q \notin accepted'
              /\ q <= worker[w].next /\ q \notin worker'[w].chunk /\ ~worker'[w].lost
                   => Attempts(q)' = 1
              /\ Attempts(q)' <= 1
  <2>1. CASE q = m
    BY <1>3, <1>4, <1>7, <2>1 DEF Recipient
  <2>2. CASE q # m
    <3>1. Attempts(q)' = Attempts(q) /\ (q \in accepted' <=> q \in accepted)
          /\ (q \in worker'[w].chunk <=> q \in worker[w].chunk)
      BY <1>3, <1>7, <2>2
    <3>2. Attempts(q) <= 1  BY DEF BulkInv
    <3> QED  BY <1>2, <1>7, <3>1, <3>2 DEF BulkWorkerInv
  <2> QED  BY <2>1, <2>2
<1>11. BatchEnd(w)' = BatchEnd(w)
  BY <1>7 DEF BatchEnd
<1>12. BulkWorkerInv(w)'
  BY <1>1, <1>2, <1>7, <1>8, <1>9, <1>10, <1>11 DEF BulkWorkerInv
<1>13. Busy(w)'  BY <1>7 DEF Busy
<1> QED  BY <1>1, <1>7, <1>10, <1>12, <1>13, WorkGoesOn

LEMMA BulkEndChunk ==
  ASSUME BulkTypeOK, BulkInv, NEW w \in Worker, EndChunk(w) PROVE BulkInv'
<1>1. /\ Busy(w) /\ worker[w].step = "chunk" /\ worker[w].chunk = {}
      /\ UNCHANGED <<draining, calls, accepted, refused, troubles>>
  BY DEF EndChunk, Busy
<1>2. BulkWorkerInv(w) /\ job.state \in {"active", "failed"} /\ job.locked \subseteq {w}
  BY <1>1, WorksAlone
<1>3. \A m \in Recipient : Attempts(m)' <= 1
  BY <1>1 DEF BulkInv, Attempts
<1>4. CASE worker[w].lost
  <2>1. MoveJob(w, "failed") /\ worker' = [worker EXCEPT ![w] = Idle]
    BY <1>4 DEF EndChunk, Leave
  <2>2. job'.state \in {"active", "failed"} /\ job'.locked = {}
    BY <1>2, <2>1, JobMoves
  <2> QED  BY <1>1, <1>3, <2>1, <2>2, WorkEnds
<1>5. CASE ~worker[w].lost
  <2>1. job' = job /\ worker' = [worker EXCEPT ![w].step = "batch"]
    BY <1>5 DEF EndChunk
  <2>2. worker \in [Worker -> BulkWork]  BY BulkFields
  <2>3. /\ worker'[w].step = "batch" /\ worker'[w].batch = worker[w].batch
        /\ worker'[w].next = worker[w].next /\ worker'[w].chunk = worker[w].chunk
        /\ worker'[w].good = worker[w].good /\ worker'[w].lost = worker[w].lost
        /\ \A v \in Worker : v # w => worker'[v] = worker[v]
    BY <2>1, <2>2 DEF BulkWork
  <2>4. BulkWorkerInv(w)'
    BY <1>1, <1>2, <1>5, <2>1, <2>3 DEF BulkWorkerInv, BatchEnd, Attempts
  <2>5. Busy(w)'  BY <2>3 DEF Busy
  <2> QED  BY <1>1, <1>3, <2>1, <2>3, <2>4, <2>5, WorkGoesOn
<1> QED  BY <1>4, <1>5

LEMMA BulkCheckpoint ==
  ASSUME BulkTypeOK, BulkInv, NEW w \in Worker, Checkpoint(w) PROVE BulkInv'
<1>1. /\ Busy(w) /\ worker[w].step = "batch" /\ worker[w].next = BatchEnd(w)
      /\ job' = [job EXCEPT !.nextIndex = worker[w].next, !.successful = worker[w].good]
      /\ worker' = [worker EXCEPT ![w].step = "saved", ![w].batch = worker[w].next]
      /\ UNCHANGED <<draining, calls, accepted, refused, troubles>>
  BY DEF Checkpoint, Busy
<1>2. BulkWorkerInv(w)
  BY <1>1, WorksAlone
<1>3. \A m \in Recipient : Attempts(m)' <= 1
  BY <1>1 DEF BulkInv, Attempts
<1>4. /\ worker \in [Worker -> BulkWork] /\ job \in BulkJob /\ worker[w].next \in 0..Total
  BY BulkFields
<1>5. /\ worker'[w].step = "saved" /\ worker'[w].batch = worker[w].next
      /\ worker'[w].next = worker[w].next /\ worker'[w].chunk = worker[w].chunk
      /\ worker'[w].good = worker[w].good /\ worker'[w].lost = worker[w].lost
      /\ \A v \in Worker : v # w => worker'[v] = worker[v]
  BY <1>1, <1>4 DEF BulkWork
<1>6. /\ job'.state = job.state /\ job'.locked = job.locked
      /\ job'.nextIndex = worker[w].next /\ job'.successful = worker[w].good
  BY <1>1, <1>4 DEF BulkJob
<1>7. worker[w].next <= BatchEnd(w)'
  BY <1>4, <1>5, BulkAssumption DEF BatchEnd, Least
<1>8. worker[w].chunk = {} /\ ~worker[w].lost
  BY <1>1, <1>2 DEF BulkWorkerInv
<1>9. BulkWorkerInv(w)'
  BY <1>1, <1>2, <1>4, <1>5, <1>6, <1>7, <1>8 DEF BulkWorkerInv, Attempts
<1>10. Busy(w)'  BY <1>5 DEF Busy
<1> QED  BY <1>1, <1>3, <1>5, <1>6, <1>9, <1>10, WorkGoesOn

\* Crashes, lost locks and the search for stalled jobs leave no job to be taken up again.
LEMMA BulkTrouble ==
  ASSUME BulkTypeOK, BulkInv,
         (\E w \in Worker : Drain(w) \/ Restart(w) \/ Crash(w) \/ LoseLock(w)) \/ FindStalled
  PROVE  BulkInv'
<1>1. ASSUME NEW w \in Worker, Drain(w) \/ Restart(w) PROVE BulkInv'
  BY <1>1 DEF Drain, Restart, BulkInv, BulkLockInv, BulkWorkerInv, Busy, BatchEnd, Attempts
<1>2. ASSUME NEW w \in Worker, Crash(w) PROVE BulkInv'
  <2>1. /\ Busy(w) /\ worker' = [worker EXCEPT ![w] = Idle] /\ UNCHANGED <<calls, refused>>
        /\ job' = [job EXCEPT !.locked = @ \ {w}]
    BY <1>2 DEF Crash, Leave, Busy
  <2>2. job.state \in {"active", "failed"} /\ job.locked \subseteq {w}
    BY <2>1, WorksAlone
  <2>3. job'.state = job.state /\ job'.locked = {}
    BY <2>1, <2>2, BulkFields DEF BulkJob
  <2>4. \A m \in Recipient : Attempts(m)' <= 1
    BY <2>1 DEF BulkInv, Attempts
  <2> QED  BY <2>1, <2>2, <2>3, <2>4, WorkEnds
<1>3. ASSUME NEW w \in Worker, LoseLock(w) PROVE BulkInv'
  <2>1. /\ job' = [job EXCEPT !.locked = {}] /\ UNCHANGED <<worker, calls, accepted, refused>>
    BY <1>3 DEF LoseLock
  <2>2. /\ job'.state = job.state /\ job'.locked = {} /\ job'.nextIndex = job.nextIndex
        /\ job'.successful = job.successful
    BY <2>1, BulkFields DEF BulkJob
  <2> QED  BY <2>1, <2>2 DEF BulkInv, BulkLockInv, BulkWorkerInv, Busy, BatchEnd, Attempts
<1>4. CASE FindStalled
  <2>1. /\ job.state = "active" /\ job.locked = {} /\ job' = [job EXCEPT !.state = "failed"]
        /\ UNCHANGED <<worker, calls, accepted, refused>>
    BY <1>4 DEF FindStalled, AfterStall
  <2>2. /\ job'.state = "failed" /\ job'.locked = {} /\ job'.nextIndex = job.nextIndex
        /\ job'.successful = job.successful
    BY <2>1, BulkFields DEF BulkJob
  <2> QED  BY <2>1, <2>2 DEF BulkInv, BulkLockInv, BulkWorkerInv, Busy, BatchEnd, Attempts
<1> QED  BY <1>1, <1>2, <1>3, <1>4

\* The bulk job's worker, checkpoint and calls agree, whatever is drained, crashes or stalls.
THEOREM BulkInvariance == BulkSpec => []BulkInv
<1>1. BulkInit => BulkInv
  <2> SUFFICES ASSUME BulkInit PROVE BulkInv
    OBVIOUS
  <2>1. Cardinality(accepted) = 0
    BY FS_EmptySet DEF BulkInit
  <2> QED
    BY <2>1, BulkAssumption DEF BulkInit, BulkInv, BulkLockInv, Busy, Idle, Recipient, Attempts
<1>2. BulkTypeOK /\ BulkInv /\ [BulkNext]_bulkVars => BulkInv'
  <2>1. BulkInv /\ UNCHANGED bulkVars => BulkInv'
    BY DEF bulkVars, BulkInv, BulkLockInv, BulkWorkerInv, Busy, BatchEnd, Attempts
  <2> QED
    BY <2>1, BulkTake, BulkYield, BulkStart, BulkSettle, BulkEndChunk, BulkCheckpoint, BulkTrouble
    DEF BulkNext, BulkStep
<1> QED  BY <1>1, <1>2, BulkTypeCorrect, PTL DEF BulkSpec

\* Whatever is drained, crashes or stalls, no recipient is sent to twice, neither called
\* again nor called after a refusal; a completed job called every recipient or was refused
\* the call, and reports as many successes as there were.
THEOREM BulkSendsAreOnce == Spec => []BulkSendsOnce
<1>1. BulkInv => BulkSendsOnce
  BY DEF BulkInv, BulkSendsOnce
<1> QED  BY <1>1, BulkInvariance, ServicesAreThemselves, PTL
-----------------------------------------------------------------------------
(***************************************************************************)
(* The order messages of a store.                                          *)
(***************************************************************************)
NotBegun(d) == metaCalls[d] = 0 /\ outbound[d] = "none" /\ \A s \in ShopScheduler : turn[s].of # d

\* One delivery of the event has a job, which one scheduler claims and no other
\* after it; and the job of a customer who is not erased is found by his hash.
OrderJobInv ==
  /\ \A d, e \in OrderEvent : shopJob[d].status # "none" /\ shopJob[e].status # "none" => d = e
  /\ \A d \in OrderEvent :
       /\ shopJob[d].status \in {"none", "queued"} => NotBegun(d)
       /\ shopJob[d].status = "none" => ~shopJob[d].payload /\ ~shopJob[d].hashed
       /\ shopJob[d].status # "none" /\ erasure # "completed" => shopJob[d].hashed
       /\ metaCalls[d] <= 1

\* A scheduler calls Meta for its claimed job once, and under the store's lock.
SchedulerInv ==
  /\ \A s \in ShopScheduler :
       /\ IF turn[s].step = "idle" THEN turn[s].of = Nobody ELSE turn[s].of \in OrderEvent
       /\ turn[s].step \in {"claimed", "sending", "calling"} => metaCalls[turn[s].of] = 0
       /\ turn[s].step \notin {"idle", "claimed"} => storeLock = s
  /\ \A s, t \in ShopScheduler : turn[s].of = turn[t].of /\ turn[s].of # Nobody => s = t

ShopifyInv == OrderJobInv /\ SchedulerInv /\ NothingAfterErasure

JobStatus == {"none", "queued", "skipped", "sending", "sent", "unknown", "cancelled"}

\* The updates of a job's row.
LEMMA OrderRows ==
  ASSUME NEW r \in JobRow, NEW st \in JobStatus
  PROVE  /\ r.status \in JobStatus /\ r.revision \in 0..MaxRevisions
         /\ r.payload \in BOOLEAN /\ r.hashed \in BOOLEAN
         /\ LET q == [r EXCEPT !.status = st] IN
              /\ q \in JobRow /\ q.status = st /\ q.payload = r.payload /\ q.hashed = r.hashed
         /\ LET q == [r EXCEPT !.status = st, !.payload = FALSE] IN
              /\ q \in JobRow /\ q.status = st /\ ~q.payload /\ q.hashed = r.hashed
         /\ LET q == [r EXCEPT !.status = st, !.payload = FALSE, !.hashed = FALSE] IN
              /\ q \in JobRow /\ q.status = st /\ ~q.payload /\ ~q.hashed
BY DEF JobRow, JobStatus

\* The step of a scheduler moves it alone, and keeps the job it works on.
LEMMA TurnGoesOn ==
  ASSUME turn \in [ShopScheduler -> Turn], NEW s \in ShopScheduler,
         NEW step \in {"idle", "claimed", "sending", "calling", "answered", "uncertain", "confirmed"},
         GoOn(s, step)
  PROVE  /\ turn' \in [ShopScheduler -> Turn]
         /\ turn'[s].step = step /\ turn'[s].of = turn[s].of
         /\ \A t \in ShopScheduler : t # s => turn'[t] = turn[t]
BY DEF GoOn, Turn

LEMMA CancelledQueue ==
  ASSUME ShopifyTypeOK, shopJob' = CancelQueued
  PROVE  /\ shopJob' \in [OrderEvent -> JobRow]
         /\ \A d \in OrderEvent :
              /\ shopJob'[d].hashed = shopJob[d].hashed
              /\ shopJob'[d].payload => shopJob[d].payload
              /\ shopJob'[d].status = "none" <=> shopJob[d].status = "none"
              /\ shopJob'[d].status # "queued"
<1> SUFFICES ASSUME NEW d \in OrderEvent
             PROVE  /\ shopJob'[d] \in JobRow
                    /\ shopJob'[d].hashed = shopJob[d].hashed
                    /\ shopJob'[d].payload => shopJob[d].payload
                    /\ shopJob'[d].status = "none" <=> shopJob[d].status = "none"
                    /\ shopJob'[d].status # "queued"
  <2>1. shopJob' = [d \in OrderEvent |-> shopJob'[d]]
    BY DEF CancelQueued
  <2> QED  BY <2>1
<1>1. shopJob[d] \in JobRow
  BY DEF ShopifyTypeOK
<1>2. CASE shopJob[d].status = "queued"
  <2> DEFINE q == [shopJob[d] EXCEPT !.status = "cancelled", !.payload = FALSE]
  <2>1. shopJob'[d] = q
    BY <1>2 DEF CancelQueued
  <2>2. q \in JobRow /\ q.status = "cancelled" /\ ~q.payload /\ q.hashed = shopJob[d].hashed
    BY <1>1, OrderRows DEF JobStatus
  <2> HIDE DEF q
  <2> QED  BY <1>2, <2>1, <2>2
<1>3. CASE shopJob[d].status # "queued"
  BY <1>1, <1>3 DEF CancelQueued
<1> QED  BY <1>2, <1>3

\* What privacy maintenance leaves of a customer's jobs and messages.
LEMMA ErasedJobs ==
  ASSUME ShopifyTypeOK, MaintainPrivacy
  PROVE  /\ shopJob' \in [OrderEvent -> JobRow]
         /\ outbound' \in [OrderEvent -> {"none", "unconfirmed", "confirmed"}]
         /\ \A d \in OrderEvent :
              IF shopJob[d].hashed
              THEN /\ shopJob'[d].status = "cancelled" /\ ~shopJob'[d].payload
                   /\ ~shopJob'[d].hashed /\ outbound'[d] = "none"
              ELSE shopJob'[d] = shopJob[d] /\ outbound'[d] = outbound[d]
<1> DEFINE q(d) == [shopJob[d] EXCEPT !.status = "cancelled", !.payload = FALSE, !.hashed = FALSE]
<1>1. /\ outbound' = [d \in OrderEvent |-> IF shopJob[d].hashed THEN "none" ELSE outbound[d]]
      /\ shopJob' = [d \in OrderEvent |-> IF shopJob[d].hashed THEN q(d) ELSE shopJob[d]]
  BY DEF MaintainPrivacy
<1>2. \A d \in OrderEvent : shopJob[d] \in JobRow /\ outbound[d] \in {"none", "unconfirmed", "confirmed"}
  BY DEF ShopifyTypeOK
<1>3. \A d \in OrderEvent : /\ q(d) \in JobRow /\ q(d).status = "cancelled"
                            /\ ~q(d).payload /\ ~q(d).hashed
  BY <1>2, OrderRows DEF JobStatus
<1> HIDE DEF q
<1> QED  BY <1>1, <1>2, <1>3

\* What the other writes of a job's row do.
LEMMA OneJobWritten ==
  ASSUME ShopifyTypeOK, NEW d \in OrderEvent, NEW st \in JobStatus,
         \/ shopJob' = [shopJob EXCEPT ![d].status = st]
         \/ shopJob' = [shopJob EXCEPT ![d].status = st, ![d].payload = FALSE]
  PROVE  /\ shopJob' \in [OrderEvent -> JobRow]
         /\ shopJob'[d].status = st /\ shopJob'[d].hashed = shopJob[d].hashed
         /\ shopJob'[d].payload => shopJob[d].payload
         /\ \A e \in OrderEvent : e # d => shopJob'[e] = shopJob[e]
<1>1. shopJob \in [OrderEvent -> JobRow] /\ shopJob[d] \in JobRow
  BY DEF ShopifyTypeOK
<1> DEFINE q == [shopJob[d] EXCEPT !.status = st]
           p == [shopJob[d] EXCEPT !.status = st, !.payload = FALSE]
<1>2. shopJob' = [shopJob EXCEPT ![d] = q] \/ shopJob' = [shopJob EXCEPT ![d] = p]
  BY <1>1
<1>3. /\ q \in JobRow /\ q.status = st /\ q.hashed = shopJob[d].hashed
      /\ q.payload = shopJob[d].payload
      /\ p \in JobRow /\ p.status = st /\ p.hashed = shopJob[d].hashed /\ ~p.payload
  BY <1>1, OrderRows
<1> HIDE DEF q, p
<1>4. CASE shopJob' = [shopJob EXCEPT ![d] = q]
  BY <1>1, <1>3, <1>4
<1>5. CASE shopJob' = [shopJob EXCEPT ![d] = p]
  BY <1>1, <1>3, <1>5
<1> QED  BY <1>2, <1>4, <1>5

\* The rule, the jobs, their messages and calls and the schedulers' turns are well-formed.
THEOREM ShopifyTypeCorrect == ShopifySpec => []ShopifyTypeOK
<1> USE ShopifyAssumption
<1>1. ShopifyInit => ShopifyTypeOK
  BY DEF ShopifyInit, ShopifyTypeOK, JobRow, Turn, NoTurn
<1>2. ShopifyTypeOK /\ [ShopifyNext]_shopifyVars => ShopifyTypeOK'
  <2> SUFFICES ASSUME ShopifyTypeOK, [ShopifyNext]_shopifyVars PROVE ShopifyTypeOK'
    OBVIOUS
  <2>0. /\ turn \in [ShopScheduler -> Turn] /\ shopJob \in [OrderEvent -> JobRow]
        /\ \A s \in ShopScheduler : turn[s].of \in OrderEvent \union {Nobody}
    BY DEF ShopifyTypeOK, Turn
  <2>b. NoTurn \in Turn
    BY DEF NoTurn, Turn
  <2>1. ASSUME NEW d \in OrderEvent, ReceiveOrder(d) PROVE ShopifyTypeOK'
    <3>1. rule.revision \in 0..MaxRevisions
      BY DEF ShopifyTypeOK
    <3> DEFINE q == [status |-> IF d \in Consented THEN "queued" ELSE "skipped",
                     revision |-> rule.revision, payload |-> d \in Consented, hashed |-> TRUE]
    <3>2. q \in JobRow
      BY <3>1 DEF JobRow
    <3>3. shopJob' = shopJob \/ shopJob' = [shopJob EXCEPT ![d] = q]
      BY <2>1 DEF ReceiveOrder
    <3> HIDE DEF q
    <3>4. shopJob' \in [OrderEvent -> JobRow]
      BY <2>0, <3>2, <3>3
    <3> QED  BY <2>1, <3>4 DEF ReceiveOrder, ShopifyTypeOK
  <2>2. ASSUME NEW d \in OrderEvent, RecoverStaleJob(d) PROVE ShopifyTypeOK'
    <3>1. shopJob' \in [OrderEvent -> JobRow]
      <4>1. PICK st \in JobStatus : shopJob' = [shopJob EXCEPT ![d].status = st]
        BY <2>2 DEF RecoverStaleJob, JobStatus
      <4> QED  BY <4>1, OneJobWritten
    <3>2. shopFaults' \in 0..MaxShopFaults
      BY <2>2 DEF RecoverStaleJob, ShopifyTypeOK
    <3> QED  BY <2>2, <3>1, <3>2 DEF RecoverStaleJob, ShopifyTypeOK
  <2>3. CASE RequestErasure  BY <2>3 DEF RequestErasure, ShopifyTypeOK
  <2>4. CASE MaintainPrivacy
    BY <2>4, ErasedJobs DEF MaintainPrivacy, ShopifyTypeOK
  <2>5. CASE Disconnect  BY <2>5, CancelledQueue DEF Disconnect, ShopifyTypeOK
  <2>6. CASE Reconnect  BY <2>6 DEF Reconnect, ShopifyTypeOK
  <2>7. ASSUME NEW enabled \in BOOLEAN, SaveRule(enabled) PROVE ShopifyTypeOK'
    <3>1. shopJob' \in [OrderEvent -> JobRow]
      BY <2>0, <2>7, CancelledQueue DEF SaveRule
    <3>2. rule' \in [enabled : BOOLEAN, revision : 0..MaxRevisions]
      BY <2>7 DEF SaveRule, ShopifyTypeOK
    <3> QED  BY <2>7, <3>1, <3>2 DEF SaveRule, ShopifyTypeOK
  <2>8. ASSUME NEW s \in ShopScheduler, NEW d \in OrderEvent, ClaimOrderJob(s, d)
        PROVE  ShopifyTypeOK'
    <3>1. shopJob' \in [OrderEvent -> JobRow]
      BY <2>8, OneJobWritten DEF ClaimOrderJob, JobStatus
    <3>2. shopJob[d].revision \in 0..MaxRevisions
      BY <2>0 DEF JobRow
    <3>3. turn' \in [ShopScheduler -> Turn]
      BY <2>0, <2>8, <3>2 DEF ClaimOrderJob, Turn
    <3> QED  BY <2>8, <3>1, <3>3 DEF ClaimOrderJob, ShopifyTypeOK
  <2>9. ASSUME NEW s \in ShopScheduler, Decline(s) \/ FinishJob(s) \/ CrashSender(s)
        PROVE  ShopifyTypeOK'
    <3>1. turn' = [turn EXCEPT ![s] = NoTurn]
      BY <2>9 DEF Decline, FinishJob, CrashSender
    <3>2. turn' \in [ShopScheduler -> Turn]
      BY <2>0, <2>b, <3>1
    <3>3. shopJob' \in [OrderEvent -> JobRow]
      <4> DEFINE d == turn[s].of
      <4>1. \/ shopJob' = shopJob
            \/ \E st \in JobStatus : \/ shopJob' = [shopJob EXCEPT ![d].status = st]
                                     \/ shopJob' = [shopJob EXCEPT ![d].status = st, ![d].payload = FALSE]
        BY <2>9 DEF Decline, FinishJob, CrashSender, JobStatus
      <4>2. CASE d \in OrderEvent  BY <2>0, <4>1, <4>2, OneJobWritten
      <4>3. CASE d \notin OrderEvent
        <5>1. ASSUME NEW q, shopJob' = [shopJob EXCEPT ![d] = q] PROVE shopJob' = shopJob
          BY <2>0, <4>3, <5>1
        <5>2. \E q : shopJob' = shopJob \/ shopJob' = [shopJob EXCEPT ![d] = q]
          BY <4>1
        <5> HIDE DEF d
        <5> QED  BY <2>0, <5>1, <5>2
      <4> QED  BY <4>2, <4>3
    <3> QED
      BY <2>9, <3>2, <3>3 DEF Decline, FinishJob, CrashSender, ShopifyTypeOK
  <2>10. ASSUME NEW s \in ShopScheduler, BeginSend(s) PROVE ShopifyTypeOK'
    BY <2>0, <2>10, TurnGoesOn DEF BeginSend, ShopifyTypeOK
  <2>11. ASSUME NEW s \in ShopScheduler, InsertMessage(s) \/ SaveWamid(s) PROVE ShopifyTypeOK'
    <3>1. turn' \in [ShopScheduler -> Turn]
      BY <2>0, <2>11, TurnGoesOn DEF InsertMessage, SaveWamid
    <3>2. outbound' \in [OrderEvent -> {"none", "unconfirmed", "confirmed"}]
      BY <2>11 DEF InsertMessage, SaveWamid, ShopifyTypeOK
    <3> QED  BY <2>11, <3>1, <3>2 DEF InsertMessage, SaveWamid, ShopifyTypeOK
  <2>12. ASSUME NEW s \in ShopScheduler, CallMeta(s) PROVE ShopifyTypeOK'
    <3>1. turn' \in [ShopScheduler -> Turn]
      BY <2>0, <2>12, TurnGoesOn DEF CallMeta
    <3> DEFINE d == turn[s].of
               c == IF metaCalls[d] < 2 THEN metaCalls[d] + 1 ELSE metaCalls[d]
    <3>c. metaCalls' = [metaCalls EXCEPT ![d] = c] /\ metaCalls \in [OrderEvent -> 0..2]
      BY <2>12 DEF CallMeta, ShopifyTypeOK
    <3>d. d \in OrderEvent => c \in 0..2
      BY <3>c
    <3> HIDE DEF c, d
    <3>2. metaCalls' \in [OrderEvent -> 0..2]
      BY <3>c, <3>d
    <3> QED  BY <2>12, <3>1, <3>2 DEF CallMeta, ShopifyTypeOK
  <2>13. CASE UNCHANGED shopifyVars
    BY <2>13 DEF shopifyVars, ShopifyTypeOK
  <2> QED
    BY <2>1, <2>2, <2>3, <2>4, <2>5, <2>6, <2>7, <2>8, <2>9, <2>10, <2>11, <2>12, <2>13
    DEF ShopifyNext, SchedulerStep
<1> QED  BY <1>1, <1>2, PTL DEF ShopifySpec

\* A lock is held by whoever is past his claim: an unlocked store has no send under way.
LEMMA UnlockedIsQuiet ==
  ASSUME ShopifyTypeOK, ShopifyInv, Unlocked
  PROVE  \A s \in ShopScheduler : turn[s].step \in {"idle", "claimed"}
BY ShopifyAssumption DEF ShopifyInv, SchedulerInv, Unlocked, ShopifyTypeOK, Turn

\* Whoever is past his claim is alone there, and nobody has asked for the erasure.
LEMMA SenderIsAlone ==
  ASSUME ShopifyTypeOK, ShopifyInv, NEW s \in ShopScheduler, turn[s].step \notin {"idle", "claimed"}
  PROVE  /\ storeLock = s /\ erasure = "none" /\ turn[s].of \in OrderEvent
         /\ \A t \in ShopScheduler : t # s => turn[t].step \in {"idle", "claimed"} /\ turn[t].of # turn[s].of
BY ShopifyAssumption DEF ShopifyInv, SchedulerInv, NothingAfterErasure

\* A step of the store that leaves the schedulers, the calls and the lock alone.
LEMMA StoreStep ==
  ASSUME ShopifyTypeOK, ShopifyInv, UNCHANGED <<turn, metaCalls, storeLock>>,
         \A d \in OrderEvent :
           /\ shopJob'[d].status = "none" => shopJob[d].status = "none" /\ shopJob'[d] = shopJob[d]
           /\ shopJob'[d].status = "queued" => shopJob[d].status \in {"none", "queued"}
           /\ shopJob'[d].status \in {"none", "queued"} => outbound'[d] = outbound[d]
           /\ shopJob'[d].status # "none" /\ erasure' # "completed" => shopJob'[d].hashed,
         \A d, e \in OrderEvent : shopJob'[d].status # "none" /\ shopJob'[e].status # "none" => d = e,
         NothingAfterErasure'
  PROVE  ShopifyInv'
<1>1. SchedulerInv'
  BY DEF ShopifyInv, SchedulerInv
<1>2. OrderJobInv'
  BY DEF ShopifyInv, OrderJobInv, NotBegun
<1> QED  BY <1>1, <1>2 DEF ShopifyInv

LEMMA ShopifyReceive ==
  ASSUME ShopifyTypeOK, ShopifyInv, NEW d \in OrderEvent, ReceiveOrder(d)
  PROVE  ShopifyInv'
<1>1. /\ UNCHANGED <<turn, metaCalls, storeLock, outbound, erasure>> /\ erasure = "none"
  BY DEF ReceiveOrder
<1>2. NothingAfterErasure'
  BY <1>1 DEF NothingAfterErasure
<1>3. CASE rule.enabled /\ ~AlreadyQueued
  <2> DEFINE q == [status |-> IF d \in Consented THEN "queued" ELSE "skipped",
                   revision |-> rule.revision, payload |-> d \in Consented, hashed |-> TRUE]
  <2>1. shopJob' = [shopJob EXCEPT ![d] = q]
    BY <1>3 DEF ReceiveOrder
  <2>2. q.hashed /\ q.status \in {"queued", "skipped"}
    OBVIOUS
  <2> HIDE DEF q
  <2>3. \A e \in OrderEvent : shopJob[e].status = "none"
    BY <1>3 DEF AlreadyQueued
  <2>4. shopJob'[d] = q /\ \A e \in OrderEvent : e # d => shopJob'[e] = shopJob[e]
    BY <2>1 DEF ShopifyTypeOK
  <2> QED  BY <1>1, <1>2, <2>2, <2>3, <2>4, StoreStep
<1>4. CASE ~(rule.enabled /\ ~AlreadyQueued)
  <2>1. shopJob' = shopJob
    BY <1>4 DEF ReceiveOrder
  <2> QED  BY <1>1, <1>2, <2>1, StoreStep DEF ShopifyInv, OrderJobInv
<1> QED  BY <1>3, <1>4

LEMMA ShopifyRecover ==
  ASSUME ShopifyTypeOK, ShopifyInv, NEW d \in OrderEvent, RecoverStaleJob(d)
  PROVE  ShopifyInv'
<1>1. PICK st \in {"sent", "unknown"} : shopJob' = [shopJob EXCEPT ![d].status = st]
  BY DEF RecoverStaleJob
<1>2. /\ UNCHANGED <<turn, metaCalls, storeLock, outbound, erasure>> /\ shopJob[d].status = "sending"
  BY DEF RecoverStaleJob
<1>3. st \in JobStatus
  BY DEF JobStatus
<1>4. /\ shopJob'[d].status = st /\ shopJob'[d].hashed = shopJob[d].hashed
      /\ shopJob'[d].payload => shopJob[d].payload
      /\ \A e \in OrderEvent : e # d => shopJob'[e] = shopJob[e]
  BY <1>1, <1>3, OneJobWritten
<1>5. NothingAfterErasure'
  BY <1>2, <1>4 DEF NothingAfterErasure, ShopifyInv
<1>6. \A e \in OrderEvent : /\ shopJob[e].status # "none" => shopJob'[e].status # "none"
                            /\ shopJob'[e].status # "none" => shopJob[e].status # "none"
                            /\ shopJob'[e].hashed = shopJob[e].hashed
  BY <1>2, <1>4
<1> QED  BY <1>2, <1>4, <1>5, <1>6, StoreStep DEF ShopifyInv, OrderJobInv

LEMMA ShopifyStore ==
  ASSUME ShopifyTypeOK, ShopifyInv,
         RequestErasure \/ Disconnect \/ Reconnect \/ \E enabled \in BOOLEAN : SaveRule(enabled)
  PROVE  ShopifyInv'
<1>1. /\ UNCHANGED <<turn, metaCalls, storeLock, outbound>>
      /\ erasure' # erasure => erasure' = "pending" /\ Unlocked
      /\ erasure' = "completed" <=> erasure = "completed"
      /\ erasure' = "none" => erasure = "none"
  BY DEF RequestErasure, Disconnect, Reconnect, SaveRule
<1>2. shopJob' = shopJob \/ shopJob' = CancelQueued
  BY DEF RequestErasure, Disconnect, Reconnect, SaveRule
<1>3. \A d \in OrderEvent : /\ shopJob'[d].hashed = shopJob[d].hashed
                            /\ shopJob'[d].payload => shopJob[d].payload
                            /\ shopJob'[d].status = "none" <=> shopJob[d].status = "none"
                            /\ shopJob'[d].status = "queued" => shopJob[d].status = "queued"
  BY <1>2, CancelledQueue
<1>4. \A d \in OrderEvent : shopJob'[d].status = "none" => shopJob'[d] = shopJob[d]
  BY <1>2, <1>3 DEF CancelQueued
<1>5. NothingAfterErasure'
  <2>1. erasure' # "none" => \A s \in ShopScheduler : turn'[s].step \in {"idle", "claimed"}
    BY <1>1, UnlockedIsQuiet DEF NothingAfterErasure, ShopifyInv
  <2> QED  BY <1>1, <1>3, <2>1 DEF NothingAfterErasure, ShopifyInv
<1> QED  BY <1>1, <1>3, <1>4, <1>5, StoreStep DEF ShopifyInv, OrderJobInv

LEMMA ShopifyErase ==
  ASSUME ShopifyTypeOK, ShopifyInv, MaintainPrivacy
  PROVE  ShopifyInv'
<1>1. /\ UNCHANGED <<turn, metaCalls, storeLock>> /\ Unlocked
      /\ erasure = "pending" /\ erasure' = "completed"
  BY DEF MaintainPrivacy
<1>2. \A d \in OrderEvent :
        IF shopJob[d].hashed
        THEN /\ shopJob'[d].status = "cancelled" /\ ~shopJob'[d].payload
             /\ ~shopJob'[d].hashed /\ outbound'[d] = "none"
        ELSE shopJob'[d] = shopJob[d] /\ outbound'[d] = outbound[d]
  BY ErasedJobs
<1>3. \A d \in OrderEvent : ~shopJob[d].hashed =>
         shopJob[d].status = "none" /\ ~shopJob[d].payload /\ outbound[d] = "none"
  BY <1>1 DEF ShopifyInv, OrderJobInv, NotBegun
<1>4. NothingAfterErasure'
  BY <1>1, <1>2, <1>3, UnlockedIsQuiet DEF NothingAfterErasure
<1> QED
  <2>1. SchedulerInv'
    BY <1>1 DEF ShopifyInv, SchedulerInv
  <2>2. \A d \in OrderEvent : shopJob'[d].status \in {"none", "queued"} => ~shopJob[d].hashed
    BY <1>2
  <2>3. \A d \in OrderEvent : /\ shopJob'[d].status # "none" => shopJob[d].hashed
                              /\ shopJob[d].hashed => shopJob[d].status # "none"
    BY <1>2, <1>3 DEF ShopifyInv, OrderJobInv
  <2>4. \A d \in OrderEvent : ~shopJob'[d].payload
    BY <1>2, <1>3
  <2> QED  BY <1>1, <1>2, <1>3, <1>4, <2>1, <2>2, <2>3, <2>4 DEF ShopifyInv, OrderJobInv, NotBegun

LEMMA ShopifyClaim ==
  ASSUME ShopifyTypeOK, ShopifyInv, NEW s \in ShopScheduler, NEW d \in OrderEvent, ClaimOrderJob(s, d)
  PROVE  ShopifyInv'
<1>1. /\ UNCHANGED <<outbound, metaCalls, erasure, storeLock>>
      /\ shopJob[d].status = "queued" /\ turn[s].step = "idle"
      /\ turn' = [turn EXCEPT ![s] = [step |-> "claimed", of |-> d, revision |-> shopJob[d].revision]]
  BY DEF ClaimOrderJob
<1>2. /\ shopJob'[d].status = "sending" /\ shopJob'[d].hashed = shopJob[d].hashed
      /\ shopJob'[d].payload => shopJob[d].payload
      /\ \A e \in OrderEvent : e # d => shopJob'[e] = shopJob[e]
  BY OneJobWritten DEF ClaimOrderJob, JobStatus
<1>3. /\ turn'[s].step = "claimed" /\ turn'[s].of = d
      /\ \A t \in ShopScheduler : t # s => turn'[t] = turn[t]
  BY <1>1 DEF ShopifyTypeOK
<1>4. NotBegun(d)
  BY <1>1 DEF ShopifyInv, OrderJobInv
<1>5. SchedulerInv'
  <2>1. \A t \in ShopScheduler : turn'[t].step \notin {"idle", "claimed"} => storeLock = t
    BY <1>3 DEF ShopifyInv, SchedulerInv
  <2>2. \A t \in ShopScheduler : turn'[t].of = d => t = s
    BY <1>3, <1>4 DEF NotBegun
  <2>3. \A t \in ShopScheduler :
          /\ IF turn'[t].step = "idle" THEN turn'[t].of = Nobody ELSE turn'[t].of \in OrderEvent
          /\ turn'[t].step \in {"claimed", "sending", "calling"} => metaCalls[turn'[t].of] = 0
    BY <1>3, <1>4 DEF ShopifyInv, SchedulerInv, NotBegun
  <2>4. \A t, u \in ShopScheduler : turn'[t].of = turn'[u].of /\ turn'[t].of # Nobody => t = u
    BY <1>3, <2>2 DEF ShopifyInv, SchedulerInv
  <2> QED  BY <1>1, <2>1, <2>3, <2>4 DEF SchedulerInv
<1>6. OrderJobInv'
  <2>1. \A e \in OrderEvent : e # d => shopJob[e].status = "none"
    BY <1>1 DEF ShopifyInv, OrderJobInv
  <2>2. \A e \in OrderEvent : e # d => NotBegun(e)'
    BY <1>1, <1>3, <2>1 DEF ShopifyInv, OrderJobInv, NotBegun
  <2> QED  BY <1>1, <1>2, <2>1, <2>2 DEF ShopifyInv, OrderJobInv
<1>7. NothingAfterErasure'
  BY <1>1, <1>2, <1>3 DEF ShopifyInv, NothingAfterErasure
<1> QED  BY <1>5, <1>6, <1>7 DEF ShopifyInv

\* A scheduler lets go of its job, whose status is what it was or a final one.
LEMMA ShopifyLeave ==
  ASSUME ShopifyTypeOK, ShopifyInv, NEW s \in ShopScheduler, Decline(s) \/ FinishJob(s) \/ CrashSender(s)
  PROVE  ShopifyInv'
<1> DEFINE d == turn[s].of
<1> USE ShopifyAssumption
<1>1. /\ UNCHANGED <<outbound, metaCalls, erasure>> /\ turn[s].step # "idle"
      /\ turn' = [turn EXCEPT ![s] = NoTurn]
      /\ \A t \in ShopScheduler : t # s /\ storeLock = t => storeLock' = t
  <2>1. Decline(s) => storeLock' = storeLock
    BY DEF Decline
  <2>2. FinishJob(s) => storeLock = s
    BY SenderIsAlone DEF FinishJob
  <2>3. CrashSender(s) => \A t \in ShopScheduler : t # s /\ storeLock = t => storeLock' = t
    BY DEF CrashSender
  <2> QED  BY <2>1, <2>2, <2>3 DEF Decline, FinishJob, CrashSender
<1>2. d \in OrderEvent /\ shopJob[d].status \notin {"none", "queued"}
  BY <1>1 DEF ShopifyInv, OrderJobInv, SchedulerInv, NotBegun
<1>3. /\ shopJob'[d].status \notin {"none", "queued"} /\ shopJob'[d].hashed = shopJob[d].hashed
      /\ shopJob'[d].payload => shopJob[d].payload
      /\ \A e \in OrderEvent : e # d => shopJob'[e] = shopJob[e]
  <2>1. \/ shopJob' = shopJob
        \/ \E st \in JobStatus \ {"none", "queued"} :
             \/ shopJob' = [shopJob EXCEPT ![d].status = st]
             \/ shopJob' = [shopJob EXCEPT ![d].status = st, ![d].payload = FALSE]
    BY DEF Decline, FinishJob, CrashSender, JobStatus
  <2> HIDE DEF d
  <2> QED  BY <1>2, <2>1, OneJobWritten
<1>4. /\ turn'[s].step = "idle" /\ turn'[s].of = Nobody
      /\ \A t \in ShopScheduler : t # s => turn'[t] = turn[t]
  BY <1>1 DEF ShopifyTypeOK, NoTurn
<1> HIDE DEF d
<1>5. SchedulerInv'
  <2>1. \A t \in ShopScheduler :
          /\ IF turn'[t].step = "idle" THEN turn'[t].of = Nobody ELSE turn'[t].of \in OrderEvent
          /\ turn'[t].step \in {"claimed", "sending", "calling"} => metaCalls[turn'[t].of] = 0
          /\ turn'[t].step \notin {"idle", "claimed"} => storeLock' = t
    BY <1>1, <1>4 DEF ShopifyInv, SchedulerInv
  <2>2. \A t, u \in ShopScheduler : turn'[t].of = turn'[u].of /\ turn'[t].of # Nobody => t = u
    BY <1>4 DEF ShopifyInv, SchedulerInv
  <2> QED  BY <1>1, <2>1, <2>2 DEF SchedulerInv
<1>6. OrderJobInv'
  <2>1. \A e \in OrderEvent : NotBegun(e) => NotBegun(e)'
    BY <1>1, <1>4 DEF NotBegun
  <2> QED  BY <1>1, <1>2, <1>3, <2>1 DEF ShopifyInv, OrderJobInv
<1>7. NothingAfterErasure'
  BY <1>1, <1>3, <1>4 DEF ShopifyInv, NothingAfterErasure
<1> QED  BY <1>5, <1>6, <1>7 DEF ShopifyInv

\* A step of the send: the job and the erasure stay as they are.
LEMMA ShopifySend ==
  ASSUME ShopifyTypeOK, ShopifyInv, NEW s \in ShopScheduler,
         BeginSend(s) \/ InsertMessage(s) \/ CallMeta(s) \/ SaveWamid(s)
  PROVE  ShopifyInv'
<1> DEFINE d == turn[s].of
<1> USE ShopifyAssumption
<1>1. PICK step \in {"sending", "calling", "answered", "uncertain", "confirmed"} : GoOn(s, step)
  BY DEF BeginSend, InsertMessage, CallMeta, SaveWamid
<1>2. /\ turn'[s].step = step /\ turn'[s].of = d
      /\ \A t \in ShopScheduler : t # s => turn'[t] = turn[t]
  BY <1>1, TurnGoesOn DEF ShopifyTypeOK
<1>3. /\ UNCHANGED <<shopJob, erasure>> /\ erasure = "none" /\ d \in OrderEvent
      /\ storeLock' = s /\ turn[s].step # "idle"
      /\ \A t \in ShopScheduler : t # s => turn[t].step \in {"idle", "claimed"}
  <2>1. CASE BeginSend(s)
    BY <2>1, UnlockedIsQuiet DEF BeginSend, Permitted, ShopifyInv, SchedulerInv
  <2>2. CASE InsertMessage(s) \/ CallMeta(s) \/ SaveWamid(s)
    BY <2>2, SenderIsAlone DEF InsertMessage, CallMeta, SaveWamid
  <2> QED  BY <2>1, <2>2
<1>4. shopJob[d].status \notin {"none", "queued"}
  BY <1>3 DEF ShopifyInv, OrderJobInv, NotBegun
<1>5. /\ \A e \in OrderEvent : e # d => outbound'[e] = outbound[e] /\ metaCalls'[e] = metaCalls[e]
      /\ metaCalls'[d] <= 1 /\ (step \in {"sending", "calling"} => metaCalls'[d] = 0)
  <2>0. metaCalls \in [OrderEvent -> 0..2] /\ outbound \in [OrderEvent -> {"none", "unconfirmed", "confirmed"}]
    BY DEF ShopifyTypeOK
  <2>1. CASE CallMeta(s)
    <3>1. metaCalls' = [metaCalls EXCEPT ![d] = IF @ < 2 THEN @ + 1 ELSE @] /\ outbound' = outbound
      BY <2>1 DEF CallMeta
    <3>2. metaCalls[d] = 0
      BY <2>1 DEF CallMeta, ShopifyInv, SchedulerInv
    <3>3. metaCalls'[d] = 1
      BY <1>3, <2>0, <3>1, <3>2
    <3>4. step \notin {"sending", "calling"}
      <4>1. turn'[s].step \in {"answered", "uncertain"}
        BY <2>1, TurnGoesOn DEF CallMeta, ShopifyTypeOK
      <4> QED  BY <1>2, <4>1
    <3> QED  BY <1>3, <2>0, <3>1, <3>3, <3>4
  <2>2. CASE BeginSend(s) \/ InsertMessage(s) \/ SaveWamid(s)
    <3>1. metaCalls' = metaCalls /\ \A e \in OrderEvent : e # d => outbound'[e] = outbound[e]
      BY <2>0, <2>2 DEF BeginSend, InsertMessage, SaveWamid
    <3>2. metaCalls[d] <= 1
      BY <1>3 DEF ShopifyInv, OrderJobInv
    <3>3. turn[s].step \in {"claimed", "sending"} => metaCalls[d] = 0
      BY DEF ShopifyInv, SchedulerInv
    <3>4. step \in {"sending", "calling"} => turn[s].step \in {"claimed", "sending"}
      <4>1. SaveWamid(s) => turn'[s].step \in {"confirmed", "uncertain"}
        BY TurnGoesOn DEF SaveWamid, ShopifyTypeOK
      <4> QED  BY <1>2, <2>2, <4>1 DEF BeginSend, InsertMessage
    <3> QED  BY <3>1, <3>2, <3>3, <3>4
  <2> QED  BY <2>1, <2>2
<1> HIDE DEF d
<1>6. SchedulerInv'
  <2>1. \A t \in ShopScheduler : t # s => turn[t].of # d
    BY <1>3 DEF ShopifyInv, SchedulerInv, d
  <2>2. ASSUME NEW t \in ShopScheduler
        PROVE  /\ IF turn'[t].step = "idle" THEN turn'[t].of = Nobody ELSE turn'[t].of \in OrderEvent
               /\ turn'[t].step \in {"claimed", "sending", "calling"} => metaCalls'[turn'[t].of] = 0
               /\ turn'[t].step \notin {"idle", "claimed"} => storeLock' = t
    <3>1. CASE t = s  BY <1>2, <1>3, <1>5, <3>1
    <3>2. CASE t # s
      BY <1>2, <1>3, <1>5, <2>1, <3>2 DEF ShopifyInv, SchedulerInv
    <3> QED  BY <3>1, <3>2
  <2>3. \A t, u \in ShopScheduler : turn'[t].of = turn'[u].of /\ turn'[t].of # Nobody => t = u
    BY <1>2 DEF ShopifyInv, SchedulerInv, d
  <2> QED  BY <2>2, <2>3 DEF SchedulerInv
<1>7. OrderJobInv'
  <2>1. \A e \in OrderEvent : e # d => (NotBegun(e) => NotBegun(e)')
    BY <1>2, <1>5 DEF NotBegun, d
  <2> QED  BY <1>3, <1>4, <1>5, <2>1 DEF ShopifyInv, OrderJobInv
<1>8. NothingAfterErasure'
  BY <1>3 DEF NothingAfterErasure
<1> QED  BY <1>6, <1>7, <1>8 DEF ShopifyInv

\* The store's jobs, calls, schedulers and erasure agree, whatever is delivered twice,
\* recovered early, crashes or is edited.
THEOREM ShopifyInvariance == ShopifySpec => []ShopifyInv
<1>1. ShopifyInit => ShopifyInv
  BY ShopifyAssumption
  DEF ShopifyInit, ShopifyInv, OrderJobInv, SchedulerInv, NotBegun, NothingAfterErasure, NoTurn
<1>2. ShopifyTypeOK /\ ShopifyInv /\ [ShopifyNext]_shopifyVars => ShopifyInv'
  <2>1. ShopifyInv /\ UNCHANGED shopifyVars => ShopifyInv'
    BY DEF shopifyVars, ShopifyInv, OrderJobInv, SchedulerInv, NotBegun, NothingAfterErasure
  <2> QED
    BY <2>1, ShopifyReceive, ShopifyRecover, ShopifyStore, ShopifyErase, ShopifyClaim,
       ShopifyLeave, ShopifySend
    DEF ShopifyNext, SchedulerStep
<1> QED  BY <1>1, <1>2, ShopifyTypeCorrect, PTL DEF ShopifySpec

\* Meta is called at most once for an order event, over all the jobs its deliveries queued.
THEOREM OrdersSentOnce == Spec => []OrderSentOnce
<1>1. ShopifyTypeOK /\ ShopifyInv => OrderSentOnce
  <2> SUFFICES ASSUME ShopifyTypeOK, ShopifyInv PROVE SumOver(metaCalls, OrderEvent) <= 1
    BY DEF OrderSentOnce, SumOver
  <2>0. IsFiniteSet(OrderEvent) /\ metaCalls \in [OrderEvent -> 0..2]
    BY ShopifyAssumption DEF ShopifyTypeOK
  <2>1. CASE \A d \in OrderEvent : metaCalls[d] = 0
    BY <2>0, <2>1, SumOfZeros
  <2>2. ASSUME NEW d \in OrderEvent, metaCalls[d] # 0 PROVE SumOver(metaCalls, OrderEvent) <= 1
    <3>1. metaCalls[d] = 1 /\ \A e \in OrderEvent \ {d} : metaCalls[e] = 0
      BY <2>0, <2>2 DEF ShopifyInv, OrderJobInv, NotBegun
    <3> DEFINE z == [e \in OrderEvent |-> 0]
    <3>2. z \in [OrderEvent -> Int] /\ SumOver(z, OrderEvent) = 0
      BY <2>0, SumOfZeros
    <3>3. z[d] = 0 /\ \A e \in OrderEvent : e # d => metaCalls[e] = z[e]
      BY <3>1
    <3>4. metaCalls \in [OrderEvent -> Int]
      BY <2>0
    <3> HIDE DEF z
    <3>5. metaCalls[d] = z[d] + 1
      BY <3>1, <3>3
    <3>6. SumOver(metaCalls, OrderEvent) = SumOver(z, OrderEvent) + 1
      BY <2>0, <3>2, <3>3, <3>4, <3>5, SumMoves
    <3> QED  BY <3>2, <3>6
  <2> QED  BY <2>1, <2>2
<1> QED  BY <1>1, ShopifyTypeCorrect, ShopifyInvariance, ServicesAreThemselves, PTL

\* After the request to erase the customer nothing is sent to him, and when it is
\* completed no job or message keeps anything of him.
THEOREM ErasureHolds == Spec => []NothingAfterErasure
<1>1. ShopifyInv => NothingAfterErasure
  BY DEF ShopifyInv
<1> QED  BY <1>1, ShopifyInvariance, ServicesAreThemselves, PTL
-----------------------------------------------------------------------------
(***************************************************************************)
(* The onboarding of a WhatsApp account.                                   *)
(***************************************************************************)
Registering(w) == setup[w].step \in {"register", "dispatch", "accepted", "refused"}

\* Between the request that is saved as uncertain and its outcome one worker registers an
\* onboarding's phone; a request that may have been accepted is never made again.
RegisterInv ==
  /\ \A w \in OnboardWorker :
       IF setup[w].step = "idle" THEN setup[w].of = 0 ELSE setup[w].of \in Onboarding
  /\ \A w, v \in OnboardWorker : Registering(w) /\ Registering(v) /\ setup[w].of = setup[v].of => w = v
  /\ \A w \in OnboardWorker : Registering(w) => signup[setup[w].of].registration = "uncertain"
  /\ \A o \in Onboarding :
       /\ dispatched[o] <= 1
       /\ dispatched[o] = 1 =>
            /\ signup[o].registration \in {"uncertain", "accepted"}
            /\ \A w \in OnboardWorker : Registering(w) /\ setup[w].of = o => setup[w].step = "accepted"

\* A claim follows a restart, a temporary error that left attempts, the one selection of
\* the phone, or a fault.
AttemptsLeft(o) ==
  MaxSetupAttempts + (MaxLeaseFaults - leaseFaults) + (IF signup[o].chosen THEN 1 ELSE 0) - signup[o].attempts

AttemptsInv(o) ==
  /\ AttemptsLeft(o) >= 0
  /\ signup[o].status \in {"none", "exchanging_code"} => signup[o].attempts = 0
  /\ signup[o].status = "pending" => AttemptsLeft(o) >= 1
  /\ signup[o].status = "processing" /\ ~(signup[o].fresh /\ Tended(o)) => AttemptsLeft(o) >= 1

SetupInv == RegisterInv /\ \A o \in Onboarding : AttemptsInv(o)

SignupStatus == {"absent", "none", "exchanging_code", "exchange_uncertain", "failed", "pending",
                 "processing", "needs_selection", "action_required", "connected"}
Registration == {"none", "uncertain", "refused", "accepted"}
Tries == 0..(MaxSetupAttempts + MaxLeaseFaults + 1)
Registers == {"register", "dispatch", "accepted", "refused"}
SetupSteps == {"idle", "inspect", "account", "phone", "confirm", "connect"} \union Registers

LEMMA SignupFields ==
  ASSUME NEW r \in SignupRow
  PROVE  /\ r.status \in SignupStatus /\ r.lease \in OnboardWorker \union {Unleased}
         /\ r.fresh \in BOOLEAN /\ r.attempts \in Tries /\ r.registration \in Registration
         /\ r.chosen \in BOOLEAN /\ r.wakeable \in BOOLEAN
BY DEF SignupRow, SignupStatus, Tries, Registration

\* The updates of a row that leave its lease alone,
LEMMA RowsInPlace ==
  ASSUME NEW r \in SignupRow, NEW st \in SignupStatus, NEW n \in Tries,
         NEW b \in BOOLEAN
  PROVE  /\ LET q == [r EXCEPT !.status = st] IN
              /\ q \in SignupRow /\ q.status = st /\ q.attempts = r.attempts
              /\ q.registration = r.registration /\ q.chosen = r.chosen
         /\ LET q == [r EXCEPT !.status = st, !.attempts = n] IN
              /\ q \in SignupRow /\ q.status = st /\ q.attempts = n
              /\ q.registration = r.registration /\ q.chosen = r.chosen
         /\ LET q == [r EXCEPT !.wakeable = b] IN
              /\ q \in SignupRow /\ q.status = r.status /\ q.attempts = r.attempts
              /\ q.registration = r.registration /\ q.chosen = r.chosen
BY DEF SignupRow, SignupStatus, Tries, Registration

\* that give it a lease or take it away,
LEMMA RowsLeased ==
  ASSUME NEW r \in SignupRow, NEW st \in SignupStatus, NEW w \in OnboardWorker \union {Unleased},
         NEW n \in Tries
  PROVE  /\ LET q == [r EXCEPT !.status = st, !.lease = w, !.chosen = TRUE] IN
              /\ q \in SignupRow /\ q.status = st /\ q.attempts = r.attempts
              /\ q.registration = r.registration /\ q.chosen
         /\ LET q == [r EXCEPT !.status = st, !.lease = w, !.fresh = TRUE, !.attempts = n] IN
              /\ q \in SignupRow /\ q.status = st /\ q.attempts = n /\ q.lease = w /\ q.fresh
              /\ q.registration = r.registration /\ q.chosen = r.chosen
BY DEF SignupRow, SignupStatus, Tries, Registration

\* and that keep it.
LEMMA RowsRenewed ==
  ASSUME NEW r \in SignupRow, NEW re \in Registration, NEW b \in BOOLEAN
  PROVE  /\ LET q == [r EXCEPT !.fresh = b] IN
              /\ q \in SignupRow /\ q.status = r.status /\ q.attempts = r.attempts /\ q.lease = r.lease
              /\ q.registration = r.registration /\ q.chosen = r.chosen /\ (b => q.fresh)
         /\ LET q == [r EXCEPT !.registration = re] IN
              /\ q \in SignupRow /\ q.status = r.status /\ q.attempts = r.attempts /\ q.lease = r.lease
              /\ q.registration = re /\ q.chosen = r.chosen
BY DEF SignupRow, SignupStatus, Tries, Registration

\* One row is written and the others stay.
LEMMA SignupWritten ==
  ASSUME OnboardingTypeOK, NEW o \in Onboarding, NEW q \in SignupRow,
         signup' = [signup EXCEPT ![o] = q]
  PROVE  /\ signup' \in [Onboarding -> SignupRow] /\ signup'[o] = q
         /\ \A x \in Onboarding : x # o => signup'[x] = signup[x]
BY DEF OnboardingTypeOK

\* A worker moves on or leaves, and the others stay.
LEMMA SetupMoves ==
  ASSUME OnboardingTypeOK, NEW w \in OnboardWorker, NEW step \in SetupSteps,
         Go(w, step) \/ (LeaveSetup(w) /\ step = "idle")
  PROVE  /\ setup' \in [OnboardWorker -> Setup] /\ setup'[w].step = step
         /\ setup'[w].of = IF Go(w, step) THEN setup[w].of ELSE 0
         /\ \A v \in OnboardWorker : v # w => setup'[v] = setup[v]
<1> USE OnboardingAssumption
<1>1. setup[w] \in Setup /\ setup \in [OnboardWorker -> Setup]
  BY DEF OnboardingTypeOK
<1>2. CASE Go(w, step)
  BY <1>1, <1>2 DEF Go, Setup, SetupSteps, Registers
<1>3. CASE ~Go(w, step)
  <2>1. [of |-> 0, step |-> "idle"] \in Setup
    BY DEF Setup
  <2> QED  BY <1>1, <1>3, <2>1 DEF LeaveSetup
<1> QED  BY <1>2, <1>3

\* Steps that register nothing and leave the rows' registrations as they are.
LEMMA RegisterKept ==
  ASSUME RegisterInv, dispatched' = dispatched,
         \A o \in Onboarding : signup'[o].registration = signup[o].registration,
         \A w \in OnboardWorker :
           \/ setup'[w] = setup[w]
           \/ setup'[w].step = "idle" /\ setup'[w].of = 0
           \/ setup'[w].step \in SetupSteps \ (Registers \union {"idle"}) /\ setup'[w].of \in Onboarding
  PROVE  RegisterInv'
<1>1. \A w \in OnboardWorker : Registering(w)' => Registering(w) /\ setup'[w] = setup[w]
  BY DEF Registering, SetupSteps, Registers
<1>2. \A w \in OnboardWorker :
        IF setup'[w].step = "idle" THEN setup'[w].of = 0 ELSE setup'[w].of \in Onboarding
  BY DEF RegisterInv, SetupSteps
<1>3. \A w \in OnboardWorker : Registering(w) => setup[w].of \in Onboarding
  BY DEF RegisterInv, Registering
<1>4. \A w \in OnboardWorker : Registering(w)' => signup'[setup'[w].of].registration = "uncertain"
  BY <1>1, <1>3 DEF RegisterInv
<1> QED  BY <1>1, <1>2, <1>4 DEF RegisterInv

\* A row that is not written keeps its attempts while whoever tends it stays.
LEMMA AttemptsKept ==
  ASSUME NEW o \in Onboarding, AttemptsInv(o), signup'[o] = signup[o], leaseFaults' = leaseFaults,
         signup[o].status = "processing" /\ Tended(o) => Tended(o)'
  PROVE  AttemptsInv(o)'
<1>1. AttemptsLeft(o)' = AttemptsLeft(o)
  BY DEF AttemptsLeft
<1> QED  BY <1>1 DEF AttemptsInv

\* Only the worker of an onboarding can leave it untended.
LEMMA StillTended ==
  ASSUME NEW o \in Onboarding, NEW w \in OnboardWorker, signup'[o] = signup[o],
         \A v \in OnboardWorker : v # w => setup'[v] = setup[v],
         setup[w].of = o => signup[o].status # "processing" \/ signup[o].lease # w
  PROVE  signup[o].status = "processing" /\ Tended(o) => Tended(o)'
BY DEF Tended

\* The attempts of a row that is written.
LEMMA AttemptsWritten ==
  ASSUME OnboardingTypeOK, NEW o \in Onboarding, AttemptsInv(o), leaseFaults' = leaseFaults,
         signup'[o].attempts = signup[o].attempts, signup[o].chosen => signup'[o].chosen,
         signup'[o].status \in {"none", "exchanging_code"} => signup'[o].attempts = 0,
         signup'[o].status = "pending" =>
           \/ signup[o].status = "pending"
           \/ signup[o].attempts < MaxSetupAttempts
           \/ signup'[o].chosen /\ ~signup[o].chosen,
         signup'[o].status = "processing" =>
           signup[o].status = "processing" /\ ((signup'[o].fresh /\ Tended(o)') \/ AttemptsLeft(o) >= 1)
  PROVE  AttemptsInv(o)'
<1>1. /\ signup[o].attempts \in Int /\ MaxSetupAttempts \in Nat /\ leaseFaults \in 0..MaxLeaseFaults
      /\ MaxLeaseFaults \in Nat
  BY OnboardingAssumption, SignupFields DEF OnboardingTypeOK, Tries
<1>2. /\ AttemptsLeft(o)' >= AttemptsLeft(o)
      /\ signup'[o].chosen /\ ~signup[o].chosen => AttemptsLeft(o)' >= AttemptsLeft(o) + 1
      /\ AttemptsLeft(o) >= MaxSetupAttempts - signup[o].attempts
      /\ AttemptsLeft(o) \in Int /\ AttemptsLeft(o)' \in Int
  BY <1>1 DEF AttemptsLeft
<1> QED  BY <1>1, <1>2 DEF AttemptsInv

OnboardingInv == OnboardingTypeOK /\ SetupInv

\* The steps that write one row beside the workers.
LEMMA RowStep ==
  ASSUME OnboardingInv, NEW o \in Onboarding, NEW q \in SignupRow, signup' = [signup EXCEPT ![o] = q],
         UNCHANGED <<account, credential, setup, phone, dispatched>>,
         nudges' \in 0..MaxNudges, leaseFaults' \in 0..MaxLeaseFaults,
         q.registration = signup[o].registration,
         \A x \in Onboarding : x # o => (leaseFaults' = leaseFaults \/ AttemptsInv(x)'),
         AttemptsInv(o)'
  PROVE  OnboardingInv'
<1>1. /\ signup' \in [Onboarding -> SignupRow] /\ signup'[o] = q
      /\ \A x \in Onboarding : x # o => signup'[x] = signup[x]
  BY SignupWritten DEF OnboardingInv
<1>2. OnboardingTypeOK'
  BY <1>1 DEF OnboardingInv, OnboardingTypeOK
<1>3. RegisterInv'
  BY <1>1, RegisterKept DEF OnboardingInv, SetupInv
<1>4. ASSUME NEW x \in Onboarding, x # o, leaseFaults' = leaseFaults PROVE AttemptsInv(x)'
  BY <1>1, <1>4, AttemptsKept DEF OnboardingInv, SetupInv, Tended
<1> QED  BY <1>2, <1>3, <1>4 DEF OnboardingInv, SetupInv

LEMMA FirstTry == 0 \in Tries /\ "pending" \in SignupStatus /\ FALSE \in BOOLEAN
BY OnboardingAssumption DEF Tries, SignupStatus

LEMMA Nudged == ASSUME OnboardingInv, Nudge PROVE nudges' \in 0..MaxNudges
BY OnboardingAssumption DEF Nudge, OnboardingInv, OnboardingTypeOK

LEMMA OnboardRequest ==
  ASSUME OnboardingInv, NEW o \in Onboarding, Reserve(o) \/ ExchangeCode(o)
  PROVE  OnboardingInv'
<1>1. PICK st \in {"exchanging_code", "pending", "failed", "exchange_uncertain"} :
        /\ signup[o].status \in {"none", "exchanging_code"}
        /\ Write(o, [signup[o] EXCEPT !.status = st])
  BY DEF Reserve, ExchangeCode
<1>2. signup[o] \in SignupRow /\ st \in SignupStatus /\ nudges \in 0..MaxNudges
      /\ leaseFaults \in 0..MaxLeaseFaults
  BY DEF OnboardingInv, OnboardingTypeOK, SignupStatus
<1> DEFINE q == [signup[o] EXCEPT !.status = st]
<1>3. /\ q \in SignupRow /\ q.status = st /\ q.attempts = signup[o].attempts
      /\ q.registration = signup[o].registration /\ q.chosen = signup[o].chosen
  BY <1>2, FirstTry, RowsInPlace
<1>4. signup' = [signup EXCEPT ![o] = q]
      /\ UNCHANGED <<account, credential, setup, phone, dispatched, nudges, leaseFaults>>
  BY <1>1 DEF Write
<1> HIDE DEF q
<1>5. signup'[o] = q
  BY <1>3, <1>4, SignupWritten DEF OnboardingInv
<1>6. signup[o].attempts = 0 /\ AttemptsInv(o) /\ MaxSetupAttempts \in Nat \ {0}
  BY <1>1, OnboardingAssumption DEF OnboardingInv, SetupInv, AttemptsInv
<1>7. AttemptsInv(o)'
  BY <1>3, <1>4, <1>5, <1>6, AttemptsWritten DEF OnboardingInv
<1> QED  BY <1>2, <1>3, <1>4, <1>7, RowStep

\* The attempts of a row that starts over.
LEMMA AttemptsRestart ==
  ASSUME OnboardingInv, NEW o \in Onboarding, leaseFaults' = leaseFaults,
         signup'[o].attempts = 0, signup'[o].status = "pending"
  PROVE  AttemptsInv(o)'
<1>1. MaxSetupAttempts \in Nat \ {0} /\ leaseFaults \in 0..MaxLeaseFaults /\ MaxLeaseFaults \in Nat
  BY OnboardingAssumption DEF OnboardingInv, OnboardingTypeOK
<1> QED  BY <1>1 DEF AttemptsInv, AttemptsLeft

LEMMA OnboardRestart ==
  ASSUME OnboardingInv, NEW o \in Onboarding, Retry(o) \/ Select(o)
  PROVE  OnboardingInv'
<1>1. /\ UNCHANGED <<account, credential, setup, phone, dispatched, leaseFaults>>
      /\ nudges' \in 0..MaxNudges /\ leaseFaults \in 0..MaxLeaseFaults
      /\ signup[o] \in SignupRow /\ signup \in [Onboarding -> SignupRow]
  BY Nudged DEF Retry, Select, OnboardingInv, OnboardingTypeOK
<1> DEFINE p == Restarted(o)
           r == [p EXCEPT !.wakeable = FALSE]
<1>2. /\ p \in SignupRow /\ p.status = "pending" /\ p.attempts = 0
      /\ p.registration = signup[o].registration /\ p.chosen = signup[o].chosen
  BY <1>1, FirstTry DEF Restarted, SignupRow, Tries, SignupStatus
<1> HIDE DEF p
<1>3. /\ r \in SignupRow /\ r.status = "pending" /\ r.attempts = 0
      /\ r.registration = signup[o].registration /\ r.chosen = signup[o].chosen
  BY <1>2, FirstTry, RowsInPlace
<1> HIDE DEF r
<1>4. CASE Retry(o)
  <2>1. signup' = [signup EXCEPT ![o] = r]
    BY <1>4 DEF Retry, r, p
  <2>2. signup'[o] = r
    BY <1>3, <2>1, SignupWritten DEF OnboardingInv
  <2> QED  BY <1>1, <1>3, <2>1, <2>2, AttemptsRestart, RowStep
<1>5. CASE Select(o)
  <2> DEFINE s == IF Stopped(o) THEN r ELSE signup[o]
             q == [s EXCEPT !.status = "pending", !.lease = Unleased, !.chosen = TRUE]
  <2>1. signup' = [signup EXCEPT ![o] = q]
    BY <1>5 DEF Select, r, p
  <2>2. s \in SignupRow /\ s.registration = signup[o].registration
    BY <1>1, <1>3
  <2>3. /\ q \in SignupRow /\ q.status = "pending" /\ q.attempts = s.attempts
        /\ q.registration = s.registration /\ q.chosen
    <3> HIDE DEF s
    <3> QED  BY <2>2 DEF SignupRow
  <2> HIDE DEF q
  <2>4. signup'[o] = q
    BY <2>1, <2>3, SignupWritten DEF OnboardingInv
  <2>5. AttemptsInv(o)'
    <3>1. CASE Stopped(o)
      BY <1>1, <1>3, <2>3, <2>4, <3>1, AttemptsRestart
    <3>2. CASE ~Stopped(o)
      <4>1. ~signup[o].chosen /\ q.attempts = signup[o].attempts /\ AttemptsInv(o)
        BY <1>5, <2>3, <3>2 DEF Select, OnboardingInv, SetupInv
      <4> QED  BY <1>1, <2>3, <2>4, <4>1, AttemptsWritten DEF OnboardingInv
    <3> QED  BY <3>1, <3>2
  <2> HIDE DEF s
  <2> QED  BY <1>1, <2>1, <2>2, <2>3, <2>5, RowStep
<1> QED  BY <1>4, <1>5

LEMMA OnboardEvent ==
  ASSUME OnboardingInv, AccountEvent
  PROVE  OnboardingInv'
<1>1. /\ UNCHANGED <<account, credential, setup, phone, dispatched, leaseFaults>>
      /\ nudges' \in 0..MaxNudges
  BY Nudged DEF AccountEvent
<1>2. \A o \in Onboarding :
        /\ Restarted(o) \in SignupRow /\ Restarted(o).status = "pending"
        /\ Restarted(o).attempts = 0 /\ Restarted(o).registration = signup[o].registration
  BY FirstTry DEF Restarted, SignupRow, Tries, SignupStatus, OnboardingInv, OnboardingTypeOK
<1>3. /\ signup' = [o \in Onboarding |-> signup'[o]]
      /\ \A o \in Onboarding : signup'[o] = Restarted(o) \/ signup'[o] = signup[o]
  BY DEF AccountEvent
<1>4. signup' \in [Onboarding -> SignupRow]
  BY <1>2, <1>3 DEF OnboardingInv, OnboardingTypeOK
<1>5. RegisterInv'
  BY <1>1, <1>2, <1>3, RegisterKept DEF OnboardingInv, SetupInv
<1>6. ASSUME NEW o \in Onboarding PROVE AttemptsInv(o)'
  <2>1. CASE signup'[o] = Restarted(o)  BY <1>1, <1>2, <2>1, AttemptsRestart
  <2>2. CASE signup'[o] = signup[o]
    BY <1>1, <2>2, AttemptsKept DEF OnboardingInv, SetupInv, Tended
  <2> QED  BY <1>3, <2>1, <2>2
<1>7. OnboardingTypeOK'
  BY <1>1, <1>4 DEF OnboardingInv, OnboardingTypeOK
<1> QED  BY <1>5, <1>6, <1>7 DEF OnboardingInv, SetupInv

LEMMA OnboardExpiry ==
  ASSUME OnboardingInv, NEW o \in Onboarding, LeaseExpires(o)
  PROVE  OnboardingInv'
<1> DEFINE q == [signup[o] EXCEPT !.fresh = FALSE]
<1>1. /\ UNCHANGED <<account, credential, setup, phone, dispatched, nudges>>
      /\ signup[o].status = "processing" /\ signup[o] \in SignupRow
      /\ MaxLeaseFaults \in Nat /\ leaseFaults \in 0..MaxLeaseFaults /\ nudges \in 0..MaxNudges
  BY OnboardingAssumption DEF LeaseExpires, OnboardingInv, OnboardingTypeOK
<1>2. /\ q \in SignupRow /\ q.status = signup[o].status /\ q.attempts = signup[o].attempts
      /\ q.registration = signup[o].registration /\ q.chosen = signup[o].chosen
  BY <1>1 DEF SignupRow
<1>3. signup' = [signup EXCEPT ![o] = q]
  BY DEF LeaseExpires
<1> HIDE DEF q
<1>4. /\ signup'[o] = q /\ \A x \in Onboarding : x # o => signup'[x] = signup[x]
  BY <1>2, <1>3, SignupWritten DEF OnboardingInv
<1>5. ASSUME NEW x \in Onboarding
      PROVE  /\ AttemptsInv(x) /\ AttemptsLeft(x) \in Int
             /\ x # o => signup'[x] = signup[x] /\ (Tended(x) => Tended(x)')
             /\ signup'[x].attempts = signup[x].attempts /\ signup'[x].chosen = signup[x].chosen
             /\ signup'[x].status = signup[x].status
  <2>1. AttemptsInv(x) /\ signup[x].attempts \in Int
    BY SignupFields DEF OnboardingInv, SetupInv, OnboardingTypeOK, Tries
  <2> QED  BY <1>1, <1>2, <1>4, <2>1, OnboardingAssumption DEF AttemptsLeft, Tended
<1>6. CASE ~Tended(o) /\ leaseFaults' = leaseFaults
  <2>1. AttemptsLeft(o)' = AttemptsLeft(o)
    BY <1>5, <1>6 DEF AttemptsLeft
  <2>2. AttemptsInv(o)'
    BY <1>5, <1>6, <2>1 DEF AttemptsInv
  <2> QED  BY <1>1, <1>2, <1>3, <1>6, <2>2, RowStep
<1>7. CASE leaseFaults > 0 /\ leaseFaults' = leaseFaults - 1
  <2>1. \A x \in Onboarding : AttemptsLeft(x)' = AttemptsLeft(x) + 1
    BY <1>1, <1>5, <1>7, SignupFields, OnboardingAssumption DEF AttemptsLeft, OnboardingInv, OnboardingTypeOK, Tries
  <2>2. \A x \in Onboarding : AttemptsInv(x)'
    BY <1>5, <2>1 DEF AttemptsInv
  <2>3. leaseFaults' \in 0..MaxLeaseFaults
    BY <1>1, <1>7
  <2> QED  BY <1>1, <1>2, <1>3, <2>2, <2>3, RowStep
<1> QED  BY <1>6, <1>7 DEF LeaseExpires

\* A step of a worker: what it keeps beside its own onboarding.
LEMMA OthersAttempts ==
  ASSUME OnboardingInv, NEW w \in OnboardWorker, NEW o \in Onboarding, setup[w].of = o,
         leaseFaults' = leaseFaults,
         \A v \in OnboardWorker : v # w => setup'[v] = setup[v],
         \A x \in Onboarding : x # o => signup'[x] = signup[x],
         AttemptsInv(o)'
  PROVE  \A x \in Onboarding : AttemptsInv(x)'
<1> SUFFICES ASSUME NEW x \in Onboarding, x # o PROVE AttemptsInv(x)'
  OBVIOUS
<1> QED  BY AttemptsKept, StillTended DEF OnboardingInv, SetupInv

\* A worker that gives its onboarding up: an error is saved under its lease only.
LEMMA WorkerFails ==
  ASSUME OnboardingInv, NEW w \in OnboardWorker, setup[w].step # "idle", leaseFaults' = leaseFaults,
         \/ \E error \in {"selection", "temporary", "definite"} : FailWith(w, error)
         \/ LeaveSetup(w) /\ signup' = signup /\ ~Holds(w)
  PROVE  /\ signup' \in [Onboarding -> SignupRow] /\ setup' \in [OnboardWorker -> Setup]
         /\ \A x \in Onboarding : signup'[x].registration = signup[x].registration
         /\ setup'[w].step = "idle" /\ setup'[w].of = 0
         /\ \A v \in OnboardWorker : v # w => setup'[v] = setup[v]
         /\ \A x \in Onboarding : AttemptsInv(x)'
<1>0. PICK o \in Onboarding : o = setup[w].of
  BY DEF OnboardingInv, SetupInv, RegisterInv
<1>1. signup[o] \in SignupRow /\ AttemptsInv(o)
  BY DEF OnboardingInv, SetupInv, OnboardingTypeOK
<1>2. LeaveSetup(w)
  BY DEF FailWith
<1>3. /\ setup' \in [OnboardWorker -> Setup] /\ setup'[w].step = "idle" /\ setup'[w].of = 0
      /\ \A v \in OnboardWorker : v # w => setup'[v] = setup[v]
  <2>1. "idle" \in SetupSteps
    BY DEF SetupSteps
  <2>2. setup'[w].of = 0
    BY <1>2 DEF LeaveSetup, OnboardingInv, OnboardingTypeOK
  <2> QED  BY <1>2, <2>1, <2>2, SetupMoves DEF OnboardingInv
<1>4. CASE signup' = signup /\ ~Holds(w)
  <2>1. \A x \in Onboarding : AttemptsInv(x)'
    BY <1>3, <1>4, AttemptsKept, StillTended DEF OnboardingInv, SetupInv, Holds
  <2> QED  BY <1>3, <1>4, <2>1 DEF OnboardingInv, OnboardingTypeOK
<1>5. ASSUME NEW error \in {"selection", "temporary", "definite"}, FailWith(w, error), Holds(w)
      PROVE  /\ signup' \in [Onboarding -> SignupRow]
             /\ \A x \in Onboarding : signup'[x].registration = signup[x].registration
             /\ \A x \in Onboarding : AttemptsInv(x)'
  <2> DEFINE st == StatusAfter(o, error)
             b == error = "temporary"
             q == [signup[o] EXCEPT !.status = st, !.lease = Unleased, !.fresh = FALSE, !.wakeable = b]
  <2>1. /\ st \in {"needs_selection", "pending", "action_required"} /\ b \in BOOLEAN
        /\ st = "pending" => signup[o].attempts < MaxSetupAttempts
    BY DEF StatusAfter
  <2>2. signup' = [signup EXCEPT ![o] = q]
    BY <1>0, <1>5 DEF FailWith
  <2>3. /\ q \in SignupRow /\ q.status = st /\ q.attempts = signup[o].attempts
        /\ q.registration = signup[o].registration /\ q.chosen = signup[o].chosen
    <3>1. st \in SignupStatus
      BY <2>1 DEF SignupStatus
    <3>2. PICK u \in SignupStatus : u = st
      BY <3>1
    <3>3. PICK wake \in BOOLEAN : wake = b
      BY <2>1
    <3>4. PICK old \in SignupRow : old = signup[o]
      BY <1>1
    <3>5. PICK new : new = [old EXCEPT !.status = u, !.lease = Unleased, !.fresh = FALSE, !.wakeable = wake]
      OBVIOUS
    <3>6. /\ new \in SignupRow /\ new.status = u /\ new.attempts = old.attempts
          /\ new.registration = old.registration /\ new.chosen = old.chosen
      BY <3>5 DEF SignupRow, SignupStatus
    <3> HIDE DEF st, b
    <3>7. new = q
      BY <3>2, <3>3, <3>4, <3>5, Zenon
    <3> HIDE DEF q
    <3> QED  BY <3>2, <3>4, <3>6, <3>7
  <2> HIDE DEF q, b
  <2>4. /\ signup' \in [Onboarding -> SignupRow] /\ signup'[o] = q
        /\ \A x \in Onboarding : x # o => signup'[x] = signup[x]
    BY <1>1, <2>2, <2>3, SignupWritten DEF OnboardingInv
  <2> HIDE DEF st
  <2>5. AttemptsInv(o)'
    BY <1>1, <2>1, <2>3, <2>4, AttemptsWritten DEF OnboardingInv
  <2>6. \A x \in Onboarding : AttemptsInv(x)'
    BY <1>0, <1>3, <2>4, <2>5, OthersAttempts
  <2> QED  BY <2>3, <2>4, <2>6
<1> QED  BY <1>3, <1>4, <1>5 DEF FailWith

\* A worker that renews its lease and moves on.
LEMMA WorkerRenews ==
  ASSUME OnboardingInv, NEW w \in OnboardWorker, setup[w].step # "idle", Holds(w),
         leaseFaults' = leaseFaults, NEW step \in SetupSteps \ {"idle"}, Go(w, step),
         NEW re \in Registration, NEW row,
         \/ row = signup[setup[w].of] /\ re = row.registration
         \/ row = [signup[setup[w].of] EXCEPT !.registration = re],
         Renewed(w, row)
  PROVE  /\ signup' \in [Onboarding -> SignupRow] /\ setup' \in [OnboardWorker -> Setup]
         /\ signup'[setup[w].of].registration = re
         /\ \A x \in Onboarding : x # setup[w].of => signup'[x] = signup[x]
         /\ setup'[w].step = step /\ setup'[w].of = setup[w].of
         /\ \A v \in OnboardWorker : v # w => setup'[v] = setup[v]
         /\ \A x \in Onboarding : AttemptsInv(x)'
<1>0. PICK o \in Onboarding : o = setup[w].of
  BY DEF OnboardingInv, SetupInv, RegisterInv
<1> DEFINE q == [row EXCEPT !.fresh = TRUE]
<1>1. signup[o] \in SignupRow /\ AttemptsInv(o)
  BY DEF OnboardingInv, SetupInv, OnboardingTypeOK
<1>2. /\ setup' \in [OnboardWorker -> Setup] /\ setup'[w].step = step /\ setup'[w].of = o
      /\ \A v \in OnboardWorker : v # w => setup'[v] = setup[v]
  BY <1>0, SetupMoves DEF OnboardingInv
<1>3. /\ row \in SignupRow /\ row.status = "processing" /\ row.attempts = signup[o].attempts
      /\ row.lease = w /\ row.registration = re /\ row.chosen = signup[o].chosen
  <2>1. signup[o].status = "processing" /\ signup[o].lease = w
    BY <1>0 DEF Holds
  <2>2. CASE row = signup[o] /\ re = row.registration
    BY <1>0, <1>1, <2>1, <2>2
  <2>3. CASE row = [signup[o] EXCEPT !.registration = re]
    BY <1>0, <1>1, <2>1, <2>3, RowsRenewed
  <2> QED  BY <1>0, <2>2, <2>3
<1>4. /\ q \in SignupRow /\ q.status = "processing" /\ q.attempts = signup[o].attempts
      /\ q.lease = w /\ q.registration = re /\ q.chosen = signup[o].chosen /\ q.fresh
  BY <1>3, RowsRenewed
<1>5. signup' = [signup EXCEPT ![o] = q]
  BY <1>0 DEF Renewed
<1> HIDE DEF q
<1>6. /\ signup' \in [Onboarding -> SignupRow] /\ signup'[o] = q
      /\ \A x \in Onboarding : x # o => signup'[x] = signup[x]
  BY <1>1, <1>4, <1>5, SignupWritten DEF OnboardingInv
<1>7. Tended(o)' /\ signup[o].status = "processing"
  BY <1>0, <1>2, <1>4, <1>6 DEF Tended, Holds
<1>8. AttemptsInv(o)'
  BY <1>1, <1>4, <1>6, <1>7, AttemptsWritten DEF OnboardingInv
<1>9. \A x \in Onboarding : AttemptsInv(x)'
  BY <1>0, <1>2, <1>6, <1>8, OthersAttempts
<1> QED  BY <1>0, <1>2, <1>4, <1>6, <1>9

\* The steps in which one worker's part in registering the phone changes.
LEMMA RegisterMoves ==
  ASSUME OnboardingTypeOK, RegisterInv, NEW w \in OnboardWorker, NEW o \in Onboarding, setup[w].of = o,
         \A v \in OnboardWorker : v # w => setup'[v] = setup[v],
         \A x \in Onboarding : x # o => signup'[x].registration = signup[x].registration
                                        /\ dispatched'[x] = dispatched[x],
         IF setup'[w].step = "idle" THEN setup'[w].of = 0 ELSE setup'[w].of = o,
         \A v \in OnboardWorker : v # w /\ Registering(v) => setup[v].of # o,
         Registering(w)' => signup'[o].registration = "uncertain",
         dispatched'[o] <= 1,
         dispatched'[o] = 1 => /\ signup'[o].registration \in {"uncertain", "accepted"}
                               /\ Registering(w)' => setup'[w].step = "accepted"
  PROVE  RegisterInv'
<1>1. \A v \in OnboardWorker : v # w => (Registering(v)' <=> Registering(v))
  BY DEF Registering
<1>2. \A v \in OnboardWorker : IF setup'[v].step = "idle" THEN setup'[v].of = 0 ELSE setup'[v].of \in Onboarding
  BY DEF RegisterInv
<1>3. \A v, u \in OnboardWorker :
        Registering(v)' /\ Registering(u)' /\ setup'[v].of = setup'[u].of => v = u
  <2>1. Registering(w)' => setup'[w].of = o
    BY DEF Registering
  <2> QED  BY <1>1, <2>1 DEF RegisterInv
<1>4. ASSUME NEW v \in OnboardWorker, Registering(v)'
      PROVE  signup'[setup'[v].of].registration = "uncertain"
  <2>1. CASE v = w
    BY <1>4, <2>1 DEF Registering
  <2>2. CASE v # w
    <3>1. setup[v].of \in Onboarding \ {o} /\ signup[setup[v].of].registration = "uncertain"
      BY <1>1, <1>4, <2>2 DEF RegisterInv, Registering
    <3> QED  BY <2>2, <3>1
  <2> QED  BY <2>1, <2>2
<1>5. ASSUME NEW x \in Onboarding
      PROVE  /\ dispatched'[x] <= 1
             /\ dispatched'[x] = 1 =>
                  /\ signup'[x].registration \in {"uncertain", "accepted"}
                  /\ \A v \in OnboardWorker : Registering(v)' /\ setup'[v].of = x => setup'[v].step = "accepted"
  <2>1. CASE x = o
    <3>1. \A v \in OnboardWorker : v # w /\ Registering(v)' => setup'[v].of # o
      BY <1>1
    <3> QED  BY <2>1, <3>1
  <2>2. CASE x # o
    <3>1. Registering(w)' => setup'[w].of = o
      BY DEF Registering
    <3> QED  BY <1>1, <2>2, <3>1 DEF RegisterInv
  <2> QED  BY <2>1, <2>2
<1> QED  BY <1>2, <1>3, <1>4, <1>5 DEF RegisterInv

LEMMA OnboardClaim ==
  ASSUME OnboardingInv, NEW w \in OnboardWorker, NEW o \in Onboarding, ClaimSignup(w, o)
  PROVE  OnboardingInv'
<1> DEFINE n == signup[o].attempts + 1
           q == [signup[o] EXCEPT !.status = "processing", !.lease = w, !.fresh = TRUE, !.attempts = n]
<1>1. /\ UNCHANGED <<account, credential, phone, dispatched, nudges, leaseFaults>>
      /\ setup[w].step = "idle" /\ setup[w].of = 0 /\ 0 # o
      /\ setup' = [setup EXCEPT ![w] = [of |-> o, step |-> "inspect"]]
      /\ signup[o] \in SignupRow /\ setup \in [OnboardWorker -> Setup]
  BY OnboardingAssumption DEF ClaimSignup, OnboardingInv, OnboardingTypeOK, SetupInv, RegisterInv, Onboarding
<1>2. AttemptsInv(o) /\ AttemptsLeft(o) >= 1
  BY DEF ClaimSignup, Claimable, OnboardingInv, SetupInv, AttemptsInv
<1>3. n \in Tries /\ n <= MaxSetupAttempts + (MaxLeaseFaults - leaseFaults)
                             + (IF signup[o].chosen THEN 1 ELSE 0)
  <2>1. /\ signup[o].attempts \in Nat /\ leaseFaults \in 0..MaxLeaseFaults
        /\ MaxSetupAttempts \in Nat /\ MaxLeaseFaults \in Nat
    BY <1>1, OnboardingAssumption, SignupFields DEF Tries, OnboardingInv, OnboardingTypeOK
  <2> QED  BY <1>2, <2>1 DEF AttemptsLeft, Tries
<1>4. /\ q \in SignupRow /\ q.status = "processing" /\ q.attempts = n /\ q.lease = w /\ q.fresh
      /\ q.registration = signup[o].registration /\ q.chosen = signup[o].chosen
  <2> HIDE DEF n
  <2> QED  BY <1>1, <1>3 DEF SignupRow, Tries
<1>5. signup' = [signup EXCEPT ![o] = q]
  BY DEF ClaimSignup
<1> HIDE DEF q
<1>6. /\ signup' \in [Onboarding -> SignupRow] /\ signup'[o] = q
      /\ \A x \in Onboarding : x # o => signup'[x] = signup[x]
  BY <1>4, <1>5, SignupWritten DEF OnboardingInv
<1>7. /\ setup' \in [OnboardWorker -> Setup] /\ setup'[w].of = o /\ setup'[w].step = "inspect"
      /\ \A v \in OnboardWorker : v # w => setup'[v] = setup[v]
  <2>1. [of |-> o, step |-> "inspect"] \in Setup
    BY DEF Setup, Onboarding
  <2> QED  BY <1>1, <2>1
<1>8. OnboardingTypeOK'
  BY <1>1, <1>6, <1>7 DEF OnboardingInv, OnboardingTypeOK
<1>9. RegisterInv'
  <2>1. \A x \in Onboarding : signup'[x].registration = signup[x].registration
    BY <1>4, <1>6
  <2>2. setup'[w].step \in SetupSteps \ (Registers \union {"idle"})
    BY <1>7 DEF SetupSteps, Registers
  <2> QED  BY <1>1, <1>7, <2>1, <2>2, RegisterKept DEF OnboardingInv, SetupInv
<1>10. ASSUME NEW x \in Onboarding PROVE AttemptsInv(x)'
  <2>1. CASE x = o
    <3>1. Tended(o)' /\ signup'[o].fresh
      BY <1>4, <1>6, <1>7 DEF Tended
    <3>2. AttemptsLeft(o)' >= 0
      <4>1. leaseFaults' \in Nat /\ n \in Nat /\ MaxSetupAttempts \in Nat /\ MaxLeaseFaults \in Nat
        BY <1>1, <1>3, OnboardingAssumption DEF Tries, OnboardingInv, OnboardingTypeOK
      <4> HIDE DEF n
      <4> QED  BY <1>1, <1>3, <1>4, <1>6, <4>1 DEF AttemptsLeft
    <3> QED  BY <1>4, <1>6, <2>1, <3>1, <3>2 DEF AttemptsInv
  <2>2. CASE x # o
    <3>1. Tended(x) => Tended(x)'
      BY <1>1, <1>6, <1>7, <2>2, OnboardingAssumption DEF Tended, Onboarding
    <3> QED  BY <1>1, <1>6, <2>2, <3>1, AttemptsKept DEF OnboardingInv, SetupInv
  <2> QED  BY <2>1, <2>2
<1> QED  BY <1>8, <1>9, <1>10 DEF OnboardingInv, SetupInv

\* A worker leaves before it registered anything, or between two registrations.
LEMMA OnboardLeave ==
  ASSUME OnboardingInv, NEW w \in OnboardWorker, LoseLease(w) \/ Fail(w)
  PROVE  OnboardingInv'
<1>1. /\ setup[w].step # "idle" /\ UNCHANGED <<account, credential, phone, dispatched, nudges, leaseFaults>>
      /\ \/ \E error \in {"selection", "temporary", "definite"} : FailWith(w, error)
         \/ LeaveSetup(w) /\ signup' = signup /\ ~Holds(w)
  BY DEF LoseLease, Fail
<1>2. /\ signup' \in [Onboarding -> SignupRow] /\ setup' \in [OnboardWorker -> Setup]
      /\ \A x \in Onboarding : signup'[x].registration = signup[x].registration
      /\ setup'[w].step = "idle" /\ setup'[w].of = 0
      /\ \A v \in OnboardWorker : v # w => setup'[v] = setup[v]
      /\ \A x \in Onboarding : AttemptsInv(x)'
  BY <1>1, WorkerFails
<1>3. RegisterInv'
  BY <1>1, <1>2, RegisterKept DEF OnboardingInv, SetupInv
<1>4. OnboardingTypeOK'
  BY <1>1, <1>2 DEF OnboardingInv, OnboardingTypeOK
<1> QED  BY <1>2, <1>3, <1>4 DEF OnboardingInv, SetupInv

LEMMA OnboardCrash ==
  ASSUME OnboardingInv, NEW w \in OnboardWorker, CrashOnboarding(w)
  PROVE  OnboardingInv'
<1>1. /\ UNCHANGED <<signup, account, credential, phone, dispatched, nudges>>
      /\ leaseFaults > 0 /\ leaseFaults' = leaseFaults - 1 /\ LeaveSetup(w)
      /\ leaseFaults \in 0..MaxLeaseFaults /\ MaxLeaseFaults \in Nat
  BY OnboardingAssumption DEF CrashOnboarding, OnboardingInv, OnboardingTypeOK
<1>2. /\ setup' \in [OnboardWorker -> Setup] /\ setup'[w].step = "idle" /\ setup'[w].of = 0
      /\ \A v \in OnboardWorker : v # w => setup'[v] = setup[v]
  <2>1. "idle" \in SetupSteps
    BY DEF SetupSteps
  <2>2. setup'[w].of = 0
    BY <1>1 DEF LeaveSetup, OnboardingInv, OnboardingTypeOK
  <2> QED  BY <1>1, <2>1, <2>2, SetupMoves DEF OnboardingInv
<1>3. RegisterInv'
  BY <1>1, <1>2, RegisterKept DEF OnboardingInv, SetupInv
<1>4. ASSUME NEW x \in Onboarding PROVE AttemptsInv(x)'
  <2>1. AttemptsInv(x) /\ signup[x].attempts \in Int
    BY SignupFields DEF OnboardingInv, SetupInv, OnboardingTypeOK, Tries
  <2>2. AttemptsLeft(x)' = AttemptsLeft(x) + 1 /\ AttemptsLeft(x) \in Int
    BY <1>1, <2>1, OnboardingAssumption DEF AttemptsLeft
  <2> QED  BY <1>1, <2>1, <2>2 DEF AttemptsInv
<1>5. OnboardingTypeOK'
  BY <1>1, <1>2 DEF OnboardingInv, OnboardingTypeOK
<1> QED  BY <1>3, <1>4, <1>5 DEF OnboardingInv, SetupInv

\* A worker goes on under its lease, or gives up, and registers nothing.
LEMMA OnboardGoOn ==
  ASSUME OnboardingInv, NEW w \in OnboardWorker,
         \/ Inspected(w) \/ ClaimAccount(w) \/ Confirm(w)
         \/ CheckPhone(w) /\ (phone = "connected" \/ ~NotYetRequested(setup[w].of))
  PROVE  OnboardingInv'
<1>0. PICK o \in Onboarding : o = setup[w].of
  BY DEF OnboardingInv, SetupInv, RegisterInv, Inspected, ClaimAccount, Confirm, CheckPhone
<1>1. /\ setup[w].step # "idle" /\ Holds(w) /\ signup[o] \in SignupRow
      /\ UNCHANGED <<credential, phone, dispatched, nudges, leaseFaults>>
      /\ account' \in 0..Signups
  BY <1>0, OnboardingAssumption
  DEF Inspected, ClaimAccount, Confirm, CheckPhone, OnboardingInv, OnboardingTypeOK, Onboarding
<1>2. \/ \E error \in {"selection", "temporary", "definite"} : FailWith(w, error)
      \/ \E step \in SetupSteps \ (Registers \union {"idle"}) : Go(w, step) /\ Renewed(w, signup[o])
  <2>1. {"account", "phone", "connect"} \subseteq SetupSteps \ (Registers \union {"idle"})
    BY DEF SetupSteps, Registers
  <2>2. Inspected(w) => Go(w, "account") /\ Renewed(w, signup[o])
    BY <1>0 DEF Inspected
  <2>3. ClaimAccount(w) => FailWith(w, "definite") \/ (Go(w, "phone") /\ Renewed(w, signup[o]))
    BY <1>0 DEF ClaimAccount
  <2>4. Confirm(w) => FailWith(w, "temporary") \/ (Go(w, "connect") /\ Renewed(w, signup[o]))
    BY <1>0 DEF Confirm
  <2>5. CheckPhone(w) /\ (phone = "connected" \/ ~NotYetRequested(o))
          => FailWith(w, "temporary") \/ (Go(w, "connect") /\ Renewed(w, signup[o]))
    BY <1>0 DEF CheckPhone
  <2> QED  BY <1>0, <2>1, <2>2, <2>3, <2>4, <2>5
<1>3. /\ signup' \in [Onboarding -> SignupRow] /\ setup' \in [OnboardWorker -> Setup]
      /\ \A x \in Onboarding : signup'[x].registration = signup[x].registration
      /\ \/ setup'[w].step = "idle" /\ setup'[w].of = 0
         \/ setup'[w].step \in SetupSteps \ (Registers \union {"idle"}) /\ setup'[w].of = o
      /\ \A v \in OnboardWorker : v # w => setup'[v] = setup[v]
      /\ \A x \in Onboarding : AttemptsInv(x)'
  <2>1. CASE \E error \in {"selection", "temporary", "definite"} : FailWith(w, error)
    BY <1>1, <2>1, WorkerFails
  <2>2. ASSUME NEW step \in SetupSteps \ (Registers \union {"idle"}), Go(w, step), Renewed(w, signup[o])
        PROVE  /\ signup' \in [Onboarding -> SignupRow] /\ setup' \in [OnboardWorker -> Setup]
               /\ \A x \in Onboarding : signup'[x].registration = signup[x].registration
               /\ setup'[w].step = step /\ setup'[w].of = o
               /\ \A v \in OnboardWorker : v # w => setup'[v] = setup[v]
               /\ \A x \in Onboarding : AttemptsInv(x)'
    <3>1. signup[o].registration \in Registration
      BY <1>1, SignupFields
    <3> DEFINE re == signup[o].registration
               row == signup[o]
    <3>2. row = signup[setup[w].of] /\ re = row.registration /\ Renewed(w, row)
      BY <1>0, <2>2
    <3> HIDE DEF row
    <3>3. /\ signup' \in [Onboarding -> SignupRow] /\ setup' \in [OnboardWorker -> Setup]
          /\ signup'[setup[w].of].registration = re
          /\ \A x \in Onboarding : x # setup[w].of => signup'[x] = signup[x]
          /\ setup'[w].step = step /\ setup'[w].of = setup[w].of
          /\ \A v \in OnboardWorker : v # w => setup'[v] = setup[v]
          /\ \A x \in Onboarding : AttemptsInv(x)'
      BY <1>1, <2>2, <3>1, <3>2, WorkerRenews
    <3> QED  BY <1>0, <3>3
  <2> QED  BY <1>2, <2>1, <2>2
<1>4. RegisterInv'
  BY <1>1, <1>3, RegisterKept DEF OnboardingInv, SetupInv
<1>5. OnboardingTypeOK'
  BY <1>1, <1>3 DEF OnboardingInv, OnboardingTypeOK
<1> QED  BY <1>3, <1>4, <1>5 DEF OnboardingInv, SetupInv

\* The request is saved, its lease renewed before the call, its acceptance saved.
LEMMA OnboardRegister ==
  ASSUME OnboardingInv, NEW w \in OnboardWorker,
         \/ CheckPhone(w) /\ phone # "connected" /\ NotYetRequested(setup[w].of)
         \/ Heartbeat(w) \/ SaveAccepted(w)
  PROVE  OnboardingInv'
<1>0. PICK o \in Onboarding : o = setup[w].of
  BY DEF OnboardingInv, SetupInv, RegisterInv, CheckPhone, Heartbeat, SaveAccepted
<1>1. /\ setup[w].step # "idle" /\ Holds(w) /\ signup[o] \in SignupRow
      /\ UNCHANGED <<account, credential, phone, dispatched, nudges, leaseFaults>>
      /\ dispatched[o] \in 0..2
  BY <1>0 DEF CheckPhone, Heartbeat, SaveAccepted, OnboardingInv, OnboardingTypeOK
<1>2. PICK step \in SetupSteps \ {"idle"}, re \in Registration :
        /\ Go(w, step)
        /\ \/ Renewed(w, [signup[setup[w].of] EXCEPT !.registration = re])
           \/ Renewed(w, signup[setup[w].of]) /\ re = signup[setup[w].of].registration
        /\ \/ /\ setup[w].step = "phone" /\ signup[o].registration \in {"none", "refused"}
              /\ step = "register" /\ re = "uncertain"
           \/ setup[w].step = "register" /\ step = "dispatch" /\ re = signup[o].registration
           \/ setup[w].step = "accepted" /\ step = "confirm" /\ re = "accepted"
  <2>1. /\ {"register", "dispatch", "confirm"} \subseteq SetupSteps \ {"idle"}
        /\ {"uncertain", "accepted", signup[o].registration} \subseteq Registration
    BY <1>1, SignupFields DEF SetupSteps, Registers, Registration
  <2>2. CASE CheckPhone(w) /\ phone # "connected" /\ NotYetRequested(setup[w].of)
    BY <1>0, <2>1, <2>2 DEF CheckPhone, NotYetRequested
  <2>3. CASE Heartbeat(w)
    BY <1>0, <2>1, <2>3 DEF Heartbeat
  <2>4. CASE SaveAccepted(w)
    BY <1>0, <2>1, <2>4 DEF SaveAccepted
  <2> QED  BY <2>2, <2>3, <2>4
<1>3. /\ signup' \in [Onboarding -> SignupRow] /\ setup' \in [OnboardWorker -> Setup]
      /\ signup'[setup[w].of].registration = re
      /\ \A x \in Onboarding : x # setup[w].of => signup'[x] = signup[x]
      /\ setup'[w].step = step /\ setup'[w].of = setup[w].of
      /\ \A v \in OnboardWorker : v # w => setup'[v] = setup[v]
      /\ \A x \in Onboarding : AttemptsInv(x)'
  BY <1>1, <1>2, WorkerRenews
<1>4. /\ \A v \in OnboardWorker : v # w /\ Registering(v) => setup[v].of # o
      /\ Registering(w)' => signup'[o].registration = "uncertain"
      /\ dispatched'[o] <= 1
      /\ dispatched'[o] = 1 => /\ signup'[o].registration \in {"uncertain", "accepted"}
                               /\ Registering(w)' => setup'[w].step = "accepted"
  <2>1. RegisterInv
    BY DEF OnboardingInv, SetupInv
  <2>2. CASE setup[w].step = "phone"
    BY <1>0, <1>1, <1>2, <1>3, <2>1, <2>2 DEF RegisterInv
  <2>3. CASE setup[w].step # "phone"
    <3>1. /\ Registering(w)
          /\ signup[o].registration = "uncertain" /\ dispatched[o] <= 1
          /\ dispatched[o] = 1 => setup[w].step = "accepted"
      BY <1>0, <1>2, <2>1, <2>3 DEF Registering, RegisterInv
    <3>2. \A v \in OnboardWorker : v # w /\ Registering(v) => setup[v].of # o
      BY <1>0, <2>1, <3>1 DEF RegisterInv
    <3> QED  BY <1>0, <1>1, <1>2, <1>3, <2>3, <3>1, <3>2 DEF Registering
  <2> QED  BY <2>2, <2>3
<1>5. RegisterInv'
  BY <1>0, <1>1, <1>2, <1>3, <1>4, RegisterMoves DEF OnboardingInv, SetupInv
<1>6. OnboardingTypeOK'
  BY <1>1, <1>3 DEF OnboardingInv, OnboardingTypeOK
<1> QED  BY <1>3, <1>5, <1>6 DEF OnboardingInv, SetupInv

\* A request is made once: whoever makes it is alone with it and none was made before.
LEMMA OnboardDispatch ==
  ASSUME OnboardingInv, NEW w \in OnboardWorker, Register(w)
  PROVE  OnboardingInv'
<1>0. PICK o \in Onboarding : o = setup[w].of
  BY DEF OnboardingInv, SetupInv, RegisterInv, Register
<1>1. /\ setup[w].step = "dispatch" /\ UNCHANGED <<account, credential, nudges, leaseFaults>>
      /\ dispatched \in [Onboarding -> 0..2] /\ signup \in [Onboarding -> SignupRow]
      /\ phone' \in {"unregistered", "registering", "connected"}
  BY DEF Register, OnboardingInv, OnboardingTypeOK
<1>2. /\ signup[o].registration = "uncertain" /\ dispatched[o] = 0 /\ Registering(w)
      /\ \A v \in OnboardWorker : v # w /\ Registering(v) => setup[v].of # o
  BY <1>0, <1>1 DEF OnboardingInv, SetupInv, RegisterInv, Registering
<1> DEFINE n == IF dispatched[o] < 2 THEN dispatched[o] + 1 ELSE dispatched[o]
           counted == [dispatched EXCEPT ![o] = n]
<1>3. n = 1
  BY <1>2
<1>4. counted \in [Onboarding -> 0..2] /\ counted[o] = 1 /\ \A x \in Onboarding : x # o => counted[x] = dispatched[x]
  <2> HIDE DEF n
  <2> QED  BY <1>1, <1>3
<1>5. \/ dispatched' = counted /\ Go(w, "accepted") /\ signup' = signup
      \/ dispatched' = dispatched /\ Go(w, "refused") /\ signup' = signup
      \/ dispatched' = counted /\ FailWith(w, "temporary")
  BY <1>0 DEF Register
<1> HIDE DEF counted
<1>6. CASE FailWith(w, "temporary") /\ dispatched' = counted
  <2>1. /\ signup' \in [Onboarding -> SignupRow] /\ setup' \in [OnboardWorker -> Setup]
        /\ \A x \in Onboarding : signup'[x].registration = signup[x].registration
        /\ setup'[w].step = "idle" /\ setup'[w].of = 0
        /\ \A v \in OnboardWorker : v # w => setup'[v] = setup[v]
        /\ \A x \in Onboarding : AttemptsInv(x)'
    BY <1>1, <1>6, WorkerFails
  <2>2. ~Registering(w)'
    BY <2>1 DEF Registering
  <2>3. RegisterInv'
    BY <1>0, <1>2, <1>4, <1>6, <2>1, <2>2, RegisterMoves DEF OnboardingInv, SetupInv
  <2>4. OnboardingTypeOK'
    BY <1>1, <1>4, <1>6, <2>1 DEF OnboardingInv, OnboardingTypeOK
  <2> QED  BY <2>1, <2>3, <2>4 DEF OnboardingInv, SetupInv
<1>7. ASSUME NEW step \in {"accepted", "refused"}, Go(w, step), signup' = signup,
             dispatched' = IF step = "accepted" THEN counted ELSE dispatched
      PROVE  OnboardingInv'
  <2>1. step \in SetupSteps
    BY DEF SetupSteps, Registers
  <2>2. /\ setup' \in [OnboardWorker -> Setup] /\ setup'[w].step = step /\ setup'[w].of = o
        /\ \A v \in OnboardWorker : v # w => setup'[v] = setup[v]
    BY <1>0, <1>7, <2>1, SetupMoves DEF OnboardingInv
  <2>3. RegisterInv'
    BY <1>0, <1>2, <1>4, <1>7, <2>2, RegisterMoves DEF OnboardingInv, SetupInv
  <2>4. ASSUME NEW x \in Onboarding PROVE AttemptsInv(x)'
    <3>1. Tended(x) => Tended(x)'
      BY <1>0, <1>7, <2>2 DEF Tended
    <3> QED  BY <1>1, <1>7, <3>1, AttemptsKept DEF OnboardingInv, SetupInv
  <2>5. OnboardingTypeOK'
    BY <1>1, <1>4, <1>7, <2>2 DEF OnboardingInv, OnboardingTypeOK
  <2> QED  BY <2>3, <2>4, <2>5 DEF OnboardingInv, SetupInv
<1> QED  BY <1>5, <1>6, <1>7

\* A worker ends the onboarding: Meta refused the request, or the account is connected.
LEMMA OnboardEnd ==
  ASSUME OnboardingInv, NEW w \in OnboardWorker, SaveRefusal(w) \/ Connect(w)
  PROVE  OnboardingInv'
<1>0. PICK o \in Onboarding : o = setup[w].of
  BY DEF OnboardingInv, SetupInv, RegisterInv, SaveRefusal, Connect
<1>1. /\ setup[w].step \in {"refused", "connect"} /\ Holds(w)
      /\ UNCHANGED <<account, phone, dispatched, nudges, leaseFaults>>
      /\ credential' \in 0..Signups /\ signup[o] \in SignupRow /\ AttemptsInv(o)
  BY <1>0, OnboardingAssumption
  DEF SaveRefusal, Connect, OnboardingInv, OnboardingTypeOK, SetupInv, Onboarding
<1>2. CASE Connect(w) /\ FailWith(w, "definite")
  <2>1. /\ signup' \in [Onboarding -> SignupRow] /\ setup' \in [OnboardWorker -> Setup]
        /\ \A x \in Onboarding : signup'[x].registration = signup[x].registration
        /\ setup'[w].step = "idle" /\ setup'[w].of = 0
        /\ \A v \in OnboardWorker : v # w => setup'[v] = setup[v]
        /\ \A x \in Onboarding : AttemptsInv(x)'
    BY <1>1, <1>2, WorkerFails
  <2>2. RegisterInv'
    BY <1>1, <2>1, RegisterKept DEF OnboardingInv, SetupInv
  <2>3. OnboardingTypeOK'
    BY <1>1, <2>1 DEF OnboardingInv, OnboardingTypeOK
  <2> QED  BY <2>1, <2>2, <2>3 DEF OnboardingInv, SetupInv
<1>3. ASSUME NEW p \in SignupRow, p.attempts = signup[o].attempts, p.chosen = signup[o].chosen,
             IF setup[w].step = "refused" THEN p.registration = "refused"
                                          ELSE p.registration = signup[o].registration,
             NEW st \in {"action_required", "connected"}, LeaveSetup(w),
             signup' = [signup EXCEPT ![o] = [p EXCEPT !.status = st, !.lease = Unleased,
                                                       !.fresh = FALSE, !.wakeable = FALSE]]
      PROVE  OnboardingInv'
  <2> DEFINE q == [p EXCEPT !.status = st, !.lease = Unleased, !.fresh = FALSE, !.wakeable = FALSE]
  <2>1. /\ q \in SignupRow /\ q.status = st /\ q.attempts = p.attempts
        /\ q.registration = p.registration /\ q.chosen = p.chosen
    BY <1>3 DEF SignupRow
  <2>2. signup' = [signup EXCEPT ![o] = q]
    BY <1>3
  <2> HIDE DEF q
  <2>3. /\ signup' \in [Onboarding -> SignupRow] /\ signup'[o] = q
        /\ \A x \in Onboarding : x # o => signup'[x] = signup[x]
    BY <2>1, <2>2, SignupWritten DEF OnboardingInv
  <2>4. /\ setup' \in [OnboardWorker -> Setup] /\ setup'[w].step = "idle" /\ setup'[w].of = 0
        /\ \A v \in OnboardWorker : v # w => setup'[v] = setup[v]
    <3>1. "idle" \in SetupSteps
      BY DEF SetupSteps
    <3>2. setup'[w].of = 0
      BY <1>3 DEF LeaveSetup, OnboardingInv, OnboardingTypeOK
    <3> QED  BY <1>3, <3>1, <3>2, SetupMoves DEF OnboardingInv
  <2>5. AttemptsInv(o)'
    BY <1>1, <1>3, <2>1, <2>3, AttemptsWritten DEF OnboardingInv
  <2>6. \A x \in Onboarding : AttemptsInv(x)'
    BY <1>0, <1>1, <2>3, <2>4, <2>5, OthersAttempts
  <2>7. RegisterInv'
    <3>1. CASE setup[w].step = "refused"
      <4>1. dispatched[o] # 1 /\ Registering(w) /\ dispatched[o] <= 1
        BY <1>0, <3>1 DEF OnboardingInv, SetupInv, RegisterInv, Registering
      <4>2. \A v \in OnboardWorker : v # w /\ Registering(v) => setup[v].of # o
        BY <1>0, <4>1 DEF OnboardingInv, SetupInv, RegisterInv
      <4>3. ~Registering(w)'
        BY <2>4 DEF Registering
      <4> QED  BY <1>0, <1>1, <2>3, <2>4, <4>1, <4>2, <4>3, RegisterMoves DEF OnboardingInv, SetupInv
    <3>2. CASE setup[w].step # "refused"
      <4>1. \A x \in Onboarding : signup'[x].registration = signup[x].registration
        BY <1>3, <2>1, <2>3, <3>2
      <4> QED  BY <1>1, <2>4, <4>1, RegisterKept DEF OnboardingInv, SetupInv
    <3> QED  BY <3>1, <3>2
  <2>8. OnboardingTypeOK'
    BY <1>1, <2>3, <2>4 DEF OnboardingInv, OnboardingTypeOK
  <2> QED  BY <2>6, <2>7, <2>8 DEF OnboardingInv, SetupInv
<1>4. CASE SaveRefusal(w)
  <2> DEFINE p == [signup[o] EXCEPT !.registration = "refused"]
  <2>1. /\ p \in SignupRow /\ p.attempts = signup[o].attempts /\ p.chosen = signup[o].chosen
        /\ p.registration = "refused"
    BY <1>1 DEF SignupRow
  <2>2. /\ setup[w].step = "refused" /\ LeaveSetup(w)
        /\ signup' = [signup EXCEPT ![o] = [p EXCEPT !.status = "action_required", !.lease = Unleased,
                                                     !.fresh = FALSE, !.wakeable = FALSE]]
    BY <1>0, <1>4 DEF SaveRefusal
  <2> HIDE DEF p
  <2> QED  BY <1>3, <2>1, <2>2
<1>5. CASE Connect(w) /\ ~FailWith(w, "definite")
  <2>1. /\ setup[w].step = "connect" /\ LeaveSetup(w)
        /\ signup' = [signup EXCEPT ![o] = [signup[o] EXCEPT !.status = "connected", !.lease = Unleased,
                                                             !.fresh = FALSE, !.wakeable = FALSE]]
    BY <1>0, <1>5 DEF Connect
  <2> QED  BY <1>1, <1>3, <2>1
<1> QED  BY <1>2, <1>4, <1>5

\* The onboardings' rows, leases, attempts and register requests agree, whatever crashes,
\* expires or is selected anew.
THEOREM OnboardingInvariance == OnboardingSpec => []OnboardingInv
<1>1. OnboardingInit => OnboardingInv
  <2> SUFFICES ASSUME OnboardingInit PROVE OnboardingInv
    OBVIOUS
  <2>1. OnboardingTypeOK
    BY OnboardingAssumption DEF OnboardingInit, OnboardingTypeOK, SignupRow, Setup
  <2>2. RegisterInv
    BY DEF OnboardingInit, RegisterInv, Registering
  <2>3. ASSUME NEW o \in Onboarding PROVE AttemptsInv(o)
    <3>1. /\ signup[o].attempts = 0 /\ ~signup[o].chosen
          /\ signup[o].status \notin {"pending", "processing"}
      BY DEF OnboardingInit
    <3> QED
      BY <2>1, <3>1, OnboardingAssumption DEF AttemptsInv, AttemptsLeft, OnboardingTypeOK
  <2> QED  BY <2>1, <2>2, <2>3 DEF OnboardingInv, SetupInv
<1>2. OnboardingInv /\ [OnboardingNext]_onboardingVars => OnboardingInv'
  <2> SUFFICES ASSUME OnboardingInv, [OnboardingNext]_onboardingVars PROVE OnboardingInv'
    OBVIOUS
  <2>1. ASSUME UNCHANGED <<signup, setup, dispatched, nudges, leaseFaults, account, credential>>,
               phone' \in {"unregistered", "registering", "connected"}
        PROVE  OnboardingInv'
    <3>1. \A o \in Onboarding : AttemptsInv(o)'
      BY <2>1, AttemptsKept DEF Tended, OnboardingInv, SetupInv
    <3>2. RegisterInv'
      BY <2>1, RegisterKept DEF OnboardingInv, SetupInv
    <3>3. OnboardingTypeOK'
      BY <2>1 DEF OnboardingInv, OnboardingTypeOK
    <3> QED  BY <3>1, <3>2, <3>3 DEF OnboardingInv, SetupInv
  <2>2. PhoneConnects \/ UNCHANGED onboardingVars => OnboardingInv'
    BY <2>1 DEF PhoneConnects, onboardingVars, OnboardingInv, OnboardingTypeOK
  <2> QED
    BY <2>2, OnboardRequest, OnboardRestart, OnboardEvent, OnboardExpiry, OnboardClaim, OnboardLeave,
       OnboardCrash, OnboardGoOn, OnboardRegister, OnboardDispatch, OnboardEnd
    DEF OnboardingNext, SetupStep
<1> QED  BY <1>1, <1>2, PTL DEF OnboardingSpec

\* An onboarding makes at most one register request that Meta did not definitely refuse.
THEOREM RegistersOnce == Spec => []RegisterOnce
<1>1. OnboardingInv => RegisterOnce
  BY DEF OnboardingInv, SetupInv, RegisterInv, RegisterOnce
<1> QED  BY <1>1, OnboardingInvariance, ServicesAreThemselves, PTL
-----------------------------------------------------------------------------
(***************************************************************************)
(* Contacts under a plan, and the import of a file of them.                *)
(***************************************************************************)
\* Whoever creates a contact holds the owner's row since there was room for one.
CreationInv ==
  /\ usage = Cardinality(planned) /\ Cardinality(planned) <= Limit
  /\ \A c \in Creator : creator[c].step = "create" =>
       ownerLock = c /\ Cardinality(planned) < Limit /\ creator[c].phone \in Phone
  /\ \A e \in Execution : execution[e].step = "create" => ownerLock = e /\ Cardinality(planned) < Limit

\* An execution past the rows before its own has each in the job's list or among its errors.
ProgressInv(e) ==
  LET x == execution[e] IN
  /\ x.step # "idle" => queued.starts >= 1
  /\ x.step \notin {"idle", "assess", "list"} =>
       /\ lists = 1 /\ x.list = 1 /\ x.row \in Row
       /\ \A p \in Row : p < x.row \/ x.step = "complete" => <<1, p>> \in member \/ p \in x.failed

\* The result counts and names a set of failed rows.
ResultOf(failed) ==
  importJob.failed = Cardinality(failed) /\ importJob.reported = FirstErrors(failed)

Accounted(failed) == \A p \in Row : <<1, p>> \in member \/ p \in failed

FileInv ==
  /\ lists = importJob.list /\ lists \in {0, 1}
  /\ importJob.status = "completed" =>
       lists = 1 /\ \E failed \in SUBSET Row : ResultOf(failed) /\ Accounted(failed)
  /\ \A e \in Execution : ProgressInv(e)

ImportInv == ImportTypeOK /\ CreationInv /\ FileInv

ImportSteps == {"idle", "assess", "list", "look", "count", "create", "join", "complete"}
ExecutionRow == [step : ImportSteps, row : 0..Rows, list : 0..MaxStarts, failed : SUBSET Row]

\* The sets of contacts are finite, and there are no more planned ones than contacts.
LEMMA ContactsCounted ==
  ASSUME ImportTypeOK
  PROVE  /\ IsFiniteSet(contacts) /\ IsFiniteSet(planned)
         /\ Cardinality(contacts) \in 0..Phones /\ Cardinality(planned) \in Nat
         /\ Cardinality(planned) <= Cardinality(contacts)
<1>1. IsFiniteSet(Phone) /\ Cardinality(Phone) = Phones
  BY ImportAssumption, FS_Interval DEF Phone
<1>2. IsFiniteSet(contacts) /\ Cardinality(contacts) <= Phones
  BY <1>1, FS_Subset DEF ImportTypeOK
<1>3. IsFiniteSet(planned) /\ Cardinality(planned) <= Cardinality(contacts)
  BY <1>2, FS_Subset DEF ImportTypeOK
<1> QED  BY <1>2, <1>3, FS_CardinalityType, ImportAssumption

\* Room for a contact, counted either way, is room for a planned one.
LEMMA RoomIsReal ==
  ASSUME ImportInv, Used < Limit
  PROVE  Cardinality(planned) < Limit
BY ContactsCounted, ImportAssumption DEF ImportInv, CreationInv, Used

\* A contact is inserted: the plan counts it unless the phone has one.
LEMMA Inserted ==
  ASSUME ImportInv, NEW p \in Phone, Insert(p), Cardinality(planned) < Limit
  PROVE  /\ contacts' \subseteq Phone /\ planned' \subseteq contacts' /\ usage' \in 0..Phones
         /\ usage' = Cardinality(planned)' /\ Cardinality(planned)' <= Limit
<1>0. /\ contacts \subseteq Phone /\ planned \subseteq contacts /\ usage = Cardinality(planned)
      /\ Limit \in Nat /\ Phones \in Nat
  BY ImportAssumption DEF ImportInv, ImportTypeOK, CreationInv
<1>1. contacts' \subseteq Phone /\ planned' \subseteq contacts'
  BY <1>0 DEF Insert
<1>2. usage' = Cardinality(planned)' /\ Cardinality(planned)' <= Limit
  <2>1. CASE p \in contacts
    BY <1>0, <2>1, ContactsCounted DEF Insert, ImportInv
  <2>2. CASE p \notin contacts
    <3>1. Cardinality(planned \union {p}) = Cardinality(planned) + 1
      BY <1>0, <2>2, ContactsCounted, FS_AddElement DEF ImportInv
    <3> QED  BY <1>0, <2>2, <3>1, ContactsCounted DEF Insert, ImportInv
  <2> QED  BY <2>1, <2>2
<1>3. usage' \in 0..Phones
  <2>1. planned' \subseteq Phone
    BY <1>1
  <2>2. IsFiniteSet(Phone) /\ Cardinality(Phone) = Phones
    BY <1>0, FS_Interval DEF Phone
  <2>3. Cardinality(planned') <= Phones /\ Cardinality(planned') \in Nat
    BY <2>1, <2>2, FS_Subset, FS_CardinalityType
  <2> QED  BY <1>0, <1>2, <2>3
<1> QED  BY <1>1, <1>2, <1>3

\* One execution changes, and the others stay.
LEMMA OneExecution ==
  ASSUME ImportTypeOK, NEW e \in Execution, NEW x \in ExecutionRow, On(e, x)
  PROVE  /\ execution' \in [Execution -> ExecutionRow] /\ execution'[e] = x
         /\ \A f \in Execution : f # e => execution'[f] = execution[f]
BY DEF On, ImportTypeOK, ExecutionRow, ImportSteps

LEMMA ImportRows ==
  ASSUME ImportTypeOK, NEW e \in Execution
  PROVE  /\ execution[e] \in ExecutionRow
         /\ \A step \in ImportSteps :
              LET x == [execution[e] EXCEPT !.step = step] IN
                /\ x \in ExecutionRow /\ x.step = step /\ x.row = execution[e].row
                /\ x.list = execution[e].list /\ x.failed = execution[e].failed
         /\ Unstarted \in ExecutionRow /\ Unstarted.step = "idle"
         /\ LET x == [Unstarted EXCEPT !.step = "assess"] IN x \in ExecutionRow /\ x.step = "assess"
<1> USE ImportAssumption
<1>1. execution[e] \in ExecutionRow
  BY DEF ImportTypeOK, ExecutionRow, ImportSteps
<1>2. Unstarted \in ExecutionRow /\ Unstarted.step = "idle"
  BY DEF Unstarted, ExecutionRow, ImportSteps
<1>3. [Unstarted EXCEPT !.step = "assess"] \in ExecutionRow /\ [Unstarted EXCEPT !.step = "assess"].step = "assess"
  BY DEF Unstarted, ExecutionRow, ImportSteps
<1>4. ASSUME NEW step \in ImportSteps
      PROVE  LET x == [execution[e] EXCEPT !.step = step] IN
               /\ x \in ExecutionRow /\ x.step = step /\ x.row = execution[e].row
               /\ x.list = execution[e].list /\ x.failed = execution[e].failed
  BY <1>1 DEF ExecutionRow
<1> QED  BY <1>1, <1>2, <1>3, <1>4

\* What the file's executions keep when none but e changes and the list's members stay.
LEMMA FileKept ==
  ASSUME FileInv, NEW e \in Execution, UNCHANGED lists,
         importJob'.list = importJob.list,
         importJob'.status = "completed" =>
           /\ importJob.status = "completed" /\ importJob'.failed = importJob.failed
           /\ importJob'.reported = importJob.reported,
         member \subseteq member', queued'.starts >= 1 \/ queued'.starts = queued.starts,
         \A f \in Execution : f # e => execution'[f] = execution[f],
         ProgressInv(e)'
  PROVE  FileInv'
<1>1. ASSUME NEW f \in Execution, f # e PROVE ProgressInv(f)'
  BY <1>1 DEF FileInv, ProgressInv
<1>2. \A failed \in SUBSET Row : Accounted(failed) => Accounted(failed)'
  BY DEF Accounted
<1>3. importJob'.status = "completed" =>
        \A failed \in SUBSET Row : ResultOf(failed) => ResultOf(failed)'
  BY DEF ResultOf
<1> QED  BY <1>1, <1>2, <1>3 DEF FileInv

\* A step that creates nothing and lets nobody begin to.
LEMMA CreationKept ==
  ASSUME CreationInv, UNCHANGED <<usage, planned>>,
         \A c \in Creator : creator'[c].step = "create" => creator'[c] = creator[c] /\ ownerLock' = ownerLock,
         \A e \in Execution : execution'[e].step = "create" =>
           execution[e].step = "create" /\ ownerLock' = ownerLock
  PROVE  CreationInv'
BY DEF CreationInv

\* The next row: this one is in the list or among the errors.
LEMMA RowDone ==
  ASSUME ImportInv, NEW e \in Execution, NEW failed \in SUBSET Row, NextRow(e, failed),
         execution[e].step \in {"count", "create", "join"},
         execution[e].failed \subseteq failed, member \subseteq member',
         <<1, execution[e].row>> \in member' \/ execution[e].row \in failed,
         UNCHANGED <<lists, queued>>
  PROVE  /\ execution' \in [Execution -> ExecutionRow] /\ execution'[e].step \in {"look", "complete"}
         /\ \A f \in Execution : f # e => execution'[f] = execution[f]
         /\ ProgressInv(e)'
<1> DEFINE st == IF execution[e].row < Rows THEN "look" ELSE "complete"
           n == IF execution[e].row < Rows THEN execution[e].row + 1 ELSE execution[e].row
           x == [execution[e] EXCEPT !.failed = failed, !.step = st, !.row = n]
<1>1. execution[e] \in ExecutionRow /\ Rows \in Nat \ {0} /\ execution[e].row \in Row
  BY ImportRows, ImportAssumption DEF ImportInv, FileInv, ProgressInv
<1>2. /\ queued.starts >= 1 /\ lists = 1 /\ execution[e].list = 1
      /\ \A p \in Row : p < execution[e].row => <<1, p>> \in member \/ p \in execution[e].failed
  BY DEF ImportInv, FileInv, ProgressInv
<1>3. On(e, x)
  BY DEF NextRow
<1>4. /\ x \in ExecutionRow /\ x.list = 1 /\ x.failed = failed
      /\ IF execution[e].row < Rows THEN x.step = "look" /\ x.row = execution[e].row + 1
                                    ELSE x.step = "complete" /\ x.row = execution[e].row
  <2>1. st \in ImportSteps /\ n \in 0..Rows
    BY <1>1 DEF ImportSteps, Row
  <2>2. x \in ExecutionRow /\ x.list = execution[e].list /\ x.failed = failed /\ x.step = st /\ x.row = n
    <3> HIDE DEF st, n
    <3> QED  BY <1>1, <2>1 DEF ExecutionRow
  <2> QED  BY <1>2, <2>2
<1> HIDE DEF x
<1>5. /\ execution' \in [Execution -> ExecutionRow] /\ execution'[e] = x
      /\ \A f \in Execution : f # e => execution'[f] = execution[f]
  BY <1>3, <1>4, OneExecution DEF ImportInv
<1>6. x.row \in Row
  BY <1>1, <1>4 DEF Row
<1>7. ASSUME NEW p \in Row, p < x.row \/ x.step = "complete"
      PROVE  <<1, p>> \in member' \/ p \in x.failed
  <2>1. p <= execution[e].row
    BY <1>1, <1>4, <1>7 DEF Row
  <2>2. CASE p = execution[e].row  BY <1>4, <2>2
  <2>3. CASE p < execution[e].row  BY <1>2, <1>4, <2>3
  <2> QED  BY <1>1, <2>1, <2>2, <2>3 DEF Row
<1>8. ProgressInv(e)'
  BY <1>2, <1>4, <1>5, <1>6, <1>7 DEF ProgressInv
<1> QED  BY <1>4, <1>5, <1>8

\* Nobody creates a contact while the owner's row is free, and its holder is alone.
LEMMA OneCreates ==
  ASSUME ImportInv
  PROVE  /\ \A c \in Creator : creator[c].step = "create" => ownerLock = c
         /\ \A e \in Execution : execution[e].step = "create" => ownerLock = e
         /\ \A c \in Creator, e \in Execution : c # e /\ c # NoHolder /\ e # NoHolder
BY ImportAssumption DEF ImportInv, CreationInv

LEMMA CreatorSteps ==
  ASSUME ImportInv,
         \/ \E c \in Creator : EndCreate(c) \/ \E p \in Phone : StartCreate(c, p)
         \/ \E p \in Phone : CreateIncoming(p)
  PROVE  ImportInv'
<1> DEFINE CreatorRow == [step : {"idle", "create", "done"}, phone : 0..Phones]
<1>0. /\ creator \in [Creator -> CreatorRow] /\ contacts \subseteq Phone /\ planned \subseteq contacts
      /\ [step |-> "done", phone |-> 0] \in CreatorRow
      /\ \A p \in Phone : [step |-> "create", phone |-> p] \in CreatorRow
  BY ImportAssumption DEF ImportInv, ImportTypeOK, Phone
<1>1. FileInv'
  <2>1. UNCHANGED <<importJob, lists, member, execution, queued>>
    BY DEF EndCreate, StartCreate, CreateIncoming
  <2> QED  BY <2>1 DEF ImportInv, FileInv, ProgressInv, ResultOf, Accounted
<1>2. ASSUME NEW c \in Creator, NEW p \in Phone, StartCreate(c, p) PROVE ImportTypeOK' /\ CreationInv'
  <2>1. OwnerFree /\ UNCHANGED <<usage, planned, execution>>
    BY <1>2 DEF StartCreate
  <2>2. CASE Used < Limit
    <3>1. ownerLock' = c /\ creator' = [creator EXCEPT ![c] = [step |-> "create", phone |-> p]]
      BY <1>2, <2>2 DEF StartCreate
    <3>2. /\ creator' \in [Creator -> CreatorRow]
          /\ creator'[c].phone = p /\ \A d \in Creator : d # c => creator'[d] = creator[d]
      BY <1>0, <3>1
    <3>3. ImportTypeOK'
      BY <1>2, <3>1, <3>2 DEF StartCreate, ImportInv, ImportTypeOK
    <3>4. CreationInv'
      <4>1. /\ \A d \in Creator : d # c => creator[d].step # "create"
            /\ \A e \in Execution : execution[e].step # "create"
        BY <2>1, OneCreates, ImportAssumption DEF OwnerFree
      <4>2. Cardinality(planned) < Limit /\ usage = Cardinality(planned) /\ Cardinality(planned) <= Limit
        BY <2>2, RoomIsReal DEF ImportInv, CreationInv
      <4> QED  BY <2>1, <3>1, <3>2, <4>1, <4>2 DEF CreationInv
    <3> QED  BY <3>3, <3>4
  <2>3. CASE ~(Used < Limit)
    <3>1. ownerLock' = ownerLock /\ creator' = [creator EXCEPT ![c] = [step |-> "done", phone |-> 0]]
      BY <1>2, <2>3 DEF StartCreate
    <3>2. /\ creator' \in [Creator -> CreatorRow]
          /\ creator'[c].step = "done" /\ \A d \in Creator : d # c => creator'[d] = creator[d]
      BY <1>0, <3>1
    <3>3. ImportTypeOK'
      BY <1>2, <3>1, <3>2 DEF StartCreate, ImportInv, ImportTypeOK
    <3>4. CreationInv'
      BY <2>1, <3>1, <3>2, CreationKept DEF ImportInv
    <3> QED  BY <3>3, <3>4
  <2> QED  BY <2>2, <2>3
<1>3. ASSUME NEW c \in Creator, EndCreate(c) PROVE ImportTypeOK' /\ CreationInv'
  <2>1. /\ creator[c].phone \in Phone /\ Insert(creator[c].phone) /\ Cardinality(planned) < Limit
        /\ ownerLock = c /\ ownerLock' = NoHolder /\ execution' = execution
        /\ creator' = [creator EXCEPT ![c] = [step |-> "done", phone |-> 0]]
    BY <1>3 DEF EndCreate, ImportInv, CreationInv
  <2>2. /\ creator' \in [Creator -> CreatorRow]
        /\ creator'[c].step = "done" /\ \A d \in Creator : d # c => creator'[d] = creator[d]
    BY <1>0, <2>1
  <2>3. /\ contacts' \subseteq Phone /\ planned' \subseteq contacts' /\ usage' \in 0..Phones
        /\ usage' = Cardinality(planned)' /\ Cardinality(planned)' <= Limit
    BY <2>1, Inserted
  <2>4. CreationInv'
    BY <2>1, <2>2, <2>3, OneCreates DEF CreationInv
  <2> QED  BY <1>3, <2>1, <2>2, <2>3, <2>4 DEF EndCreate, ImportInv, ImportTypeOK
<1>4. ASSUME NEW p \in Phone, CreateIncoming(p) PROVE ImportTypeOK' /\ CreationInv'
  <2>1. contacts' = contacts \union {p} /\ UNCHANGED <<usage, planned, ownerLock, creator, execution>>
    BY <1>4 DEF CreateIncoming
  <2>2. CreationInv'
    BY <2>1 DEF ImportInv, CreationInv
  <2> QED  BY <1>0, <1>4, <2>1, <2>2 DEF CreateIncoming, ImportInv, ImportTypeOK
<1> QED  BY <1>1, <1>2, <1>3, <1>4 DEF ImportInv

\* An execution creates a contact, and goes on or reports the row.
LEMMA ExecutionCreates ==
  ASSUME ImportInv, NEW e \in Execution, CreateContact(e)
  PROVE  ImportInv'
<1> DEFINE p == execution[e].row
<1>1. /\ execution[e].step = "create" /\ Insert(p) /\ ownerLock' = NoHolder
      /\ UNCHANGED <<entitlement, creator, importJob, lists, member, queued, importFaults>>
  BY DEF CreateContact, At
<1>2. /\ p \in Row /\ p \in Phone /\ ownerLock = e /\ Cardinality(planned) < Limit
      /\ execution[e] \in ExecutionRow
  BY <1>1, ImportAssumption, ImportRows DEF ImportInv, FileInv, ProgressInv, CreationInv, Row, Phone
<1>3. /\ contacts' \subseteq Phone /\ planned' \subseteq contacts' /\ usage' \in 0..Phones
      /\ usage' = Cardinality(planned)' /\ Cardinality(planned)' <= Limit
  BY <1>1, <1>2, Inserted
<1>4. /\ execution' \in [Execution -> ExecutionRow] /\ execution'[e].step # "create"
      /\ \A f \in Execution : f # e => execution'[f] = execution[f]
      /\ ProgressInv(e)'
  <2>1. CASE p \in contacts
    <3> DEFINE failed == execution[e].failed \union {p}
    <3>1. /\ failed \in SUBSET Row /\ execution[e].failed \subseteq failed /\ execution[e].row \in failed
          /\ NextRow(e, failed)
      BY <1>2, <2>1 DEF CreateContact, FailedToo, ExecutionRow
    <3> HIDE DEF failed
    <3> QED  BY <1>1, <3>1, RowDone
  <2>2. CASE p \notin contacts
    <3> DEFINE x == [execution[e] EXCEPT !.step = "join"]
    <3>1. On(e, x)
      BY <2>2 DEF CreateContact
    <3>2. /\ x \in ExecutionRow /\ x.step = "join" /\ x.row = execution[e].row
          /\ x.list = execution[e].list /\ x.failed = execution[e].failed
      BY ImportRows DEF ImportInv, ImportSteps
    <3> HIDE DEF x
    <3>3. /\ execution' \in [Execution -> ExecutionRow] /\ execution'[e] = x
          /\ \A f \in Execution : f # e => execution'[f] = execution[f]
      BY <3>1, <3>2, OneExecution DEF ImportInv
    <3> QED  BY <1>1, <3>2, <3>3 DEF ImportInv, FileInv, ProgressInv
  <2> QED  BY <2>1, <2>2
<1>5. CreationInv'
  BY <1>1, <1>2, <1>3, <1>4, OneCreates DEF CreationInv
<1>6. FileInv'
  BY <1>1, <1>4, FileKept DEF ImportInv
<1>7. ImportTypeOK'
  <2>1. ownerLock' \in Execution \union Creator \union {NoHolder}
    BY <1>1
  <2> QED  BY <1>1, <1>3, <1>4, <2>1 DEF ImportInv, ImportTypeOK, ExecutionRow, ImportSteps
<1> QED  BY <1>5, <1>6, <1>7 DEF ImportInv

\* An execution goes on to a step, keeping its place in the file.
LEMMA GoesTo ==
  ASSUME ImportInv, NEW e \in Execution, NEW step \in ImportSteps,
         On(e, [execution[e] EXCEPT !.step = step])
  PROVE  /\ execution' \in [Execution -> ExecutionRow] /\ execution'[e].step = step
         /\ execution'[e].row = execution[e].row /\ execution'[e].list = execution[e].list
         /\ execution'[e].failed = execution[e].failed
         /\ \A f \in Execution : f # e => execution'[f] = execution[f]
<1> DEFINE x == [execution[e] EXCEPT !.step = step]
<1>1. /\ x \in ExecutionRow /\ x.step = step /\ x.row = execution[e].row
      /\ x.list = execution[e].list /\ x.failed = execution[e].failed
  BY ImportRows DEF ImportInv
<1>2. On(e, x)
  OBVIOUS
<1> HIDE DEF x
<1> QED  BY <1>1, <1>2, OneExecution DEF ImportInv

LEMMA ExecutionReads ==
  ASSUME ImportInv, NEW e \in Execution, LookUp(e) \/ CountUsage(e)
  PROVE  ImportInv'
<1>1. /\ execution[e].step \in {"look", "count"}
      /\ UNCHANGED <<entitlement, usage, contacts, planned, creator, importJob, lists, member, queued,
                     importFaults>>
      /\ execution[e] \in ExecutionRow /\ execution[e].row \in Row
  BY ImportRows DEF LookUp, CountUsage, At, ImportInv, FileInv, ProgressInv
<1>2. \/ /\ ownerLock' = ownerLock
         /\ \/ \E step \in {"join", "count"} : On(e, [execution[e] EXCEPT !.step = step])
            \/ execution[e].step = "count" /\ NextRow(e, FailedToo(e))
      \/ /\ ownerLock' = e /\ OwnerFree /\ Used < Limit /\ execution[e].step = "count"
         /\ On(e, [execution[e] EXCEPT !.step = "create"])
  BY DEF LookUp, CountUsage, At
<1>3. /\ execution' \in [Execution -> ExecutionRow] /\ ProgressInv(e)'
      /\ \A f \in Execution : f # e => execution'[f] = execution[f]
      /\ execution'[e].step = "create" => ownerLock' = e /\ OwnerFree /\ Used < Limit
      /\ execution'[e].step # "create" => ownerLock' = ownerLock
      /\ ownerLock' \in Execution \union Creator \union {NoHolder}
  <2>0. ownerLock \in Execution \union Creator \union {NoHolder}
    BY DEF ImportInv, ImportTypeOK
  <2>1. ASSUME NEW step \in {"join", "count", "create"}, On(e, [execution[e] EXCEPT !.step = step])
        PROVE  /\ execution' \in [Execution -> ExecutionRow] /\ ProgressInv(e)'
               /\ \A f \in Execution : f # e => execution'[f] = execution[f]
               /\ execution'[e].step = step
    <3>1. step \in ImportSteps
      BY DEF ImportSteps
    <3> QED  BY <1>1, <2>1, <3>1, GoesTo DEF ImportInv, FileInv, ProgressInv
  <2>2. ASSUME execution[e].step = "count", NextRow(e, FailedToo(e))
        PROVE  /\ execution' \in [Execution -> ExecutionRow] /\ ProgressInv(e)'
               /\ \A f \in Execution : f # e => execution'[f] = execution[f]
               /\ execution'[e].step \in {"look", "complete"}
    <3> DEFINE failed == FailedToo(e)
    <3>1. failed \in SUBSET Row /\ execution[e].failed \subseteq failed /\ execution[e].row \in failed
      BY <1>1 DEF FailedToo, ExecutionRow
    <3> HIDE DEF failed
    <3>2. NextRow(e, failed)
      BY <2>2 DEF failed
    <3> QED  BY <1>1, <2>2, <3>1, <3>2, RowDone
  <2> QED  BY <1>2, <2>0, <2>1, <2>2
<1>4. CreationInv'
  <2>1. CASE execution'[e].step = "create"
    <3>1. /\ \A c \in Creator : creator[c].step # "create"
          /\ \A f \in Execution : execution[f].step # "create"
      BY <1>3, <2>1, OneCreates, ImportAssumption DEF OwnerFree
    <3>2. Cardinality(planned) < Limit /\ usage = Cardinality(planned) /\ Cardinality(planned) <= Limit
      BY <1>3, <2>1, RoomIsReal DEF ImportInv, CreationInv
    <3> QED  BY <1>1, <1>3, <3>1, <3>2 DEF CreationInv
  <2>2. CASE execution'[e].step # "create"
    BY <1>1, <1>3, <2>2, CreationKept DEF ImportInv
  <2> QED  BY <2>1, <2>2
<1>5. FileInv'
  BY <1>1, <1>3, FileKept DEF ImportInv
<1>6. ImportTypeOK'
  BY <1>1, <1>3 DEF ImportInv, ImportTypeOK, ExecutionRow, ImportSteps
<1> QED  BY <1>4, <1>5, <1>6 DEF ImportInv

LEMMA ExecutionJoins ==
  ASSUME ImportInv, NEW e \in Execution, AddToList(e)
  PROVE  ImportInv'
<1>1. /\ execution[e].step = "join" /\ execution[e] \in ExecutionRow
      /\ UNCHANGED <<entitlement, usage, contacts, planned, ownerLock, creator, importJob, lists, queued,
                     importFaults>>
  BY ImportRows DEF AddToList, At, ImportInv
<1>2. execution[e].row \in Row /\ execution[e].list = 1 /\ 1 \in 1..MaxStarts
  BY <1>1, ImportAssumption DEF ImportInv, FileInv, ProgressInv, ImportTypeOK
<1> DEFINE row == <<execution[e].list, execution[e].row>>
<1>3. \/ member' = member \union {row} /\ NextRow(e, execution[e].failed)
      \/ member' = member /\ NextRow(e, FailedToo(e))
  BY DEF AddToList
<1>4. member \subseteq member' /\ member' \subseteq (1..MaxStarts) \X Row
  BY <1>2, <1>3 DEF ImportInv, ImportTypeOK
<1>5. PICK failed \in SUBSET Row :
        /\ NextRow(e, failed) /\ execution[e].failed \subseteq failed
        /\ <<1, execution[e].row>> \in member' \/ execution[e].row \in failed
  BY <1>1, <1>2, <1>3 DEF FailedToo, ExecutionRow
<1>6. /\ execution' \in [Execution -> ExecutionRow] /\ execution'[e].step \in {"look", "complete"}
      /\ \A f \in Execution : f # e => execution'[f] = execution[f]
      /\ ProgressInv(e)'
  BY <1>1, <1>4, <1>5, RowDone
<1>7. CreationInv'
  BY <1>1, <1>6, CreationKept DEF ImportInv
<1>8. FileInv'
  BY <1>1, <1>4, <1>6, FileKept DEF ImportInv
<1>9. ImportTypeOK'
  BY <1>1, <1>4, <1>6 DEF ImportInv, ImportTypeOK, ExecutionRow, ImportSteps
<1> QED  BY <1>7, <1>8, <1>9 DEF ImportInv

\* The first execution makes the job's list; a later one finds it in the job's row.
LEMMA ExecutionLists ==
  ASSUME ImportInv, NEW e \in Execution, GetOrCreateList(e)
  PROVE  ImportInv'
<1>1. /\ execution[e].step = "list" /\ execution[e] \in ExecutionRow /\ queued.starts >= 1
      /\ UNCHANGED <<entitlement, usage, contacts, planned, ownerLock, creator, member, queued, importFaults>>
      /\ MaxStarts \in Nat /\ queued.starts \in 0..MaxStarts
  BY ImportRows, ImportAssumption DEF GetOrCreateList, At, ImportInv, FileInv, ProgressInv, ImportTypeOK
<1>2. lists' = 1 /\ importJob' = [importJob EXCEPT !.list = 1]
  BY DEF GetOrCreateList, HasList, ImportInv, FileInv
<1>3. /\ importJob'.list = 1 /\ importJob'.status = importJob.status
      /\ importJob'.failed = importJob.failed /\ importJob'.reported = importJob.reported
      /\ importJob' \in [status : {"pending", "processing", "completed", "failed"},
                         list : 0..MaxStarts, failed : 0..Rows, reported : SUBSET Row]
  <2>1. 1 \in 0..MaxStarts
    BY <1>1
  <2> QED  BY <1>2, <2>1 DEF ImportInv, ImportTypeOK
<1> DEFINE x == [execution[e] EXCEPT !.step = "look", !.list = 1, !.row = 1]
<1>4. On(e, x)
  <2> DEFINE list == IF HasList THEN importJob.list ELSE lists + 1
  <2>1. list = 1
    BY DEF HasList, ImportInv, FileInv
  <2>2. On(e, [execution[e] EXCEPT !.step = "look", !.list = list, !.row = 1])
    BY DEF GetOrCreateList
  <2> HIDE DEF list
  <2> QED  BY <2>1, <2>2
<1>5. x \in ExecutionRow /\ x.step = "look" /\ x.list = 1 /\ x.row = 1
  <2>1. 1 \in 0..MaxStarts /\ 1 \in 0..Rows /\ "look" \in ImportSteps
    BY <1>1, ImportAssumption DEF ImportSteps
  <2> QED  BY <1>1, <2>1 DEF ExecutionRow
<1> HIDE DEF x
<1>6. /\ execution' \in [Execution -> ExecutionRow] /\ execution'[e] = x
      /\ \A f \in Execution : f # e => execution'[f] = execution[f]
  BY <1>4, <1>5, OneExecution DEF ImportInv
<1>7. CreationInv'
  BY <1>1, <1>5, <1>6, CreationKept DEF ImportInv
<1>8. ASSUME NEW f \in Execution PROVE ProgressInv(f)'
  <2>1. CASE f = e
    <3>1. x.row \in Row /\ \A p \in Row : ~(p < x.row)
      BY <1>5, ImportAssumption DEF Row
    <3> QED  BY <1>1, <1>2, <1>5, <1>6, <2>1, <3>1 DEF ProgressInv
  <2>2. CASE f # e
    BY <1>1, <1>2, <1>6, <2>2 DEF ImportInv, FileInv, ProgressInv
  <2> QED  BY <2>1, <2>2
<1>9. FileInv'
  BY <1>1, <1>2, <1>3, <1>8 DEF ImportInv, FileInv, ResultOf, Accounted
<1>10. ImportTypeOK'
  <2>1. lists' \in 0..MaxStarts
    BY <1>1, <1>2
  <2> QED  BY <1>1, <1>3, <1>6, <2>1 DEF ImportInv, ImportTypeOK, ExecutionRow, ImportSteps
<1> QED  BY <1>7, <1>9, <1>10 DEF ImportInv

\* The executions that begin, assess the file, give up, complete or break.
LEMMA ExecutionEnds ==
  ASSUME ImportInv, NEW e \in Execution,
         UNCHANGED <<entitlement, usage, contacts, planned, creator, lists, member>>,
         importFaults' \in 0..MaxImportFaults,
         ownerLock' = ownerLock \/ (ownerLock = e /\ ownerLock' = NoHolder),
         NEW x \in ExecutionRow, On(e, x), x.step \in {"idle", "assess", "list"},
         importJob' \in [status : {"pending", "processing", "completed", "failed"},
                         list : 0..MaxStarts, failed : 0..Rows, reported : SUBSET Row],
         queued' \in [state : {"waiting", "active", "over"}, by : Execution \union {NoHolder},
                      starts : 0..MaxStarts],
         importJob'.list = importJob.list,
         importJob'.status = "completed" =>
           \/ /\ importJob.status = "completed" /\ importJob'.failed = importJob.failed
              /\ importJob'.reported = importJob.reported
           \/ /\ execution[e].step = "complete"
              /\ importJob'.failed = Cardinality(execution[e].failed)
              /\ importJob'.reported = FirstErrors(execution[e].failed),
         queued'.starts >= queued.starts,
         x.step # "idle" => queued'.starts >= 1
  PROVE  ImportInv'
<1>1. /\ execution' \in [Execution -> ExecutionRow] /\ execution'[e] = x
      /\ \A f \in Execution : f # e => execution'[f] = execution[f]
  BY OneExecution DEF ImportInv
<1>2. CreationInv'
  <2>1. \A c \in Creator : creator[c].step = "create" => ownerLock' = ownerLock
    BY OneCreates
  <2>2. \A f \in Execution : f # e /\ execution[f].step = "create" => ownerLock' = ownerLock
    BY OneCreates
  <2> QED  BY <1>1, <2>1, <2>2, CreationKept DEF ImportInv
<1>3. queued.starts \in Nat /\ queued'.starts \in Nat
  BY ImportAssumption DEF ImportInv, ImportTypeOK
<1>4. ASSUME NEW f \in Execution PROVE ProgressInv(f)'
  BY <1>1, <1>3 DEF ImportInv, FileInv, ProgressInv
<1>5. importJob'.status = "completed" =>
        lists = 1 /\ \E failed \in SUBSET Row : (ResultOf(failed) /\ Accounted(failed))'
  <2>1. ASSUME importJob.status = "completed", importJob'.failed = importJob.failed,
               importJob'.reported = importJob.reported
        PROVE  lists = 1 /\ \E failed \in SUBSET Row : (ResultOf(failed) /\ Accounted(failed))'
    BY <2>1 DEF ImportInv, FileInv, ResultOf, Accounted
  <2>2. ASSUME execution[e].step = "complete",
               importJob'.failed = Cardinality(execution[e].failed),
               importJob'.reported = FirstErrors(execution[e].failed)
        PROVE  lists = 1 /\ \E failed \in SUBSET Row : (ResultOf(failed) /\ Accounted(failed))'
    <3>1. PICK failed \in SUBSET Row : failed = execution[e].failed
      BY ImportRows DEF ImportInv, ExecutionRow
    <3>2. lists = 1 /\ \A p \in Row : <<1, p>> \in member \/ p \in failed
      BY <2>2, <3>1 DEF ImportInv, FileInv, ProgressInv
    <3>3. importJob'.failed = Cardinality(failed) /\ importJob'.reported = FirstErrors(failed)
      BY <2>2, <3>1
    <3> QED  BY <3>2, <3>3 DEF ResultOf, Accounted
  <2> QED  BY <2>1, <2>2
<1>6. FileInv'
  BY <1>4, <1>5 DEF ImportInv, FileInv
<1>7. ImportTypeOK'
  BY <1>1 DEF ImportInv, ImportTypeOK, ExecutionRow, ImportSteps
<1> QED  BY <1>2, <1>6, <1>7 DEF ImportInv

\* A set of rows is finite, counted by at most their number, and all of it comes first
\* when there is room for its errors.
LEMMA FailedRows ==
  ASSUME NEW failed \in SUBSET Row
  PROVE  /\ IsFiniteSet(failed) /\ Cardinality(failed) \in 0..Rows
         /\ \A part \in SUBSET failed : Cardinality(part) <= Cardinality(failed)
         /\ Cardinality(failed) <= MaxErrors => FirstErrors(failed) = failed
<1>1. IsFiniteSet(Row) /\ Cardinality(Row) = Rows
  BY ImportAssumption, FS_Interval DEF Row
<1>2. IsFiniteSet(failed) /\ Cardinality(failed) <= Rows /\ Cardinality(failed) \in Nat
  BY <1>1, FS_Subset, FS_CardinalityType
<1>3. \A part \in SUBSET failed :
        Cardinality(part) \in Nat /\ Cardinality(part) <= Cardinality(failed)
  BY <1>2, FS_Subset, FS_CardinalityType
<1>4. ASSUME Cardinality(failed) <= MaxErrors, NEW p \in failed
      PROVE  Cardinality({q \in failed : q < p}) < MaxErrors
  <2> DEFINE before == {q \in failed : q < p}
  <2>1. before \in SUBSET failed /\ before # failed
    BY <1>4 DEF Row
  <2>2. Cardinality(before) < Cardinality(failed) /\ Cardinality(before) \in Nat
    <3> HIDE DEF before
    <3> QED  BY <1>2, <1>3, <2>1, FS_Subset
  <2>3. MaxErrors \in Nat
    BY ImportAssumption
  <2> HIDE DEF before
  <2>4. Cardinality(before) < MaxErrors
    BY <1>2, <1>4, <2>2, <2>3
  <2> QED  BY <2>4 DEF before
<1>5. Cardinality(failed) <= MaxErrors => FirstErrors(failed) = failed
  BY <1>4 DEF FirstErrors
<1> QED  BY <1>2, <1>3, <1>5, ImportAssumption

LEMMA JobRows ==
  ASSUME ImportTypeOK
  PROVE  /\ \A st \in {"processing", "failed"} : LET j == [importJob EXCEPT !.status = st] IN
              /\ j \in [status : {"pending", "processing", "completed", "failed"},
                        list : 0..MaxStarts, failed : 0..Rows, reported : SUBSET Row]
              /\ j.list = importJob.list /\ j.status # "completed"
         /\ \A n \in 0..Rows, failed \in SUBSET Row :
              LET j == [importJob EXCEPT !.status = "completed", !.failed = n, !.reported = failed] IN
                /\ j \in [status : {"pending", "processing", "completed", "failed"},
                          list : 0..MaxStarts, failed : 0..Rows, reported : SUBSET Row]
                /\ j.list = importJob.list /\ j.failed = n /\ j.reported = failed
BY DEF ImportTypeOK

LEMMA QueueRows ==
  ASSUME ImportTypeOK
  PROVE  /\ queued.starts \in Nat
         /\ \A st \in {"waiting", "over"} :
              LET q == [queued EXCEPT !.state = st, !.by = NoHolder]
                  r == [queued EXCEPT !.state = st] IN
                /\ q \in [state : {"waiting", "active", "over"}, by : Execution \union {NoHolder},
                          starts : 0..MaxStarts] /\ q.starts = queued.starts
                /\ r \in [state : {"waiting", "active", "over"}, by : Execution \union {NoHolder},
                          starts : 0..MaxStarts] /\ r.starts = queued.starts
<1>1. queued \in [state : {"waiting", "active", "over"}, by : Execution \union {NoHolder},
                  starts : 0..MaxStarts] /\ queued.starts \in Nat
  BY ImportAssumption DEF ImportTypeOK
<1> QED  BY <1>1

LEMMA ExecutionBegins ==
  ASSUME ImportInv, NEW e \in Execution, Begin(e)
  PROVE  ImportInv'
<1>1. /\ execution[e].step = "idle" /\ queued.state = "waiting" /\ queued.starts < MaxStarts
      /\ UNCHANGED <<entitlement, usage, contacts, planned, ownerLock, creator, lists, member, importFaults>>
      /\ importFaults \in 0..MaxImportFaults /\ execution[e] \in ExecutionRow
  BY ImportRows DEF Begin, At, ImportInv, ImportTypeOK
<1>2. CASE importJob.status = "completed"
  <2>1. queued' = [queued EXCEPT !.state = "over"] /\ UNCHANGED <<importJob, execution>>
    BY <1>2 DEF Begin
  <2>2. /\ queued' \in [state : {"waiting", "active", "over"}, by : Execution \union {NoHolder},
                        starts : 0..MaxStarts] /\ queued'.starts = queued.starts
    BY <2>1, QueueRows DEF ImportInv
  <2>3. CreationInv' /\ FileInv'
    BY <1>1, <2>1, <2>2 DEF ImportInv, CreationInv, FileInv, ProgressInv, ResultOf, Accounted
  <2> QED  BY <1>1, <2>1, <2>2, <2>3 DEF ImportInv, ImportTypeOK
<1>3. CASE importJob.status # "completed"
  <2>1. /\ queued' = [state |-> "active", by |-> e, starts |-> queued.starts + 1]
        /\ importJob' = [importJob EXCEPT !.status = "processing"]
        /\ On(e, [Unstarted EXCEPT !.step = "assess"])
    BY <1>3 DEF Begin
  <2>2. queued.starts + 1 \in 0..MaxStarts /\ queued.starts \in Nat
    BY <1>1, ImportAssumption DEF ImportInv, ImportTypeOK
  <2>3. /\ queued' \in [state : {"waiting", "active", "over"}, by : Execution \union {NoHolder},
                        starts : 0..MaxStarts] /\ queued'.starts = queued.starts + 1
    BY <2>1, <2>2
  <2>4. /\ importJob' \in [status : {"pending", "processing", "completed", "failed"},
                           list : 0..MaxStarts, failed : 0..Rows, reported : SUBSET Row]
        /\ importJob'.list = importJob.list /\ importJob'.status # "completed"
    BY <2>1, JobRows DEF ImportInv
  <2> DEFINE x == [Unstarted EXCEPT !.step = "assess"]
  <2>5. x \in ExecutionRow /\ x.step = "assess" /\ On(e, x)
    BY <2>1, ImportRows DEF ImportInv
  <2> HIDE DEF x
  <2> QED  BY <1>1, <2>2, <2>3, <2>4, <2>5, ExecutionEnds
<1> QED  BY <1>2, <1>3

LEMMA ExecutionLeaves ==
  ASSUME ImportInv, NEW e \in Execution, Assess(e) \/ Complete(e) \/ Break(e)
  PROVE  ImportInv'
<1>1. /\ execution[e].step # "idle" /\ execution[e] \in ExecutionRow /\ queued.starts >= 1
      /\ UNCHANGED <<entitlement, usage, contacts, planned, creator, lists, member>>
      /\ importFaults' \in 0..MaxImportFaults
      /\ ownerLock' = ownerLock \/ (ownerLock = e /\ ownerLock' = NoHolder)
  <2>1. importFaults' \in 0..MaxImportFaults
    BY ImportAssumption DEF Assess, Complete, Break, Fault, ImportInv, ImportTypeOK
  <2>2. execution[e].step # "idle"
    BY DEF Assess, Complete, Break, At
  <2> QED
    BY <2>1, <2>2, ImportRows DEF Assess, Complete, Break, ImportInv, FileInv, ProgressInv
<1>2. \/ queued' = queued
      \/ \E st \in {"waiting", "over"} : queued' = [queued EXCEPT !.state = st, !.by = NoHolder]
  BY DEF Assess, Complete, Break, GiveUp, Released, RetryState
<1>3. /\ queued' \in [state : {"waiting", "active", "over"}, by : Execution \union {NoHolder},
                      starts : 0..MaxStarts]
      /\ queued'.starts = queued.starts /\ queued.starts \in Nat
  BY <1>2, QueueRows DEF ImportInv, ImportTypeOK
<1>4. \/ importJob' = importJob
      \/ importJob' = [importJob EXCEPT !.status = "failed"]
      \/ /\ execution[e].step = "complete"
         /\ importJob' = [importJob EXCEPT !.status = "completed",
                                          !.failed = Cardinality(execution[e].failed),
                                          !.reported = FirstErrors(execution[e].failed)]
  BY DEF Assess, Complete, Break, GiveUp, At
<1>5. /\ importJob' \in [status : {"pending", "processing", "completed", "failed"},
                         list : 0..MaxStarts, failed : 0..Rows, reported : SUBSET Row]
      /\ importJob'.list = importJob.list
      /\ importJob'.status = "completed" =>
           \/ /\ importJob.status = "completed" /\ importJob'.failed = importJob.failed
              /\ importJob'.reported = importJob.reported
           \/ /\ execution[e].step = "complete"
              /\ importJob'.failed = Cardinality(execution[e].failed)
              /\ importJob'.reported = FirstErrors(execution[e].failed)
  <2>1. PICK n \in 0..Rows, kept \in SUBSET Row :
          n = Cardinality(execution[e].failed) /\ kept = FirstErrors(execution[e].failed)
    <3>1. execution[e].failed \in SUBSET Row
      BY <1>1 DEF ExecutionRow
    <3>2. FirstErrors(execution[e].failed) \in SUBSET Row
      BY <3>1 DEF FirstErrors
    <3> QED  BY <3>1, <3>2, FailedRows
  <2>2. CASE importJob' = importJob
    BY <2>2 DEF ImportInv, ImportTypeOK
  <2>3. CASE importJob' = [importJob EXCEPT !.status = "failed"]
    BY <2>3, JobRows DEF ImportInv
  <2>4. CASE /\ execution[e].step = "complete"
             /\ importJob' = [importJob EXCEPT !.status = "completed",
                                              !.failed = Cardinality(execution[e].failed),
                                              !.reported = FirstErrors(execution[e].failed)]
    <3>1. importJob' = [importJob EXCEPT !.status = "completed", !.failed = n, !.reported = kept]
      BY <2>1, <2>4, Zenon
    <3> DEFINE j == [importJob EXCEPT !.status = "completed", !.failed = n, !.reported = kept]
    <3>2. /\ j \in [status : {"pending", "processing", "completed", "failed"},
                    list : 0..MaxStarts, failed : 0..Rows, reported : SUBSET Row]
          /\ j.list = importJob.list /\ j.failed = n /\ j.reported = kept
      BY <2>1, JobRows DEF ImportInv
    <3>3. importJob' = j
      BY <3>1
    <3> HIDE DEF j
    <3> QED  BY <2>1, <2>4, <3>2, <3>3, Zenon
  <2> QED  BY <1>4, <2>2, <2>3, <2>4
<1>6. On(e, Unstarted) \/ On(e, [execution[e] EXCEPT !.step = "list"])
  BY DEF Assess, Complete, Break, GiveUp
<1>7. PICK x \in ExecutionRow : On(e, x) /\ x.step \in {"idle", "list"}
  <2>1. "list" \in ImportSteps
    BY DEF ImportSteps
  <2> DEFINE y == [execution[e] EXCEPT !.step = "list"]
  <2>2. y \in ExecutionRow /\ y.step = "list" /\ Unstarted \in ExecutionRow /\ Unstarted.step = "idle"
    BY <2>1, ImportRows DEF ImportInv
  <2>3. On(e, Unstarted) \/ On(e, y)
    BY <1>6
  <2> HIDE DEF y
  <2> QED  BY <2>2, <2>3
<1> QED  BY <1>1, <1>3, <1>5, <1>7, ExecutionEnds

\* The plan's counters and the job's rows agree, whatever stalls, breaks or runs twice.
THEOREM ImportInvariance == ImportSpec => []ImportInv
<1>1. ImportInit => ImportInv
  <2> SUFFICES ASSUME ImportInit PROVE ImportInv
    OBVIOUS
  <2>1. ImportTypeOK
    BY ImportAssumption DEF ImportInit, ImportTypeOK, Unstarted
  <2>2. Cardinality(planned) = 0
    BY FS_EmptySet DEF ImportInit
  <2>3. CreationInv
    BY <2>2, ImportAssumption DEF ImportInit, CreationInv, Unstarted
  <2>4. FileInv
    BY DEF ImportInit, FileInv, ProgressInv, Unstarted
  <2> QED  BY <2>1, <2>3, <2>4 DEF ImportInv
<1>2. ImportInv /\ [ImportNext]_importVars => ImportInv'
  <2> SUFFICES ASSUME ImportInv, [ImportNext]_importVars PROVE ImportInv'
    OBVIOUS
  <2>1. CASE Stall
    <3>1. /\ UNCHANGED <<entitlement, usage, contacts, planned, ownerLock, creator, importJob, lists,
                         member, execution>>
          /\ queued' = [queued EXCEPT !.state = "waiting", !.by = NoHolder]
          /\ importFaults' \in 0..MaxImportFaults
      BY <2>1, ImportAssumption DEF Stall, Fault, ImportInv, ImportTypeOK
    <3>2. /\ queued' \in [state : {"waiting", "active", "over"}, by : Execution \union {NoHolder},
                          starts : 0..MaxStarts] /\ queued'.starts = queued.starts
      BY <3>1, QueueRows DEF ImportInv
    <3>3. CreationInv' /\ FileInv'
      BY <3>1, <3>2 DEF ImportInv, CreationInv, FileInv, ProgressInv, ResultOf, Accounted
    <3> QED  BY <3>1, <3>2, <3>3 DEF ImportInv, ImportTypeOK
  <2>2. CASE UNCHANGED importVars
    BY <2>2
    DEF importVars, ImportInv, ImportTypeOK, CreationInv, FileInv, ProgressInv, ResultOf, Accounted
  <2> QED
    BY <2>1, <2>2, CreatorSteps, ExecutionCreates, ExecutionReads, ExecutionJoins, ExecutionLists,
       ExecutionBegins, ExecutionLeaves
    DEF ImportNext, ImportStep
<1> QED  BY <1>1, <1>2, PTL DEF ImportSpec

\* The plan never lets more contacts be created than it allows.
THEOREM PlanLimitIsKept == Spec => []PlanLimitHolds
<1>1. ImportInv => PlanLimitHolds
  BY DEF ImportInv, CreationInv, PlanLimitHolds
<1> QED  BY <1>1, ImportInvariance, ServicesAreThemselves, PTL

\* A job makes one list; when it is reported completed it counts the rows that are not in
\* the list as failed, and names them all if the result has room for every error.
THEOREM ImportsKeepTheirWord == Spec => []ImportKeepsItsWord
<1>1. ImportInv => ImportKeepsItsWord
  <2> SUFFICES ASSUME ImportInv PROVE ImportKeepsItsWord
    OBVIOUS
  <2>1. lists <= 1
    BY DEF ImportInv, FileInv
  <2>2. ASSUME importJob.status = "completed"
        PROVE  /\ Cardinality(Missing) <= importJob.failed
               /\ importJob.failed <= MaxErrors => Missing \subseteq importJob.reported
    <3>1. PICK failed \in SUBSET Row : ResultOf(failed) /\ Accounted(failed)
      BY <2>2 DEF ImportInv, FileInv
    <3>2. Missing \in SUBSET failed
      BY <2>2, <3>1 DEF Missing, Accounted, ImportInv, FileInv
    <3> QED  BY <3>1, <3>2, FailedRows DEF ResultOf
  <2> QED  BY <2>1, <2>2 DEF ImportKeepsItsWord
<1> QED  BY <1>1, ImportInvariance, ServicesAreThemselves, PTL
-----------------------------------------------------------------------------
(***************************************************************************)
(* The lead reminders.                                                     *)
(***************************************************************************)
FailedEvent(a) == "failed" \in events[a]

\* A callback about the failed delivery of attempt a has still to record it there.
Attended(a) ==
  \E c \in Callback : /\ callback[c] # Nothing /\ callback[c].about = a
                      /\ callback[c].status = "failed" /\ "attempt" \in callback[c].todo

\* An attempt was made at a time that has come, and knows its message when it was sent.
AttemptInv(a) ==
  IF sender[a] = "unused"
  THEN /\ attempt[a].of = Nothing /\ attempt[a].status = "none"
       /\ meta[a] = "unasked" /\ events[a] = {}
  ELSE /\ attempt[a].of \in Reminder /\ attempt[a].at \in 1..now
       /\ sender[a] = "sent" \/ attempt[a].status = "sent" => a \in named

ReminderInv(r) ==
  /\ reminder[r].status \in {"upcoming", "sending", "paused"} => reminder[r].next \in Occurrence
  /\ reminder[r].status = "upcoming" => ~Taken(r)

CallbackInv(c) ==
  callback[c] # Nothing => /\ sender[callback[c].about] # "unused"
                           /\ "event" \in callback[c].todo => "attempt" \in callback[c].todo

\* What says "sent" in spite of a failed delivery is about to be corrected.
VerdictInv(a) ==
  /\ FailedEvent(a) /\ attempt[a].status = "sent" => Attended(a)
  /\ \A r \in Reminder :
       attempt[a].of = r /\ frequency[r] = "once" /\ ~Overtaken(r) /\ reminder[r].status = "sent" =>
         a \in named /\ (FailedEvent(a) => Attended(a))

RemindersInv ==
  /\ RemindersTypeOK
  /\ \A a \in Attempt : AttemptInv(a) /\ VerdictInv(a)
  /\ \A r \in Reminder : ReminderInv(r)
  /\ \A c \in Callback : CallbackInv(c)

LEMMA LeastMember ==
  ASSUME NEW S, S \subseteq Nat, IsFiniteSet(S), S # {}
  PROVE  Min(S) \in S
<1> DEFINE below == [x \in S |-> {y \in S : y < x}]
<1>1. \A x \in S : x \in Nat  OBVIOUS
<1>2. \A x \in S : \A y \in below[x] : below[y] \subseteq below[x] /\ y \notin below[y]
  <2> TAKE x \in S
  <2> TAKE y \in below[x]
  <2>1. x \in Nat /\ y \in Nat /\ y \in S /\ y < x  BY <1>1
  <2>2. \A z \in S : z < y => z < x  BY <1>1, <2>1
  <2>3. ~(y < y)  BY <2>1
  <2> QED  BY <2>1, <2>2, <2>3
<1>3. PICK x \in S : below[x] = {}
  <2>1. below \in [S -> SUBSET S]  OBVIOUS
  <2> HIDE DEF below
  <2> QED  BY <1>2, <2>1, TopMember
<1>4. \A y \in S : x <= y  BY <1>1, <1>3
<1> QED  BY <1>4 DEF Min

LEMMA WholeYears == \A n \in Nat, y \in Nat \ {0} : ((n - (n % y)) + y) % y = 0
OBVIOUS

\* A yearly reminder always has a next time, and it is ahead.
LEMMA FollowingIsAhead ==
  ASSUME now \in Time, NEW at \in Occurrence
  PROVE  Following(at) \in Occurrence /\ Following(at) > now
<1> USE RemindersAssumption DEF Time, Occurrence
<1>1. CASE at > now
  BY <1>1 DEF Following
<1>2. CASE ~(at > now)
  <2> DEFINE S == {t \in at..(now + Year) : t > now /\ (t - at) % Year = 0}
             d == now - at
             t == (now - (d % Year)) + Year
  <2>1. d \in Nat /\ now \in Nat /\ Year \in Nat \ {0} /\ at \in Nat  BY <1>2
  <2>2. (d % Year) \in 0..(Year - 1) /\ d % Year <= d
    <3>1. (d % Year) \in 0..(Year - 1)  BY <2>1
    <3>2. d = Year * (d \div Year) + (d % Year) /\ d \div Year \in Nat  BY <2>1
    <3>3. Year * (d \div Year) \in Nat  BY <2>1, <3>2
    <3> QED  BY <2>1, <3>1, <3>2, <3>3
  <2>3. ((d - (d % Year)) + Year) % Year = 0
    <3> HIDE DEF d
    <3> QED  BY <2>1, WholeYears
  <2>4. t - at = (d - (d % Year)) + Year  BY <2>1, <2>2
  <2>5. t \in at..(now + Year) /\ t > now
    <3> HIDE DEF d
    <3>1. \A m \in 0..(Year - 1) : /\ (now - m) + Year > now
                                   /\ (now - m) + Year <= now + Year
      BY <2>1
    <3>2. \A m \in 0..(Year - 1) : (now - m) + Year \in Int  BY <2>1
    <3> QED  BY <1>2, <2>1, <2>2, <3>1, <3>2
  <2>6. t \in S  BY <2>1, <2>3, <2>4, <2>5
  <2>7. S \subseteq Nat  BY <2>1
  <2>8. IsFiniteSet(S)
    <3>1. IsFiniteSet(at..(now + Year))  BY <2>1, FS_Interval
    <3> QED  BY <3>1, FS_Subset
  <2>9. Min(S) \in S
    <3> HIDE DEF S, t
    <3> QED  BY <2>6, <2>7, <2>8, LeastMember
  <2>10. Following(at) = Min(S)  BY <1>2 DEF Following
  <2> QED  BY <2>1, <2>9, <2>10
<1> QED  BY <1>1, <1>2

\* The fields of the rows of reminders, attempts and callbacks.
LEMMA ReminderFields ==
  ASSUME RemindersTypeOK
  PROVE  /\ reminder \in [Reminder -> ReminderRow] /\ attempt \in [Attempt -> AttemptRow]
         /\ \A r \in Reminder :
              /\ reminder[r] \in ReminderRow /\ reminder[r].next \in Occurrence \union {Never}
              /\ reminder[r].status \in {"upcoming", "sending", "sent", "failed", "paused",
                                         "cancelled"}
              /\ reminder[r].last \in 0..MaxAttempts
              /\ frequency[r] \in {"once", "yearly"}
         /\ \A a \in Attempt :
              /\ attempt[a] \in AttemptRow /\ attempt[a].of \in Reminder \union {Nothing}
              /\ attempt[a].at \in Occurrence \union {Never}
         /\ \A c \in Callback : callback[c] # Nothing =>
              /\ callback[c] \in Work /\ callback[c].about \in Attempt
              /\ callback[c].status \in Status
              /\ callback[c].todo \subseteq {"message", "event", "attempt"}
         /\ now \in Time /\ interrupts \in 0..MaxInterrupts
BY DEF RemindersTypeOK, ReminderRow, AttemptRow, Work

LEMMA RemindersStart == RemindersInit => RemindersInv
<1> USE RemindersAssumption
<1> SUFFICES ASSUME RemindersInit PROVE RemindersInv
  OBVIOUS
<1>1. RemindersTypeOK
  <2>1. reminder \in [Reminder -> ReminderRow]
    <3>1. [status : {"upcoming"}, next : 1..MaxTime, last : {0}] \subseteq ReminderRow
      BY DEF ReminderRow, Occurrence
    <3> QED  BY <3>1 DEF RemindersInit
  <2>2. attempt \in [Attempt -> AttemptRow]  BY DEF RemindersInit, AttemptRow
  <2> QED  BY <2>1, <2>2 DEF RemindersInit, RemindersTypeOK, Time
<1>2. \A r \in Reminder : reminder[r].next \in Occurrence
  BY DEF RemindersInit, Occurrence
<1>3. \A a \in Attempt : attempt[a].of = Nothing /\ attempt[a].status = "none"
  BY DEF RemindersInit
<1>4. \A a \in Attempt : AttemptInv(a) /\ VerdictInv(a)
  BY <1>3 DEF RemindersInit, AttemptInv, VerdictInv, FailedEvent
<1>5. \A r \in Reminder : ReminderInv(r)
  BY <1>2, <1>3 DEF ReminderInv, Taken
<1>6. \A c \in Callback : CallbackInv(c)
  BY DEF RemindersInit, CallbackInv
<1> QED  BY <1>1, <1>4, <1>5, <1>6 DEF RemindersInv

\* The type invariant, after a step, by the names of its parts.
LEMMA RemindersTypedNext ==
  ASSUME now' \in Time, frequency' \in [Reminder -> {"once", "yearly"}],
         reminder' \in [Reminder -> ReminderRow], attempt' \in [Attempt -> AttemptRow],
         message' \in [Attempt -> {"none", "queued", "sent", "delivered", "read", "failed"}],
         named' \subseteq Attempt, linked' \subseteq Attempt,
         sender' \in [Attempt -> {"unused", "preparing", "posting", "answered", "refused",
                                  "sent", "failed", "over"}],
         meta' \in [Attempt -> {"unasked", "delivers", "fails", "refuses"}],
         events' \in [Attempt -> SUBSET Status],
         callback' \in [Callback -> Work \union {Nothing}], interrupts' \in 0..MaxInterrupts
  PROVE  RemindersTypeOK'
BY Zenon DEF RemindersTypeOK

\* A verdict stands while no attempt and no reminder newly says "sent", no failed delivery
\* is newly recorded, and no callback newly has nothing left to correct.
LEMMA VerdictKept ==
  ASSUME NEW a \in Attempt, VerdictInv(a), UNCHANGED frequency,
         \A b \in Attempt : attempt'[b].of = attempt[b].of,
         attempt'[a].status = "sent" => attempt[a].status = "sent",
         \A r \in Reminder : reminder'[r].status = "sent" =>
           reminder[r].status = "sent" /\ reminder'[r].last = reminder[r].last,
         named \subseteq named', FailedEvent(a)' => FailedEvent(a),
         Attended(a) => Attended(a)'
  PROVE  VerdictInv(a)'
<1>1. \A r \in Reminder : ~Overtaken(r)' /\ reminder'[r].status = "sent" =>
                            ~Overtaken(r) /\ reminder[r].status = "sent"
  BY DEF Overtaken
<1>2. FailedEvent(a)' /\ attempt'[a].status = "sent" => Attended(a)'
  BY DEF VerdictInv
<1>3. ASSUME NEW r \in Reminder, attempt'[a].of = r, frequency'[r] = "once", ~Overtaken(r)',
             reminder'[r].status = "sent"
      PROVE  a \in named' /\ (FailedEvent(a)' => Attended(a)')
  BY <1>1, <1>3 DEF VerdictInv
<1> QED  BY <1>2, <1>3 DEF VerdictInv

\* The rows of a reminder that a step leaves as they are.
LEMMA ReminderKept ==
  ASSUME NEW r \in Reminder, ReminderInv(r), reminder'[r] = reminder[r],
         \A b \in Attempt : attempt'[b].of = attempt[b].of /\ attempt'[b].at = attempt[b].at
  PROVE  ReminderInv(r)'
BY DEF ReminderInv, Taken

LEMMA AttemptKept ==
  ASSUME NEW a \in Attempt, AttemptInv(a), now <= now', now \in Int, now' \in Int,
         attempt[a].at \in Int \/ sender[a] = "unused",
         attempt'[a].of = attempt[a].of, attempt'[a].at = attempt[a].at,
         attempt'[a].status = "sent" => attempt[a].status = "sent",
         \/ sender'[a] = sender[a] /\ attempt'[a].status = attempt[a].status
         \/ sender[a] # "unused" /\ sender'[a] # "unused",
         sender'[a] = "sent" => sender[a] = "sent" \/ a \in named',
         named \subseteq named', meta'[a] = meta[a] \/ sender[a] # "unused",
         events'[a] = events[a] \/ sender[a] # "unused"
  PROVE  AttemptInv(a)'
BY DEF AttemptInv

LEMMA CallbackKept ==
  ASSUME NEW c \in Callback, CallbackInv(c), callback'[c] = callback[c],
         \A a \in Attempt : sender'[a] = "unused" => sender[a] = "unused",
         callback[c] # Nothing => callback[c].about \in Attempt
  PROVE  CallbackInv(c)'
BY DEF CallbackInv

LEMMA PassTimeKeeps ==
  ASSUME RemindersInv, PassTime
  PROVE  RemindersInv'
<1> USE RemindersAssumption
<1>1. RemindersTypeOK'
  BY DEF RemindersInv, RemindersTypeOK, PassTime, Time, rowVars, messageVars
<1>2. /\ UNCHANGED <<frequency, reminder, attempt, message, named, linked, sender, meta, events,
                     callback, interrupts>>
      /\ now' = now + 1 /\ now \in Int
  BY DEF RemindersInv, RemindersTypeOK, PassTime, rowVars, messageVars, Time
<1>3. \A a \in Attempt : AttemptInv(a)' /\ VerdictInv(a)'
  <2> TAKE a \in Attempt
  <2>1. AttemptInv(a) /\ VerdictInv(a)  BY DEF RemindersInv
  <2>2. AttemptInv(a)'  BY <1>2, <2>1 DEF AttemptInv
  <2>3. VerdictInv(a)'
    BY <1>2, <2>1 DEF VerdictInv, FailedEvent, Attended, Overtaken
  <2> QED  BY <2>2, <2>3
<1>4. \A r \in Reminder : ReminderInv(r)'
  BY <1>2 DEF RemindersInv, ReminderInv, Taken
<1>5. \A c \in Callback : CallbackInv(c)'
  BY <1>2 DEF RemindersInv, CallbackInv
<1> QED  BY <1>1, <1>3, <1>4, <1>5 DEF RemindersInv

\* The owner moves a reminder to a row that is not "sent", nor due at a time attempted.
LEMMA DecideKeeps ==
  ASSUME RemindersInv, NEW r \in Reminder, NEW row \in ReminderRow, Decide(r, row),
         row.status # "sent", row.last = reminder[r].last,
         row.status \in {"upcoming", "sending", "paused"} => row.next \in Occurrence,
         row.status = "upcoming" => row.next > now
  PROVE  RemindersInv'
<1> USE RemindersAssumption
<1>0. RemindersTypeOK /\ reminder \in [Reminder -> ReminderRow] /\ now \in Time
  BY ReminderFields DEF RemindersInv
<1>1. /\ UNCHANGED <<now, frequency, attempt, message, named, linked, sender, meta, events,
                     callback, interrupts>>
      /\ reminder' = [reminder EXCEPT ![r] = row]
  BY DEF Decide, messageVars
<1>2. reminder'[r] = row /\ \A s \in Reminder : s # r => reminder'[s] = reminder[s]
  BY <1>0, <1>1
<1>3. RemindersTypeOK'
  <2>1. reminder' \in [Reminder -> ReminderRow]  BY <1>0, <1>1
  <2> QED  BY <1>0, <1>1, <2>1, RemindersTypedNext DEF RemindersTypeOK
<1>4. \A a \in Attempt : AttemptInv(a)' /\ VerdictInv(a)'
  <2> TAKE a \in Attempt
  <2>1. AttemptInv(a) /\ VerdictInv(a)  BY DEF RemindersInv
  <2>2. AttemptInv(a)'  BY <1>1, <2>1 DEF AttemptInv
  <2>3. \A s \in Reminder : reminder'[s].status = "sent" =>
          reminder[s].status = "sent" /\ reminder'[s].last = reminder[s].last
    BY <1>2
  <2>4. VerdictInv(a)'
    BY <1>1, <2>1, <2>3, VerdictKept DEF FailedEvent, Attended
  <2> QED  BY <2>2, <2>4
<1>5. \A s \in Reminder : ReminderInv(s)'
  <2> TAKE s \in Reminder
  <2>1. CASE s # r
    BY <1>1, <1>2, <2>1 DEF RemindersInv, ReminderInv, Taken
  <2>2. CASE s = r
    <3>1. row.status = "upcoming" => ~ \E a \in Attempt : attempt[a].of = r /\ attempt[a].at = row.next
      <4> SUFFICES ASSUME row.status = "upcoming", NEW a \in Attempt, attempt[a].of = r,
                          attempt[a].at = row.next
                   PROVE FALSE
        OBVIOUS
      <4>1. AttemptInv(a) /\ attempt[a].of # Nothing  BY DEF RemindersInv
      <4>2. attempt[a].at \in 1..now  BY <4>1 DEF AttemptInv
      <4> QED  BY <1>0, <4>2 DEF Time
    <3> QED  BY <1>1, <1>2, <2>2, <3>1 DEF ReminderInv, Taken
  <2> QED  BY <2>1, <2>2
<1>6. \A c \in Callback : CallbackInv(c)'
  BY <1>1 DEF RemindersInv, CallbackInv
<1> QED  BY <1>3, <1>4, <1>5, <1>6 DEF RemindersInv

LEMMA OwnerOfReminderKeeps ==
  ASSUME RemindersInv, NEW r \in Reminder, OwnerStep(r)
  PROVE  RemindersInv'
<1> USE RemindersAssumption
<1>0. /\ RemindersTypeOK /\ reminder[r] \in ReminderRow /\ now \in Time
      /\ reminder[r].status \in {"upcoming", "paused"} => reminder[r].next \in Occurrence
      /\ reminder[r].next \in Occurrence \union {Never}
  BY ReminderFields DEF RemindersInv, ReminderInv
<1>1. ASSUME Edit(r)  PROVE RemindersInv'
  <2>1. PICK t \in (now + 1)..MaxTime :
          Decide(r, [reminder[r] EXCEPT !.status = IF @ = "paused" THEN "paused" ELSE "upcoming",
                                        !.next = t])
    BY <1>1 DEF Edit
  <2>2. t \in Occurrence /\ t > now  BY <1>0 DEF Occurrence, Time
  <2> DEFINE row == [reminder[r] EXCEPT !.status = IF @ = "paused" THEN "paused" ELSE "upcoming",
                                        !.next = t]
  <2>3. /\ row \in ReminderRow /\ row.status \in {"upcoming", "paused"} /\ row.next = t
        /\ row.last = reminder[r].last
    BY <1>0, <2>2 DEF ReminderRow
  <2>4. Decide(r, row)  BY <2>1
  <2> HIDE DEF row
  <2> QED  BY <2>2, <2>3, <2>4, DecideKeeps
<1>2. ASSUME Pause(r)  PROVE RemindersInv'
  <2> DEFINE row == [reminder[r] EXCEPT !.status = "paused"]
  <2>1. /\ row \in ReminderRow /\ row.status = "paused" /\ row.next = reminder[r].next
        /\ row.last = reminder[r].last
    BY <1>0 DEF ReminderRow
  <2>2. Decide(r, row) /\ reminder[r].next \in Occurrence  BY <1>0, <1>2 DEF Pause
  <2> HIDE DEF row
  <2> QED  BY <2>1, <2>2, DecideKeeps
<1>3. ASSUME Cancel(r)  PROVE RemindersInv'
  <2> DEFINE row == [reminder[r] EXCEPT !.status = "cancelled", !.next = Never]
  <2>1. row \in ReminderRow /\ row.status = "cancelled" /\ row.last = reminder[r].last
    BY <1>0 DEF ReminderRow
  <2>2. Decide(r, row)  BY <1>3 DEF Cancel
  <2> HIDE DEF row
  <2> QED  BY <2>1, <2>2, DecideKeeps
<1>4. ASSUME Resume(r)  PROVE RemindersInv'
  <2>1. PICK t \in Occurrence : t = NextSend(r, reminder[r].next)
    <3>1. reminder[r].next \in Occurrence  BY <1>0, <1>4 DEF Resume
    <3> QED  BY <1>0, <3>1, FollowingIsAhead DEF NextSend
  <2> DEFINE row == [reminder[r] EXCEPT !.status = "upcoming", !.next = t]
  <2>2. /\ row \in ReminderRow /\ row.status = "upcoming" /\ row.next = t
        /\ row.last = reminder[r].last
    BY <1>0 DEF ReminderRow
  <2>3. Decide(r, row) /\ t > now
    <3>1. row = [reminder[r] EXCEPT !.status = "upcoming", !.next = NextSend(r, @)]
      BY <1>0, <2>1 DEF ReminderRow
    <3> QED  BY <1>4, <2>1, <3>1 DEF Resume
  <2> HIDE DEF row
  <2> QED  BY <2>2, <2>3, DecideKeeps
<1> QED  BY <1>1, <1>2, <1>3, <1>4 DEF OwnerStep

SenderAt == {"preparing", "posting", "answered", "refused", "sent", "failed", "over"}

\* The process behind an attempt goes on, and leaves the rows of reminder and attempt.
LEMMA SenderGoesOn ==
  ASSUME RemindersInv, NEW a \in Attempt, NEW at \in SenderAt, sender[a] # "unused",
         sender' = [sender EXCEPT ![a] = at],
         UNCHANGED <<now, frequency, rowVars, linked, events, callback>>,
         message' \in [Attempt -> {"none", "queued", "sent", "delivered", "read", "failed"}],
         named \subseteq named', named' \subseteq Attempt, at = "sent" => a \in named',
         meta' \in [Attempt -> {"unasked", "delivers", "fails", "refuses"}],
         \A b \in Attempt : b # a => meta'[b] = meta[b], interrupts' \in 0..MaxInterrupts
  PROVE  RemindersInv'
<1>0. RemindersTypeOK /\ now \in Time  BY ReminderFields DEF RemindersInv
<1>1. RemindersTypeOK'
  <2>1. sender' \in [Attempt -> {"unused", "preparing", "posting", "answered", "refused",
                                 "sent", "failed", "over"}]
    BY <1>0 DEF RemindersTypeOK, SenderAt
  <2> QED  BY <1>0, <2>1, RemindersTypedNext DEF RemindersTypeOK, rowVars
<1>2. /\ sender'[a] = at /\ at # "unused"
      /\ \A b \in Attempt : b # a => sender'[b] = sender[b]
  BY <1>0 DEF RemindersTypeOK, SenderAt
<1>3. \A b \in Attempt : AttemptInv(b)' /\ VerdictInv(b)'
  <2> TAKE b \in Attempt
  <2>1. AttemptInv(b) /\ VerdictInv(b)  BY DEF RemindersInv
  <2>2. AttemptInv(b)'
    <3>1. CASE b = a
      BY <1>2, <2>1, <3>1 DEF AttemptInv, rowVars
    <3>2. CASE b # a
      <4>1. sender'[b] = sender[b] /\ meta'[b] = meta[b]  BY <1>2, <3>2
      <4> QED  BY <2>1, <4>1 DEF AttemptInv, rowVars
    <3> QED  BY <3>1, <3>2
  <2>3. VerdictInv(b)'
    BY <2>1, VerdictKept DEF FailedEvent, Attended, rowVars
  <2> QED  BY <2>2, <2>3
<1>4. \A r \in Reminder : ReminderInv(r)'
  BY DEF RemindersInv, ReminderInv, Taken, rowVars
<1>5. \A c \in Callback : CallbackInv(c)'
  <2> TAKE c \in Callback
  <2>1. callback[c] # Nothing => callback[c].about \in Attempt  BY <1>0, ReminderFields
  <2>2. CallbackInv(c)  BY DEF RemindersInv
  <2> QED  BY <1>2, <2>1, <2>2 DEF CallbackInv
<1> QED  BY <1>1, <1>3, <1>4, <1>5 DEF RemindersInv

LEMMA SenderOnlyKeeps ==
  ASSUME RemindersInv, NEW a \in Attempt,
         RefuseToSend(a) \/ Post(a) \/ Hear(a) \/ SaveSent(a) \/ SaveFailure(a) \/ Abandon(a)
  PROVE  RemindersInv'
<1>0. RemindersTypeOK  BY DEF RemindersInv
<1>1. \A at \in SenderAt : at # "unused"  BY DEF SenderAt
<1>2. sender[a] # "unused" /\ UNCHANGED <<now, frequency, rowVars, linked, events, callback>>
  BY DEF RefuseToSend, Post, Hear, SaveSent, SaveFailure, Abandon, messageVars
<1>3. PICK at \in SenderAt : sender' = [sender EXCEPT ![a] = at] /\ (at = "sent" => SaveSent(a))
  <2>1. CASE RefuseToSend(a)
    BY <2>1 DEF RefuseToSend, SenderAt
  <2>2. CASE Post(a)
    BY <2>2 DEF Post, SenderAt
  <2>3. CASE Hear(a)
    BY <2>3 DEF Hear, SenderAt
  <2>4. CASE SaveSent(a)
    BY <2>4 DEF SaveSent, SenderAt
  <2>5. CASE SaveFailure(a)
    BY <2>5 DEF SaveFailure, SenderAt
  <2>6. CASE Abandon(a)
    BY <2>6 DEF Abandon, SenderAt
  <2> QED  BY <2>1, <2>2, <2>3, <2>4, <2>5, <2>6
<1>4. message' \in [Attempt -> {"none", "queued", "sent", "delivered", "read", "failed"}]
  BY <1>0 DEF RemindersTypeOK, RefuseToSend, Post, Hear, SaveSent, SaveFailure, Abandon, messageVars
<1>5. named \subseteq named' /\ named' \subseteq Attempt /\ (at = "sent" => a \in named')
  BY <1>0, <1>3 DEF RemindersTypeOK, RefuseToSend, Post, Hear, SaveSent, SaveFailure, Abandon,
                    messageVars
<1>6. /\ meta' \in [Attempt -> {"unasked", "delivers", "fails", "refuses"}]
      /\ \A b \in Attempt : b # a => meta'[b] = meta[b]
  <2>1. CASE Post(a)
    BY <1>0, <2>1 DEF RemindersTypeOK, Post
  <2>2. CASE ~Post(a)
    BY <1>0, <2>2 DEF RemindersTypeOK, RefuseToSend, Hear, SaveSent, SaveFailure, Abandon
  <2> QED  BY <2>1, <2>2
<1>7. interrupts' \in 0..MaxInterrupts
  <2>1. CASE Abandon(a)
    BY <1>0, <2>1, RemindersAssumption DEF RemindersTypeOK, Abandon
  <2>2. CASE ~Abandon(a)
    BY <1>0, <2>2 DEF RemindersTypeOK, RefuseToSend, Post, Hear, SaveSent, SaveFailure
  <2> QED  BY <2>1, <2>2
<1> QED  BY <1>2, <1>3, <1>4, <1>5, <1>6, <1>7, SenderGoesOn

LEMMA ClaimNextDueKeeps ==
  ASSUME RemindersInv, NEW r \in Reminder, ClaimNextDue(r)
  PROVE  RemindersInv'
<1> USE RemindersAssumption
<1>0. /\ RemindersTypeOK /\ now \in Time /\ reminder \in [Reminder -> ReminderRow]
      /\ attempt \in [Attempt -> AttemptRow] /\ reminder[r].next \in Occurrence
      /\ reminder[r].next <= now
  BY ReminderFields DEF RemindersInv, ReminderInv, ClaimNextDue, Due
<1>1. PICK a \in Attempt : a = Min(Unused) /\ sender[a] = "unused"
  <2>1. Unused \subseteq Nat /\ Unused # {}  BY DEF Unused, Attempt, ClaimNextDue
  <2>2. IsFiniteSet(Unused)
    <3>1. IsFiniteSet(1..MaxAttempts)  BY FS_Interval
    <3> QED  BY <3>1, FS_Subset DEF Unused, Attempt
  <2>3. Min(Unused) \in Unused  BY <2>1, <2>2, LeastMember
  <2> QED  BY <2>3 DEF Unused
<1> DEFINE claim == [of |-> r, at |-> reminder[r].next, status |-> "sending"]
           row == [reminder[r] EXCEPT !.status = "sending", !.last = a]
<1>2. /\ claim \in AttemptRow /\ claim.of = r /\ claim.at = reminder[r].next
      /\ claim.status = "sending" /\ attempt' = [attempt EXCEPT ![a] = claim]
  BY <1>0, <1>1 DEF AttemptRow, ClaimNextDue
<1>3. /\ row \in ReminderRow /\ row.status = "sending" /\ row.next = reminder[r].next
      /\ row.last = a /\ reminder' = [reminder EXCEPT ![r] = row]
  <2>1. row \in ReminderRow /\ row.status = "sending" /\ row.next = reminder[r].next /\ row.last = a
    <3>1. a \in 0..MaxAttempts  BY DEF Attempt
    <3> QED  BY <1>0, <3>1 DEF ReminderRow
  <2>2. reminder' = [reminder EXCEPT ![r].status = "sending", ![r].last = a]
    BY <1>1 DEF ClaimNextDue
  <2> QED  BY <1>0, <2>1, <2>2
<1> HIDE DEF claim, row
<1>4. /\ sender' = [sender EXCEPT ![a] = "preparing"]
      /\ UNCHANGED <<now, frequency, message, named, linked, meta, events, callback, interrupts>>
  BY <1>1 DEF ClaimNextDue, messageVars
<1>5. /\ attempt'[a] = claim /\ \A b \in Attempt : b # a => attempt'[b] = attempt[b]
      /\ reminder'[r] = row /\ \A s \in Reminder : s # r => reminder'[s] = reminder[s]
      /\ sender'[a] = "preparing" /\ \A b \in Attempt : b # a => sender'[b] = sender[b]
  BY <1>0, <1>2, <1>3, <1>4 DEF RemindersTypeOK
<1>6. RemindersTypeOK'
  <2>1. /\ attempt' \in [Attempt -> AttemptRow] /\ reminder' \in [Reminder -> ReminderRow]
        /\ sender' \in [Attempt -> {"unused", "preparing", "posting", "answered", "refused",
                                    "sent", "failed", "over"}]
    BY <1>0, <1>2, <1>3, <1>4 DEF RemindersTypeOK
  <2> QED  BY <1>0, <1>4, <2>1, RemindersTypedNext DEF RemindersTypeOK
<1>7. attempt[a].of = Nothing /\ attempt[a].status = "none" /\ events[a] = {}
  BY <1>1 DEF RemindersInv, AttemptInv
<1>8. \A b \in Attempt : AttemptInv(b)' /\ VerdictInv(b)'
  <2> TAKE b \in Attempt
  <2>1. AttemptInv(b) /\ VerdictInv(b)  BY DEF RemindersInv
  <2>2. AttemptInv(b)'
    <3>1. CASE b = a
      BY <1>0, <1>2, <1>4, <1>5, <3>1 DEF AttemptInv, Occurrence, Time
    <3>2. CASE b # a
      <4>1. sender'[b] = sender[b] /\ attempt'[b] = attempt[b]  BY <1>5, <3>2
      <4> QED  BY <1>4, <2>1, <4>1 DEF AttemptInv
    <3> QED  BY <3>1, <3>2
  <2>3. VerdictInv(b)'
    <3>1. CASE b = a
      <4>1. ~FailedEvent(a)' /\ attempt'[a].of = r /\ reminder'[r].status = "sending"
        BY <1>2, <1>3, <1>4, <1>5, <1>7 DEF FailedEvent
      <4> QED  BY <3>1, <4>1 DEF VerdictInv
    <3>2. CASE b # a
      <4>1. attempt'[b] = attempt[b]  BY <1>5, <3>2
      <4>2. \A s \in Reminder : reminder'[s].status = "sent" => s # r /\ reminder'[s] = reminder[s]
        BY <1>3, <1>5
      <4>3. \A s \in Reminder : s # r => (Overtaken(s)' <=> Overtaken(s))
        <5> TAKE s \in Reminder
        <5> HAVE s # r
        <5>1. reminder'[s] = reminder[s]  BY <1>5
        <5>2. attempt'[a].of # s /\ attempt[a].of # s  BY <1>2, <1>5, <1>7
        <5> QED  BY <1>5, <5>1, <5>2 DEF Overtaken
      <4>4. FailedEvent(b)' <=> FailedEvent(b)  BY <1>4 DEF FailedEvent
      <4>5. Attended(b)' <=> Attended(b)  BY <1>4 DEF Attended
      <4> QED  BY <1>4, <2>1, <4>1, <4>2, <4>3, <4>4, <4>5 DEF VerdictInv
    <3> QED  BY <3>1, <3>2
  <2> QED  BY <2>2, <2>3
<1>9. \A s \in Reminder : ReminderInv(s)'
  <2> TAKE s \in Reminder
  <2>1. CASE s = r
    BY <1>0, <1>3, <1>5, <2>1 DEF ReminderInv
  <2>2. CASE s # r
    <3>1. reminder'[s] = reminder[s] /\ ReminderInv(s)  BY <1>5, <2>2 DEF RemindersInv
    <3>2. attempt'[a].of # s  BY <1>2, <1>5, <2>2
    <3>3. Taken(s)' => Taken(s)  BY <1>5, <3>1, <3>2 DEF Taken
    <3> QED  BY <3>1, <3>3 DEF ReminderInv
  <2> QED  BY <2>1, <2>2
<1>10. \A c \in Callback : CallbackInv(c)'
  <2> TAKE c \in Callback
  <2>1. callback[c] # Nothing => callback[c].about \in Attempt  BY <1>0, ReminderFields
  <2>2. CallbackInv(c)  BY DEF RemindersInv
  <2> QED  BY <1>4, <1>5, <2>1, <2>2 DEF CallbackInv
<1> QED  BY <1>6, <1>8, <1>9, <1>10 DEF RemindersInv

LEMMA CompleteAttemptKeeps ==
  ASSUME RemindersInv, NEW a \in Attempt, CompleteAttempt(a)
  PROVE  RemindersInv'
<1> USE RemindersAssumption
<1>0. /\ RemindersTypeOK /\ now \in Time /\ reminder \in [Reminder -> ReminderRow]
      /\ attempt \in [Attempt -> AttemptRow] /\ attempt[a] \in AttemptRow
      /\ sender[a] \in {"sent", "failed"}
  BY ReminderFields DEF RemindersInv, CompleteAttempt
<1>1. AttemptInv(a) /\ sender[a] # "unused"  BY <1>0 DEF RemindersInv
<1>2. PICK r \in Reminder : r = attempt[a].of  BY <1>1 DEF AttemptInv
<1>3. attempt[a].at \in Occurrence
  <2>1. attempt[a].at \in 1..now  BY <1>1 DEF AttemptInv
  <2> QED  BY <1>0, <2>1 DEF Time, Occurrence
<1>4. PICK outcome \in {"sent", "failed"} : outcome = Outcome(a)  BY DEF Outcome
<1>5. outcome = "sent" => ~FailedEvent(a) /\ a \in named
  BY <1>1, <1>4 DEF Outcome, FailedEvent, AttemptInv
<1> DEFINE q == [attempt[a] EXCEPT !.status = outcome]
<1>6. /\ q \in AttemptRow /\ q.of = r /\ q.at = attempt[a].at /\ q.status = outcome
      /\ attempt' = [attempt EXCEPT ![a] = q]
  <2>1. attempt' = [attempt EXCEPT ![a].status = outcome]  BY <1>4 DEF CompleteAttempt
  <2> QED  BY <1>0, <1>2, <2>1 DEF AttemptRow
<1> HIDE DEF q
<1>7. PICK row \in ReminderRow :
        /\ reminder' = [reminder EXCEPT ![r] = row] /\ row.last = reminder[r].last
        /\ \/ row = reminder[r]
           \/ row.status = "upcoming" /\ row.next \in Occurrence /\ row.next > now
           \/ row.status = outcome
  <2>0. reminder[r] \in ReminderRow  BY <1>0
  <2>1. CASE reminder[r].status # "sending"
    <3>1. reminder' = reminder  BY <1>2, <2>1 DEF CompleteAttempt
    <3> QED  BY <1>0, <2>0, <3>1
  <2>2. CASE reminder[r].status = "sending" /\ frequency[r] = "yearly"
    <3>1. PICK t \in Occurrence : t = Following(attempt[a].at) /\ t > now
      BY <1>0, <1>3, FollowingIsAhead
    <3> DEFINE row == [reminder[r] EXCEPT !.status = "upcoming", !.next = t]
    <3>2. /\ row \in ReminderRow /\ row.last = reminder[r].last /\ row.status = "upcoming"
          /\ row.next = t
      BY <2>0 DEF ReminderRow
    <3>3. reminder' = [reminder EXCEPT ![r] = row]
      BY <1>2, <2>2, <3>1 DEF CompleteAttempt, Finished
    <3> HIDE DEF row
    <3> QED  BY <3>1, <3>2, <3>3
  <2>3. CASE reminder[r].status = "sending" /\ frequency[r] # "yearly"
    <3> DEFINE row == [reminder[r] EXCEPT !.status = outcome, !.next = Never]
    <3>1. row \in ReminderRow /\ row.last = reminder[r].last /\ row.status = outcome
      BY <2>0 DEF ReminderRow
    <3>2. reminder' = [reminder EXCEPT ![r] = row]
      BY <1>2, <1>4, <2>3 DEF CompleteAttempt, Finished
    <3> HIDE DEF row
    <3> QED  BY <3>1, <3>2
  <2> QED  BY <2>1, <2>2, <2>3
<1>8. /\ sender' = [sender EXCEPT ![a] = "over"]
      /\ UNCHANGED <<now, frequency, message, named, meta, events, callback, interrupts>>
      /\ linked' \subseteq Attempt
  BY <1>0 DEF CompleteAttempt, RemindersTypeOK
<1>9. /\ attempt'[a] = q /\ \A b \in Attempt : b # a => attempt'[b] = attempt[b]
      /\ reminder'[r] = row /\ \A s \in Reminder : s # r => reminder'[s] = reminder[s]
      /\ sender'[a] = "over" /\ \A b \in Attempt : b # a => sender'[b] = sender[b]
  BY <1>0, <1>6, <1>7, <1>8 DEF RemindersTypeOK
<1>10. RemindersTypeOK'
  <2>1. /\ attempt' \in [Attempt -> AttemptRow] /\ reminder' \in [Reminder -> ReminderRow]
        /\ sender' \in [Attempt -> {"unused", "preparing", "posting", "answered", "refused",
                                    "sent", "failed", "over"}]
    BY <1>0, <1>6, <1>7, <1>8 DEF RemindersTypeOK
  <2> QED  BY <1>0, <1>8, <2>1, RemindersTypedNext DEF RemindersTypeOK
<1>11. \A b \in Attempt : attempt'[b].of = attempt[b].of /\ attempt'[b].at = attempt[b].at
  BY <1>2, <1>6, <1>9
<1>12. /\ \A s \in Reminder : reminder'[s].last = reminder[s].last
       /\ \A s \in Reminder : Overtaken(s)' <=> Overtaken(s)
  <2>1. \A s \in Reminder : reminder'[s].last = reminder[s].last  BY <1>7, <1>9
  <2> QED  BY <1>11, <2>1 DEF Overtaken
<1>13. \A b \in Attempt : AttemptInv(b)' /\ VerdictInv(b)'
  <2> TAKE b \in Attempt
  <2>1. AttemptInv(b) /\ VerdictInv(b)  BY DEF RemindersInv
  <2>2. AttemptInv(b)'
    <3>1. CASE b = a
      BY <1>1, <1>2, <1>5, <1>6, <1>8, <1>9, <3>1 DEF AttemptInv
    <3>2. CASE b # a
      <4>1. sender'[b] = sender[b] /\ attempt'[b] = attempt[b]  BY <1>9, <3>2
      <4> QED  BY <1>8, <2>1, <4>1 DEF AttemptInv
    <3> QED  BY <3>1, <3>2
  <2>3. FailedEvent(b)' <=> FailedEvent(b)  BY <1>8 DEF FailedEvent
  <2>4. Attended(b)' <=> Attended(b)  BY <1>8 DEF Attended
  <2>5. FailedEvent(b)' /\ attempt'[b].status = "sent" => Attended(b)'
    <3>1. CASE b = a
      BY <1>5, <1>6, <1>9, <2>3, <3>1
    <3>2. CASE b # a
      BY <1>9, <2>1, <2>3, <2>4, <3>2 DEF VerdictInv
    <3> QED  BY <3>1, <3>2
  <2>6. ASSUME NEW s \in Reminder, attempt'[b].of = s, frequency'[s] = "once", ~Overtaken(s)',
               reminder'[s].status = "sent"
        PROVE  b \in named' /\ (FailedEvent(b)' => Attended(b)')
    <3>1. CASE reminder'[s].status = reminder[s].status
      BY <1>8, <1>11, <1>12, <2>1, <2>3, <2>4, <2>6, <3>1 DEF VerdictInv
    <3>2. CASE reminder'[s].status # reminder[s].status
      <4>1. s = r /\ outcome = "sent"  BY <1>7, <1>9, <2>6, <3>2
      <4>2. b = a
        <5>1. ~Overtaken(r) /\ attempt[b].of = r /\ attempt[a].of = r
          BY <1>2, <1>11, <1>12, <2>6, <4>1
        <5> QED  BY <5>1 DEF Overtaken
      <4> QED  BY <1>5, <1>8, <2>3, <4>1, <4>2
    <3> QED  BY <3>1, <3>2
  <2> QED  BY <2>2, <2>5, <2>6 DEF VerdictInv
<1>14. \A s \in Reminder : ReminderInv(s)'
  <2> TAKE s \in Reminder
  <2>0. ReminderInv(s)  BY DEF RemindersInv
  <2>1. CASE reminder'[s] = reminder[s]
    BY <1>11, <2>0, <2>1, ReminderKept
  <2>2. CASE reminder'[s] # reminder[s]
    <3>1. s = r /\ reminder'[s] = row /\ row # reminder[r]  BY <1>9, <2>2
    <3>2. row.status = "upcoming" => row.next \in Occurrence /\ row.next > now
      BY <1>7, <3>1
    <3>3. row.status \in {"upcoming", "sent", "failed"}  BY <1>7, <3>1
    <3>4. row.status = "upcoming" => ~Taken(r)'
      <4> SUFFICES ASSUME row.status = "upcoming", NEW b \in Attempt, attempt[b].of = r,
                          attempt[b].at = row.next
                   PROVE FALSE
        BY <1>11, <3>1 DEF Taken
      <4>1. AttemptInv(b) /\ attempt[b].of # Nothing  BY DEF RemindersInv
      <4>2. attempt[b].at \in 1..now  BY <4>1 DEF AttemptInv
      <4> QED  BY <1>0, <3>2, <4>2 DEF Time, Occurrence
    <3> QED  BY <3>1, <3>2, <3>3, <3>4 DEF ReminderInv
  <2> QED  BY <2>1, <2>2
<1>15. \A c \in Callback : CallbackInv(c)'
  <2> TAKE c \in Callback
  <2>1. callback[c] # Nothing => callback[c].about \in Attempt  BY <1>0, ReminderFields
  <2>2. CallbackInv(c)  BY DEF RemindersInv
  <2> QED  BY <1>8, <1>9, <2>1, <2>2 DEF CallbackInv
<1> QED  BY <1>10, <1>13, <1>14, <1>15 DEF RemindersInv

LEMMA RecoverStaleClaimKeeps ==
  ASSUME RemindersInv, NEW r \in Reminder, RecoverStaleClaim(r)
  PROVE  RemindersInv'
<1> USE RemindersAssumption
<1>0. /\ RemindersTypeOK /\ now \in Time /\ reminder \in [Reminder -> ReminderRow]
      /\ attempt \in [Attempt -> AttemptRow] /\ interrupts \in 0..MaxInterrupts
  BY ReminderFields DEF RemindersInv
<1> DEFINE row == [reminder[r] EXCEPT !.status = "paused"]
<1>1. /\ row \in ReminderRow /\ row.status = "paused" /\ row.next = reminder[r].next
      /\ row.last = reminder[r].last /\ reminder' = [reminder EXCEPT ![r] = row]
  BY <1>0 DEF ReminderRow, RecoverStaleClaim
<1> HIDE DEF row
<1>2. reminder'[r] = row /\ \A s \in Reminder : s # r => reminder'[s] = reminder[s]
  BY <1>0, <1>1
<1>3. /\ attempt' \in [Attempt -> AttemptRow]
      /\ \A b \in Attempt : /\ attempt'[b].of = attempt[b].of /\ attempt'[b].at = attempt[b].at
                            /\ attempt'[b].status \in {attempt[b].status, "unknown"}
                            /\ attempt[b].status = "none" => attempt'[b].status = "none"
  <2>1. attempt' = [b \in Attempt |->
                      IF attempt[b].of = r /\ attempt[b].status = "sending"
                      THEN [attempt[b] EXCEPT !.status = "unknown"] ELSE attempt[b]]
    BY DEF RecoverStaleClaim
  <2>2. ASSUME NEW b \in Attempt
        PROVE  /\ attempt'[b] \in AttemptRow
               /\ attempt'[b].of = attempt[b].of /\ attempt'[b].at = attempt[b].at
               /\ attempt'[b].status \in {attempt[b].status, "unknown"}
               /\ attempt[b].status = "none" => attempt'[b].status = "none"
    <3>1. attempt[b] \in AttemptRow  BY <1>0
    <3>2. CASE attempt[b].of = r /\ attempt[b].status = "sending"
      <4>1. attempt'[b] = [attempt[b] EXCEPT !.status = "unknown"]  BY <2>1, <3>2
      <4> QED  BY <3>1, <3>2, <4>1 DEF AttemptRow
    <3>3. CASE ~(attempt[b].of = r /\ attempt[b].status = "sending")
      <4>1. attempt'[b] = attempt[b]  BY <2>1, <3>3
      <4> QED  BY <3>1, <4>1
    <3> QED  BY <3>2, <3>3
  <2> QED  BY <2>1, <2>2
<1>4. /\ UNCHANGED <<now, frequency, message, named, linked, sender, meta, events, callback>>
      /\ interrupts' \in 0..MaxInterrupts
  BY <1>0 DEF RecoverStaleClaim, messageVars
<1>5. RemindersTypeOK'
  <2>1. reminder' \in [Reminder -> ReminderRow]  BY <1>0, <1>1
  <2> QED  BY <1>0, <1>3, <1>4, <2>1, RemindersTypedNext DEF RemindersTypeOK
<1>6. \A b \in Attempt : AttemptInv(b)' /\ VerdictInv(b)'
  <2> TAKE b \in Attempt
  <2>1. AttemptInv(b) /\ VerdictInv(b)  BY DEF RemindersInv
  <2>2. attempt'[b].status = "sent" => attempt[b].status = "sent"  BY <1>3
  <2>3. AttemptInv(b)'  BY <1>3, <1>4, <2>1, <2>2 DEF AttemptInv
  <2>4. \A s \in Reminder : reminder'[s].status = "sent" =>
          reminder[s].status = "sent" /\ reminder'[s].last = reminder[s].last
    BY <1>1, <1>2
  <2>5. VerdictInv(b)'
    BY <1>3, <1>4, <2>1, <2>2, <2>4, VerdictKept DEF FailedEvent, Attended
  <2> QED  BY <2>3, <2>5
<1>7. \A s \in Reminder : ReminderInv(s)'
  <2> TAKE s \in Reminder
  <2>1. ReminderInv(s)  BY DEF RemindersInv
  <2>2. CASE s # r
    BY <1>2, <1>3, <2>1, <2>2, ReminderKept
  <2>3. CASE s = r
    BY <1>1, <1>2, <2>1, <2>3 DEF ReminderInv, RecoverStaleClaim
  <2> QED  BY <2>2, <2>3
<1>8. \A c \in Callback : CallbackInv(c)'
  BY <1>4 DEF RemindersInv, CallbackInv
<1> QED  BY <1>5, <1>6, <1>7, <1>8 DEF RemindersInv

\* A callback finishes one of its parts.
LEMMA PartFinished ==
  ASSUME RemindersTypeOK, NEW c \in Callback, callback[c] # Nothing, NEW part,
         part \in callback[c].todo, FinishPart(c, part)
  PROVE  /\ callback' \in [Callback -> Work \union {Nothing}]
         /\ \A d \in Callback : d # c => callback'[d] = callback[d]
         /\ callback[c].todo = {part} => callback'[c] = Nothing
         /\ callback[c].todo # {part} =>
              /\ callback'[c] # Nothing /\ callback'[c].about = callback[c].about
              /\ callback'[c].status = callback[c].status
              /\ callback'[c].todo = callback[c].todo \ {part}
<1>0. callback \in [Callback -> Work \union {Nothing}] /\ callback[c] \in Work
  BY ReminderFields DEF RemindersTypeOK
<1>1. CASE callback[c].todo = {part}
  <2>1. callback' = [callback EXCEPT ![c] = Nothing]  BY <1>0, <1>1 DEF FinishPart
  <2> QED  BY <1>0, <1>1, <2>1
<1>2. CASE callback[c].todo # {part}
  <2> DEFINE q == [callback[c] EXCEPT !.todo = callback[c].todo \ {part}]
  <2>1. /\ q \in Work /\ q.about = callback[c].about /\ q.status = callback[c].status
        /\ q.todo = callback[c].todo \ {part}
    BY <1>0 DEF Work
  <2>2. callback' = [callback EXCEPT ![c] = q]
    BY <1>2 DEF FinishPart
  <2> HIDE DEF q
  <2>3. q # Nothing  BY <2>1, WorkAssumption
  <2> QED  BY <1>0, <1>2, <2>1, <2>2, <2>3
<1> QED  BY <1>1, <1>2

\* While it is not the attempt's, no correction is forgotten.
LEMMA StillAttended ==
  ASSUME RemindersTypeOK, NEW c \in Callback, callback[c] # Nothing, NEW part,
         part \in callback[c].todo, FinishPart(c, part), part # "attempt", NEW a, Attended(a)
  PROVE  Attended(a)'
<1>1. PICK d \in Callback : /\ callback[d] # Nothing /\ callback[d].about = a
                            /\ callback[d].status = "failed" /\ "attempt" \in callback[d].todo
  BY DEF Attended
<1>2. CASE d # c
  <2>1. callback'[d] = callback[d]  BY <1>2, PartFinished
  <2> QED  BY <1>1, <2>1 DEF Attended
<1>3. CASE d = c
  <2>1. callback[c].todo # {part}  BY <1>1, <1>3
  <2>2. /\ callback'[c] # Nothing /\ callback'[c].about = callback[c].about
        /\ callback'[c].status = callback[c].status /\ "attempt" \in callback'[c].todo
    BY <1>1, <1>3, <2>1, PartFinished
  <2> QED  BY <1>1, <1>3, <2>2 DEF Attended
<1> QED  BY <1>2, <1>3

LEMMA CallbackFinishes ==
  ASSUME RemindersInv, NEW c \in Callback, callback[c] # Nothing, NEW part,
         part \in callback[c].todo, FinishPart(c, part), UNCHANGED sender,
         part = "attempt" => "event" \notin callback[c].todo
  PROVE  \A d \in Callback : CallbackInv(d)'
<1> TAKE d \in Callback
<1>0. CallbackInv(d) /\ RemindersTypeOK  BY DEF RemindersInv
<1>1. CASE d # c
  <2>1. callback'[d] = callback[d]  BY <1>0, <1>1, PartFinished
  <2> QED  BY <1>0, <2>1 DEF CallbackInv
<1>2. CASE d = c
  <2>1. CASE callback[c].todo = {part}
    <3>1. callback'[c] = Nothing  BY <1>0, <2>1, PartFinished
    <3> QED  BY <1>2, <3>1 DEF CallbackInv
  <2>2. CASE callback[c].todo # {part}
    <3>1. /\ callback'[c] # Nothing /\ callback'[c].about = callback[c].about
          /\ callback'[c].todo = callback[c].todo \ {part}
      BY <1>0, <2>2, PartFinished
    <3> QED  BY <1>0, <1>2, <3>1 DEF CallbackInv
  <2> QED  BY <2>1, <2>2
<1> QED  BY <1>1, <1>2

LEMMA ReceiveKeeps ==
  ASSUME RemindersInv, NEW c \in Callback, NEW a \in Attempt, NEW s \in Status, Receive(c, a, s)
  PROVE  RemindersInv'
<1> DEFINE work == [about |-> a, status |-> s, todo |-> {"message", "event", "attempt"}]
<1>0. /\ RemindersTypeOK /\ callback \in [Callback -> Work \union {Nothing}]
      /\ callback[c] = Nothing /\ callback' = [callback EXCEPT ![c] = work]
      /\ UNCHANGED <<now, frequency, reminder, attempt, message, named, linked, sender, meta,
                     events, interrupts>>
  BY DEF RemindersInv, RemindersTypeOK, Receive, rowVars, messageVars
<1>1. /\ work \in Work /\ work.about = a /\ work.todo = {"message", "event", "attempt"}
  BY DEF Work
<1> HIDE DEF work
<1>2. callback'[c] = work /\ \A d \in Callback : d # c => callback'[d] = callback[d]
  BY <1>0
<1>3. RemindersTypeOK'
  <2>1. callback' \in [Callback -> Work \union {Nothing}]  BY <1>0, <1>1
  <2> QED  BY <1>0, <2>1, RemindersTypedNext DEF RemindersTypeOK
<1>4. sender[a] # "unused"
  <2>1. AttemptInv(a)  BY DEF RemindersInv
  <2> QED  BY <2>1 DEF AttemptInv, Receive, Accepted
<1>5. \A b \in Attempt : AttemptInv(b)' /\ VerdictInv(b)'
  <2> TAKE b \in Attempt
  <2>1. AttemptInv(b) /\ VerdictInv(b)  BY DEF RemindersInv
  <2>2. AttemptInv(b)'  BY <1>0, <2>1 DEF AttemptInv
  <2>3. Attended(b) => Attended(b)'  BY <1>0, <1>2 DEF Attended
  <2>4. VerdictInv(b)'  BY <1>0, <2>1, <2>3, VerdictKept DEF FailedEvent
  <2> QED  BY <2>2, <2>4
<1>6. \A r \in Reminder : ReminderInv(r)'
  BY <1>0 DEF RemindersInv, ReminderInv, Taken
<1>7. \A d \in Callback : CallbackInv(d)'
  <2> TAKE d \in Callback
  <2>1. CallbackInv(d)  BY DEF RemindersInv
  <2> QED  BY <1>0, <1>1, <1>2, <1>4, <2>1 DEF CallbackInv
<1> QED  BY <1>3, <1>5, <1>6, <1>7 DEF RemindersInv

LEMMA UpdateStatusKeeps ==
  ASSUME RemindersInv, NEW c \in Callback, UpdateStatus(c)
  PROVE  RemindersInv'
<1>0. /\ RemindersTypeOK /\ callback[c] # Nothing /\ "message" \in callback[c].todo
      /\ FinishPart(c, "message")
      /\ UNCHANGED <<now, frequency, reminder, attempt, named, linked, sender, meta,
                     events, interrupts>>
  BY DEF RemindersInv, UpdateStatus, rowVars
<1>1. RemindersTypeOK'
  <2>1. callback' \in [Callback -> Work \union {Nothing}]  BY <1>0, PartFinished
  <2>2. message' \in [Attempt -> {"none", "queued", "sent", "delivered", "read", "failed"}]
    <3>1. callback[c].status \in {"sent", "delivered", "read", "failed"}
      BY <1>0, ReminderFields, RemindersAssumption
    <3> QED  BY <1>0, <3>1 DEF RemindersTypeOK, UpdateStatus
  <2> QED  BY <1>0, <2>1, <2>2, RemindersTypedNext DEF RemindersTypeOK
<1>2. \A b \in Attempt : AttemptInv(b)' /\ VerdictInv(b)'
  <2> TAKE b \in Attempt
  <2>1. AttemptInv(b) /\ VerdictInv(b)  BY DEF RemindersInv
  <2>2. AttemptInv(b)'  BY <1>0, <2>1 DEF AttemptInv
  <2>3. Attended(b) => Attended(b)'  BY <1>0, StillAttended
  <2>4. VerdictInv(b)'  BY <1>0, <2>1, <2>3, VerdictKept DEF FailedEvent
  <2> QED  BY <2>2, <2>4
<1>3. \A r \in Reminder : ReminderInv(r)'
  BY <1>0 DEF RemindersInv, ReminderInv, Taken
<1>4. \A d \in Callback : CallbackInv(d)'
  BY <1>0, CallbackFinishes
<1> QED  BY <1>1, <1>2, <1>3, <1>4 DEF RemindersInv

LEMMA RecordEventKeeps ==
  ASSUME RemindersInv, NEW c \in Callback, RecordEvent(c)
  PROVE  RemindersInv'
<1>0. /\ RemindersTypeOK /\ callback[c] # Nothing /\ "event" \in callback[c].todo
      /\ FinishPart(c, "event") /\ CallbackInv(c)
      /\ UNCHANGED <<now, frequency, reminder, attempt, message, named, linked, sender, meta,
                     interrupts>>
  BY DEF RemindersInv, RecordEvent, rowVars, messageVars
<1>1. PICK a \in Attempt : a = callback[c].about  BY <1>0, ReminderFields
<1>2. PICK s \in Status : s = callback[c].status  BY <1>0, ReminderFields
<1>3. events' = [events EXCEPT ![a] = @ \union {s}]  BY <1>1, <1>2 DEF RecordEvent
<1>4. /\ events' \in [Attempt -> SUBSET Status] /\ events'[a] = events[a] \union {s}
      /\ \A b \in Attempt : b # a => events'[b] = events[b]
  BY <1>0, <1>3 DEF RemindersTypeOK
<1>5. RemindersTypeOK'
  <2>1. callback' \in [Callback -> Work \union {Nothing}]  BY <1>0, PartFinished
  <2> QED  BY <1>0, <1>4, <2>1, RemindersTypedNext DEF RemindersTypeOK
<1>6. sender[a] # "unused" /\ "attempt" \in callback[c].todo
  BY <1>0, <1>1 DEF CallbackInv
<1>7. FailedEvent(a)' => FailedEvent(a) \/ Attended(a)'
  <2>1. CASE s = "failed"
    <3>1. Attended(a)  BY <1>0, <1>1, <1>2, <1>6, <2>1 DEF Attended
    <3> QED  BY <1>0, <3>1, StillAttended
  <2>2. CASE s # "failed"
    BY <1>4, <2>2 DEF FailedEvent
  <2> QED  BY <2>1, <2>2
<1>8. \A b \in Attempt : AttemptInv(b)' /\ VerdictInv(b)'
  <2> TAKE b \in Attempt
  <2>1. AttemptInv(b) /\ VerdictInv(b)  BY DEF RemindersInv
  <2>2. AttemptInv(b)'
    <3>1. b = a \/ events'[b] = events[b]  BY <1>4
    <3> QED  BY <1>0, <1>6, <2>1, <3>1 DEF AttemptInv
  <2>3. Attended(b) => Attended(b)'  BY <1>0, StillAttended
  <2>4. FailedEvent(b)' => FailedEvent(b) \/ Attended(b)'
    <3>1. CASE b = a
      BY <1>7, <3>1
    <3>2. CASE b # a
      BY <1>4, <3>2 DEF FailedEvent
    <3> QED  BY <3>1, <3>2
  <2>5. \A r \in Reminder : Overtaken(r)' <=> Overtaken(r)  BY <1>0 DEF Overtaken
  <2>6. VerdictInv(b)'  BY <1>0, <2>1, <2>3, <2>4, <2>5 DEF VerdictInv
  <2> QED  BY <2>2, <2>6
<1>9. \A r \in Reminder : ReminderInv(r)'
  BY <1>0 DEF RemindersInv, ReminderInv, Taken
<1>10. \A d \in Callback : CallbackInv(d)'
  BY <1>0, CallbackFinishes
<1> QED  BY <1>5, <1>8, <1>9, <1>10 DEF RemindersInv

LEMMA RecordDeliveryKeeps ==
  ASSUME RemindersInv, NEW c \in Callback, RecordDelivery(c)
  PROVE  RemindersInv'
<1>0. /\ RemindersTypeOK /\ callback[c] # Nothing /\ "attempt" \in callback[c].todo
      /\ "event" \notin callback[c].todo /\ FinishPart(c, "attempt") /\ CallbackInv(c)
      /\ UNCHANGED <<now, frequency, message, named, sender, meta, events, interrupts>>
      /\ reminder \in [Reminder -> ReminderRow] /\ attempt \in [Attempt -> AttemptRow]
  BY ReminderFields DEF RemindersInv, RecordDelivery
<1>1. PICK a \in Attempt : a = callback[c].about  BY <1>0, ReminderFields
<1>2. AttemptInv(a) /\ sender[a] # "unused"  BY <1>0, <1>1 DEF RemindersInv, CallbackInv
<1>3. PICK r \in Reminder : r = attempt[a].of  BY <1>2 DEF AttemptInv
<1> DEFINE failed == Known(a) /\ callback[c].status = "failed"
           final == frequency[r] = "once" /\ reminder[r].status = "sent" /\ reminder[r].last = a
<1>4. /\ linked' = IF Known(a) THEN linked \union {a} ELSE linked
      /\ attempt' = IF failed THEN [attempt EXCEPT ![a].status = "failed"] ELSE attempt
      /\ reminder' = IF failed /\ final THEN [reminder EXCEPT ![r].status = "failed"] ELSE reminder
  BY <1>1, <1>3 DEF RecordDelivery
<1>5. /\ attempt' \in [Attempt -> AttemptRow]
      /\ \A b \in Attempt : /\ attempt'[b].of = attempt[b].of /\ attempt'[b].at = attempt[b].at
                            /\ b # a => attempt'[b] = attempt[b]
                            /\ attempt'[b].status = "sent" => attempt[b].status = "sent"
      /\ failed => attempt'[a].status = "failed"
  BY <1>0, <1>4 DEF AttemptRow
<1>6. /\ reminder' \in [Reminder -> ReminderRow]
      /\ \A s \in Reminder : /\ reminder'[s].last = reminder[s].last
                             /\ s # r => reminder'[s] = reminder[s]
                             /\ reminder'[s].status = "sent" => reminder[s].status = "sent"
                             /\ reminder'[s] = reminder[s] \/ reminder'[s].status = "failed"
      /\ failed /\ final => reminder'[r].status = "failed"
  BY <1>0, <1>4 DEF ReminderRow
<1> HIDE DEF failed, final
<1>7. RemindersTypeOK'
  <2>1. callback' \in [Callback -> Work \union {Nothing}]  BY <1>0, PartFinished
  <2>2. linked' \subseteq Attempt  BY <1>0, <1>4 DEF RemindersTypeOK
  <2> QED  BY <1>0, <1>5, <1>6, <2>1, <2>2, RemindersTypedNext DEF RemindersTypeOK
<1>8. \A s \in Reminder : Overtaken(s)' <=> Overtaken(s)  BY <1>5, <1>6 DEF Overtaken
<1>9. \A b \in Attempt : Attended(b) => Attended(b)' \/ (b = a /\ callback[c].status = "failed")
  <2> TAKE b \in Attempt
  <2> HAVE Attended(b)
  <2>1. PICK d \in Callback : /\ callback[d] # Nothing /\ callback[d].about = b
                              /\ callback[d].status = "failed" /\ "attempt" \in callback[d].todo
    BY DEF Attended
  <2>2. CASE d = c
    BY <1>1, <2>1, <2>2
  <2>3. CASE d # c
    <3>1. callback'[d] = callback[d]  BY <1>0, <2>3, PartFinished
    <3> QED  BY <2>1, <3>1 DEF Attended
  <2> QED  BY <2>2, <2>3
<1>10. \A b \in Attempt : AttemptInv(b)' /\ VerdictInv(b)'
  <2> TAKE b \in Attempt
  <2>1. AttemptInv(b) /\ VerdictInv(b)  BY DEF RemindersInv
  <2>2. AttemptInv(b)'
    <3>1. b = a \/ attempt'[b] = attempt[b]  BY <1>5
    <3> QED  BY <1>0, <1>2, <1>5, <2>1, <3>1 DEF AttemptInv
  <2>3. FailedEvent(b)' <=> FailedEvent(b)  BY <1>0 DEF FailedEvent
  <2>4. FailedEvent(b)' /\ attempt'[b].status = "sent" => Attended(b)'
    <3> SUFFICES ASSUME FailedEvent(b), attempt'[b].status = "sent", ~Attended(b)' PROVE FALSE
      BY <2>3
    <3>1. Attended(b) /\ attempt[b].status = "sent"  BY <1>5, <2>1 DEF VerdictInv
    <3>2. b = a /\ callback[c].status = "failed"  BY <1>9, <3>1
    <3>3. a \in named  BY <1>2, <3>1, <3>2 DEF AttemptInv
    <3>4. failed  BY <3>2, <3>3 DEF failed, Known
    <3> QED  BY <1>5, <3>2, <3>4
  <2>5. ASSUME NEW s \in Reminder, attempt'[b].of = s, frequency'[s] = "once", ~Overtaken(s)',
               reminder'[s].status = "sent"
        PROVE  b \in named' /\ (FailedEvent(b)' => Attended(b)')
    <3>1. /\ attempt[b].of = s /\ frequency[s] = "once" /\ ~Overtaken(s)
          /\ reminder[s].status = "sent"
      BY <1>0, <1>5, <1>6, <1>8, <2>5
    <3>2. b \in named /\ (FailedEvent(b) => Attended(b))  BY <2>1, <3>1 DEF VerdictInv
    <3>3. ASSUME FailedEvent(b), ~Attended(b)'  PROVE FALSE
      <4>1. b = a /\ callback[c].status = "failed"  BY <1>9, <3>2, <3>3
      <4>2. failed  BY <3>2, <4>1 DEF failed, Known
      <4>3. s = r /\ reminder[r].last = a  BY <1>3, <3>1, <4>1 DEF Overtaken
      <4>4. final  BY <3>1, <4>3 DEF final
      <4> QED  BY <1>6, <2>5, <4>2, <4>3, <4>4
    <3> QED  BY <1>0, <2>3, <3>2, <3>3
  <2> QED  BY <2>2, <2>4, <2>5 DEF VerdictInv
<1>11. \A s \in Reminder : ReminderInv(s)'
  <2> TAKE s \in Reminder
  <2>1. ReminderInv(s)  BY DEF RemindersInv
  <2>2. CASE reminder'[s] = reminder[s]
    BY <1>5, <2>1, <2>2, ReminderKept
  <2>3. CASE reminder'[s].status = "failed"
    BY <2>3 DEF ReminderInv
  <2> QED  BY <1>6, <2>2, <2>3
<1>12. \A d \in Callback : CallbackInv(d)'
  BY <1>0, CallbackFinishes
<1> QED  BY <1>7, <1>10, <1>11, <1>12 DEF RemindersInv

\* No waiting reminder is due at a time attempted, and what says "sent" in spite of a failed
\* delivery is about to be corrected.
THEOREM RemindersInvariance == RemindersSpec => []RemindersInv
<1>1. RemindersInit => RemindersInv
  BY RemindersStart
<1>2. RemindersInv /\ [RemindersNext]_reminderVars => RemindersInv'
  <2> SUFFICES ASSUME RemindersInv, [RemindersNext]_reminderVars PROVE RemindersInv'
    OBVIOUS
  <2>1. CASE PassTime
    BY <2>1, PassTimeKeeps
  <2>2. ASSUME NEW r \in Reminder, OwnerStep(r) \/ ClaimNextDue(r) \/ RecoverStaleClaim(r)
        PROVE  RemindersInv'
    BY <2>2, OwnerOfReminderKeeps, ClaimNextDueKeeps, RecoverStaleClaimKeeps
  <2>3. ASSUME NEW a \in Attempt, SenderStep(a) \/ Abandon(a)  PROVE RemindersInv'
    BY <2>3, SenderOnlyKeeps, CompleteAttemptKeeps DEF SenderStep
  <2>4. ASSUME NEW c \in Callback, NEW a \in Attempt, NEW s \in Status, Receive(c, a, s)
        PROVE  RemindersInv'
    BY <2>4, ReceiveKeeps
  <2>5. ASSUME NEW c \in Callback, CallbackStep(c)  PROVE RemindersInv'
    BY <2>5, UpdateStatusKeeps, RecordEventKeeps, RecordDeliveryKeeps DEF CallbackStep
  <2>6. CASE UNCHANGED reminderVars
    <3>1. RemindersTypeOK'
      BY <2>6 DEF reminderVars, rowVars, messageVars, RemindersInv, RemindersTypeOK
    <3>2. \A a \in Attempt : AttemptInv(a)' /\ VerdictInv(a)'
      BY <2>6 DEF reminderVars, rowVars, messageVars, RemindersInv, AttemptInv, VerdictInv,
                  FailedEvent, Attended, Overtaken
    <3>3. \A r \in Reminder : ReminderInv(r)'
      BY <2>6 DEF reminderVars, rowVars, RemindersInv, ReminderInv, Taken
    <3>4. \A c \in Callback : CallbackInv(c)'
      BY <2>6 DEF reminderVars, RemindersInv, CallbackInv
    <3> QED  BY <3>1, <3>2, <3>3, <3>4 DEF RemindersInv
  <2> QED  BY <2>1, <2>2, <2>3, <2>4, <2>5, <2>6 DEF RemindersNext
<1> QED  BY <1>1, <1>2, PTL DEF RemindersSpec

\* OccurrenceUntaken: the time a waiting reminder is scheduled for was never attempted.
THEOREM RemindersStayDue == Spec => []OccurrenceUntaken
<1>1. RemindersInv => OccurrenceUntaken
  BY DEF RemindersInv, ReminderInv, OccurrenceUntaken
<1> QED  BY <1>1, RemindersInvariance, ServicesAreThemselves, PTL

\* FailureDecides: a failed delivery, once handled, decides the attempt and its reminder.
THEOREM FailuresDecide == Spec => []FailureDecides
<1>1. RemindersInv => FailureDecides
  <2> SUFFICES ASSUME RemindersInv, NEW a \in Attempt, "failed" \in events[a],
                      ~Handling(a, "failed")
               PROVE  /\ attempt[a].status # "sent"
                      /\ LET r == attempt[a].of IN
                           frequency[r] = "once" /\ ~Overtaken(r) => reminder[r].status # "sent"
    BY DEF FailureDecides
  <2>1. AttemptInv(a) /\ VerdictInv(a) /\ FailedEvent(a)  BY DEF RemindersInv, FailedEvent
  <2>2. ~Attended(a)  BY DEF Attended, Handling
  <2>3. attempt[a].of \in Reminder
    <3>1. events[a] # {}  OBVIOUS
    <3> QED  BY <2>1, <3>1 DEF AttemptInv
  <2> QED  BY <2>1, <2>2, <2>3 DEF VerdictInv
<1> QED  BY <1>1, RemindersInvariance, ServicesAreThemselves, PTL
-----------------------------------------------------------------------------
\* An action of a run takes effect at most once, and only one delivery of an event does.
THEOREM FlowsWriteOnce == Spec => []WrittenOnce
BY WritesAreOnce, ServicesAreThemselves, PTL

\* A settled run tells the truth about its writes.
THEOREM FlowsTellTheTruth == Spec => []SettledRunsAreCertain
BY SettledIsTrue, ServicesAreThemselves, PTL

GateSet == [shut : BOOLEAN, valid : BOOLEAN, overtaken : BOOLEAN]
BullSet == [paused : BOOLEAN, looping : BOOLEAN]

LEMMA GateMoves ==
  ASSUME GateTypeOK
  PROVE  /\ ShutGate \in GateSet /\ OpenGate \in GateSet
         /\ [gate EXCEPT !.overtaken = FALSE] \in GateSet
         /\ [gate EXCEPT !.shut = FALSE] \in GateSet /\ [gate EXCEPT !.valid = FALSE] \in GateSet
         /\ Paused \in BullSet /\ Resumed \in BullSet
         /\ [bull EXCEPT !.looping = FALSE] \in BullSet
         /\ gate \in GateSet /\ bull \in BullSet
BY DEF GateTypeOK, GateSet, BullSet, ShutGate, OpenGate, Paused, Resumed

LEMMA GateTypedNext ==
  ASSUME database' \in {"up", "down"}, outages' \in 0..MaxOutages, gate' \in GateSet,
         bull' \in BullSet, inspection' \in {"due", "probing", "good", "bad", "stopped"},
         active' \in 0..MaxActive, hit' \in 0..MaxActive
  PROVE  GateTypeOK'
BY Zenon DEF GateTypeOK, GateSet, BullSet

\* No more jobs are in execution, or failed and not reported, than the worker takes.
GateInv == GateTypeOK /\ active + hit <= MaxActive

LEMMA GateInvariance == GateSpec => []GateInv
<1> USE GateAssumption
<1>1. GateInit => GateInv
  BY DEF GateInit, GateInv, GateTypeOK
<1>2. GateInv /\ [GateNext]_gateVars => GateInv'
  <2> SUFFICES ASSUME GateInv, [GateNext]_gateVars PROVE GateInv'
    OBVIOUS
  <2>0. /\ database \in {"up", "down"} /\ outages \in 0..MaxOutages
        /\ inspection \in {"due", "probing", "good", "bad", "stopped"}
        /\ active \in 0..MaxActive /\ hit \in 0..MaxActive /\ active + hit <= MaxActive
        /\ GateTypeOK
    BY DEF GateInv, GateTypeOK
  <2>1. /\ gate' \in GateSet /\ bull' \in BullSet
    <3>1. CASE InspectWithoutProbe \/ BeginProbe \/ TakeJob \/ JobEnds
      BY <2>0, <3>1, GateMoves DEF InspectWithoutProbe, BeginProbe, TakeJob, JobEnds
    <3>2. CASE AnswerProbe \/ ProbeSucceeds \/ ProbeFails \/ DelayEnds \/ ValidityEnds
      BY <2>0, <3>2, GateMoves DEF AnswerProbe, ProbeSucceeds, ProbeFails, DelayEnds, ValidityEnds
    <3>3. CASE ReportFailure \/ LoopEnds \/ LoopBreaks
      BY <2>0, <3>3, GateMoves DEF ReportFailure, LoopEnds, LoopBreaks
    <3>4. CASE BreakDatabase \/ RestoreDatabase \/ Close \/ UNCHANGED gateVars
      BY <2>0, <3>4, GateMoves DEF BreakDatabase, RestoreDatabase, Close, gateVars
    <3> QED  BY <3>1, <3>2, <3>3, <3>4 DEF GateNext, Inspect, WorkerStep
  <2>2. active' \in 0..MaxActive /\ hit' \in 0..MaxActive /\ active' + hit' <= MaxActive
    <3>1. CASE InspectWithoutProbe \/ BeginProbe \/ AnswerProbe \/ ProbeSucceeds \/ ProbeFails \/ DelayEnds
               \/ ValidityEnds \/ LoopEnds \/ LoopBreaks \/ BreakDatabase \/ RestoreDatabase \/ Close
               \/ UNCHANGED gateVars
      BY <2>0, <3>1 DEF InspectWithoutProbe, BeginProbe, AnswerProbe, ProbeSucceeds, ProbeFails, DelayEnds,
         ValidityEnds, LoopEnds, LoopBreaks, BreakDatabase, RestoreDatabase, Close, gateVars
    <3>2. CASE TakeJob
      BY <2>0, <3>2 DEF TakeJob
    <3>3. CASE ReportFailure
      BY <2>0, <3>3 DEF ReportFailure
    <3>4. CASE JobEnds
      BY <2>0, <3>4 DEF JobEnds
    <3> QED  BY <3>1, <3>2, <3>3, <3>4 DEF GateNext, Inspect, WorkerStep
  <2>3. /\ database' \in {"up", "down"} /\ outages' \in 0..MaxOutages
        /\ inspection' \in {"due", "probing", "good", "bad", "stopped"}
    BY <2>0 DEF GateNext, Inspect, WorkerStep, InspectWithoutProbe, BeginProbe, AnswerProbe, ProbeSucceeds,
       ProbeFails, DelayEnds, ValidityEnds, TakeJob, JobEnds, ReportFailure, LoopEnds, LoopBreaks,
       BreakDatabase, RestoreDatabase, Close, gateVars
  <2> QED  BY <2>1, <2>2, <2>3, GateTypedNext DEF GateInv
<1> QED  BY <1>1, <1>2, PTL DEF GateSpec

\* TypeOK: every service keeps its rows, queues and processes well-formed.
THEOREM ServicesTypeCorrect == Spec => []TypeOK
<1>1. Spec => [](service \in Services)
  <2>1. Init => service \in Services  BY DEF Init
  <2>2. service \in Services /\ [Next]_serviceVars => (service \in Services)'
    BY DEF Next, serviceVars
  <2> QED  BY <2>1, <2>2, PTL DEF Spec
<1>2. RemindersInv => RemindersTypeOK  BY DEF RemindersInv
<1>3. OnboardingInv => OnboardingTypeOK  BY DEF OnboardingInv
<1>4. ImportInv => ImportTypeOK  BY DEF ImportInv
<1>5. AutomationInv => AutomationTypeOK  BY DEF AutomationInv
<1>6. ASSUME service \in Services, RemindersTypeOK, BulkTypeOK, ShopifyTypeOK, OnboardingTypeOK,
             ImportTypeOK, GateTypeOK, AutomationTypeOK
      PROVE  TypeOK
  BY <1>6 DEF TypeOK
<1>7. GateInv => GateTypeOK  BY DEF GateInv
<1> QED
  BY <1>1, <1>2, <1>3, <1>4, <1>5, <1>6, <1>7, RemindersInvariance, BulkTypeCorrect, ShopifyTypeCorrect,
     OnboardingInvariance, ImportInvariance, GateInvariance, AutomationInvariance,
     ServicesAreThemselves, PTL
=============================================================================
