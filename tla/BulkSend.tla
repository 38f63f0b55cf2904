------------------------------ MODULE BulkSend ------------------------------
(***************************************************************************)
(* One bulk-message-send job: a worker sends the recipients batch by       *)
(* batch, a few at a time, and checkpoints each finished batch in the job. *)
(* A draining worker yields the job to another one at a batch boundary; a  *)
(* worker that crashes or loses its BullMQ lock leaves a stalled job.      *)
(***************************************************************************)
EXTENDS Integers, FiniteSets

CONSTANTS
  Total,         \* recipients of the job
  BatchSize, MaxParallel,
  Worker,        \* worker processes
  MaxTroubles    \* drains, crashes, lost locks and database failures

ASSUME BulkAssumption ==
  Total \in Nat \ {0} /\ BatchSize \in Nat \ {0} /\ MaxParallel \in Nat \ {0} /\ MaxTroubles \in Nat

Recipient == 1..Total

VARIABLES
  job,        \* the BullMQ job: its state, lock holder and data
  worker,     \* what each worker process does with it
  draining,   \* workers asked to shut down
  calls,      \* Meta calls made for each recipient
  accepted,   \* recipients whose call was reported as a success
  refused,    \* recipients whose send failed before any call was made
  troubles

bulkVars == <<job, worker, draining, calls, accepted, refused, troubles>>

Idle == [step |-> "idle", batch |-> 0, next |-> 0, chunk |-> {}, good |-> 0, lost |-> FALSE]

BulkTypeOK ==
  /\ job \in [state : {"waiting", "active", "delayed", "completed", "failed"},
              locked : SUBSET Worker, nextIndex : 0..Total, successful : 0..Total]
  /\ worker \in [Worker -> [step : {"idle", "batch", "chunk", "saved"}, batch : 0..Total,
                            next : 0..Total, chunk : SUBSET Recipient, good : 0..Total,
                            lost : BOOLEAN]]
  /\ draining \subseteq Worker
  /\ calls \in [Recipient -> 0..2]
  /\ accepted \subseteq Recipient /\ refused \subseteq Recipient
  /\ troubles \in 0..MaxTroubles

BulkInit ==
  /\ job = [state |-> "waiting", locked |-> {}, nextIndex |-> 0, successful |-> 0]
  /\ worker = [w \in Worker |-> Idle]
  /\ draining = {}
  /\ calls = [m \in Recipient |-> 0]
  /\ accepted = {} /\ refused = {}
  /\ troubles = 0

Least(a, b) == IF a < b THEN a ELSE b
BatchEnd(w) == Least(worker[w].batch + BatchSize, Total)

\* A worker takes the job up at its checkpoint, with the results saved there.
Take(w) ==
  /\ job.state \in {"waiting", "delayed"} /\ worker[w].step = "idle" /\ w \notin draining
  /\ job' = [job EXCEPT !.state = "active", !.locked = {w}]
  /\ worker' = [worker EXCEPT ![w] = [Idle EXCEPT !.step = "batch", !.batch = job.nextIndex,
                                        !.next = job.nextIndex, !.good = job.successful]]
  /\ UNCHANGED <<draining, calls, accepted, refused, troubles>>

Leave(w) == worker' = [worker EXCEPT ![w] = Idle]

\* BullMQ changes the job's state only for the worker that holds its lock.
MoveJob(w, state) ==
  job' = IF w \in job.locked THEN [job EXCEPT !.state = state, !.locked = {}] ELSE job

\* A worker told to shut down yields before a batch and after a checkpoint, never in between.
Yield(w) ==
  /\ worker[w].step \in {"batch", "saved"} /\ worker[w].next = worker[w].batch
  /\ worker[w].batch < Total
  /\ w \in draining
  /\ MoveJob(w, "delayed")
  /\ Leave(w)
  /\ UNCHANGED <<draining, calls, accepted, refused, troubles>>

StartBatch(w) ==
  /\ worker[w].step = "saved" /\ worker[w].batch < Total /\ w \notin draining
  /\ worker' = [worker EXCEPT ![w].step = "batch"]
  /\ UNCHANGED <<job, draining, calls, accepted, refused, troubles>>

StartChunk(w) ==
  LET first == worker[w].next + 1
      last == Least(worker[w].next + MaxParallel, BatchEnd(w))
  IN
  /\ worker[w].step = "batch" /\ first <= last
  /\ worker[w].next = worker[w].batch => w \notin draining
  /\ worker' = [worker EXCEPT ![w].step = "chunk", ![w].next = last, ![w].chunk = first..last]
  /\ UNCHANGED <<job, draining, calls, accepted, refused, troubles>>

\* An unknown or inactive sender, an invalid number, an inactive account: the send fails
\* before Meta is called.
RefuseSend(m) == refused' = refused \union {m} /\ calls' = calls

\* One send of the chunk settles: accepted, failed after the call or refused before it, all
\* counted; or lost with the database, before or after the call was made.
Settle(w, m) ==
  /\ worker[w].step = "chunk" /\ m \in worker[w].chunk
  /\ \/ /\ calls' = [calls EXCEPT ![m] = Least(@ + 1, 2)]
        /\ \/ /\ accepted' = accepted \union {m}
              /\ worker' = [worker EXCEPT ![w].chunk = @ \ {m}, ![w].good = Least(@ + 1, Total)]
           \/ /\ accepted' = accepted
              /\ worker' = [worker EXCEPT ![w].chunk = @ \ {m}]
        /\ UNCHANGED <<refused, troubles>>
     \/ /\ RefuseSend(m)
        /\ worker' = [worker EXCEPT ![w].chunk = @ \ {m}]
        /\ UNCHANGED <<accepted, troubles>>
     \/ /\ troubles < MaxTroubles /\ troubles' = troubles + 1
        /\ \E n \in 0..1 : calls' = [calls EXCEPT ![m] = Least(@ + n, 2)]
        /\ worker' = [worker EXCEPT ![w].chunk = @ \ {m}, ![w].lost = TRUE]
        /\ UNCHANGED <<accepted, refused>>
  /\ UNCHANGED <<job, draining>>

\* All sends of the chunk settled: a lost database fails the whole job, which is not replayed.
EndChunk(w) ==
  /\ worker[w].step = "chunk" /\ worker[w].chunk = {}
  /\ IF worker[w].lost
     THEN MoveJob(w, "failed") /\ Leave(w)
     ELSE job' = job /\ worker' = [worker EXCEPT ![w].step = "batch"]
  /\ UNCHANGED <<draining, calls, accepted, refused, troubles>>

\* The checkpoint is written whether or not the lock is still held.
Checkpoint(w) ==
  /\ worker[w].step = "batch" /\ worker[w].next = BatchEnd(w)
  /\ worker[w].next > worker[w].batch
  /\ job' = [job EXCEPT !.nextIndex = worker[w].next, !.successful = worker[w].good]
  /\ worker' = [worker EXCEPT ![w].step = "saved", ![w].batch = worker[w].next]
  /\ UNCHANGED <<draining, calls, accepted, refused, troubles>>

FinishSending(w) ==
  /\ worker[w].step \in {"batch", "saved"} /\ worker[w].batch = Total
  /\ MoveJob(w, "completed")
  /\ Leave(w)
  /\ UNCHANGED <<draining, calls, accepted, refused, troubles>>

Trouble == troubles < MaxTroubles /\ troubles' = troubles + 1

Drain(w) ==
  /\ Trouble
  /\ w \notin draining
  /\ draining' = draining \union {w}
  /\ UNCHANGED <<job, worker, calls, accepted, refused>>

\* The drained or crashed process is replaced by a new one.
Restart(w) ==
  /\ w \in draining /\ worker[w].step = "idle"
  /\ draining' = draining \ {w}
  /\ UNCHANGED <<job, worker, calls, accepted, refused, troubles>>

Crash(w) ==
  /\ Trouble
  /\ worker[w].step # "idle"
  /\ Leave(w)
  /\ job' = [job EXCEPT !.locked = @ \ {w}]
  /\ UNCHANGED <<draining, calls, accepted, refused>>

\* The worker could not renew its lock in time, and goes on unaware.
LoseLock(w) ==
  /\ Trouble
  /\ w \in job.locked
  /\ job' = [job EXCEPT !.locked = {}]
  /\ UNCHANGED <<worker, draining, calls, accepted, refused>>

\* Mutant: BullMQ's default, a stalled job is run again.
RunAgainAfterStall == "waiting"

\* maxStalledCount is 0: a job found active without a lock has failed.
AfterStall == "failed"

FindStalled ==
  /\ job.state = "active" /\ job.locked = {}
  /\ job' = [job EXCEPT !.state = AfterStall]
  /\ UNCHANGED <<worker, draining, calls, accepted, refused, troubles>>

BulkStep(w) ==
  \/ Take(w) \/ Yield(w) \/ StartBatch(w) \/ StartChunk(w) \/ EndChunk(w) \/ Checkpoint(w)
  \/ FinishSending(w) \/ Restart(w)
  \/ \E m \in Recipient : Settle(w, m)

BulkNext ==
  \/ \E w \in Worker : BulkStep(w) \/ Drain(w) \/ Crash(w) \/ LoseLock(w)
  \/ FindStalled

BulkSpec == BulkInit /\ [][BulkNext]_bulkVars
-----------------------------------------------------------------------------
(***************************************************************************)
(* Properties.                                                             *)
(***************************************************************************)
\* The sends made to a recipient: called, or refused before a call.
Attempts(m) == IF m \in refused THEN calls[m] + 1 ELSE calls[m]

\* Whatever is drained, crashes or stalls, no recipient is sent to twice, neither called
\* again nor called after a refusal; and a job that completed called every recipient or
\* was refused the call, and reports as many successes as there were.
BulkSendsOnce ==
  /\ \A m \in Recipient : Attempts(m) <= 1
  /\ job.state = "completed" => /\ \A m \in Recipient : Attempts(m) = 1
                                /\ job.successful = Cardinality(accepted)
=============================================================================
