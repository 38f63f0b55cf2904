---------------------------- MODULE CampaignSend ----------------------------
(***************************************************************************)
(* The recipients of one campaign and every way its code sends to them:    *)
(* the campaign-execution workers (queues/processors/                      *)
(* campaignExecution.processor.ts) and the API's test send                 *)
(* (CampaignService.testCampaign), both through MessageService.sendMessage.*)
(*                                                                         *)
(* A "send" is one call of sendCampaignMessage or testCampaign; it is      *)
(* named by its caller and its campaign_messages row (NoRow for a test     *)
(* send), and its name is also the id of the messages row it inserts       *)
(* (messageUUID).  Between two awaits of a send everything else may        *)
(* happen: other sends, a crash, the expiry of the execution lock, a late  *)
(* answer of Meta.  Whether the campaign's job runs at all is left open:   *)
(* a worker may pick it up whenever the lock is free (CampaignLifecycle    *)
(* models the job and the campaign's status).                              *)
(***************************************************************************)
EXTENDS Naturals, FiniteSets

CONSTANTS
  Worker,            \* executions of the campaign job
  Tester,            \* test sends made through the API
  Row,               \* campaign_messages rows of the campaign
  Phone,             \* normalized recipient numbers
  phoneOf,           \* the number a row's contact resolves to
  testPhone,         \* the number a test send is made to
  NoRow,             \* the row of a test send
  NoOwner,           \* value of a free execution lock
  NoMessage,         \* NULL in campaign_messages.message_id
  BatchSize,         \* capacitySampler.sample()
  MessageConcurrency,\* campaignCapacity.messageConcurrency
  LeaseCanLapse,     \* may a live worker lose its lock (paused process, slow Redis)?
  CleanupRuns        \* does an administrator delete old messages (POST /admin/cleanup)?

Send == (Worker \X Row) \cup (Tester \X {NoRow})

ASSUME CallersAssumption ==
  /\ NoRow \notin Row
  /\ NoOwner \notin Worker
  /\ NoMessage \notin Send
ASSUME RowsAssumption == IsFiniteSet(Row)
ASSUME PhonesAssumption == /\ phoneOf \in [Row -> Phone]
                           /\ testPhone \in [Tester -> Phone]
ASSUME CapacityAssumption == /\ BatchSize \in Nat \ {0}
                             /\ MessageConcurrency \in Nat \ {0}
                             /\ LeaseCanLapse \in BOOLEAN
                             /\ CleanupRuns \in BOOLEAN

VARIABLES
  row,         \* campaign_messages: status, message_id, whether retry_after is ahead
  msg,         \* messages: the outbound row a send inserted, "none" before
  sent_count,  \* campaigns.sent_count
  failed_count,\* campaigns.failed_count
  lock,        \* Redis key campaign-execution-lock:<campaign>
  exec,        \* where each worker is in processCampaignExecution
  lockLost,    \* the worker's lockLost flag
  batch,       \* rows the worker selected and has not started yet
  phase,       \* where each send is
  calls,       \* requests made to Meta, per number
  inflight,    \* requests Meta has received and not decided
  accepted     \* requests Meta accepted

db == <<row, msg, sent_count, failed_count>>
worker == <<lock, exec, lockLost, batch>>
meta == <<calls, inflight, accepted>>
vars == <<row, msg, sent_count, failed_count, lock, exec, lockLost, batch,
          phase, calls, inflight, accepted>>
-----------------------------------------------------------------------------
RowStatus == {"pending", "failed", "sent", "skipped"}
RowState == [status : RowStatus, message : Send \cup {NoMessage},
             retry : {"none", "later"}]

MessageStatus == {"none", "queued", "sent", "failed"}

Phase == {"none", "preflight", "invalid", "permit", "claim", "reserved", "created",
          "called", "answered", "refused", "confirmed", "failing", "skipping",
          "counting", "done", "infrastructure"}

\* The send holds the durable claim of its row (attemptReserved).
Reserved == {"reserved", "created", "called", "answered", "refused", "confirmed",
             "failing", "skipping"}
\* The send has inserted its outbound row and not yet left sendMessage's try block.
Messaged == {"created", "called", "answered", "refused", "confirmed"}
Settled == {"none", "done", "infrastructure"}

TypeOK ==
  /\ row \in [Row -> RowState]
  /\ msg \in [Send -> MessageStatus]
  /\ sent_count \in Nat
  /\ failed_count \in Nat
  /\ lock \in Worker \cup {NoOwner}
  /\ exec \in [Worker -> {"idle", "selecting", "sending"}]
  /\ lockLost \in [Worker -> BOOLEAN]
  /\ batch \in [Worker -> SUBSET Row]
  /\ phase \in [Send -> Phase]
  /\ calls \in [Phone -> Nat]
  /\ inflight \subseteq Send
  /\ accepted \subseteq Send

Target(s) == IF s[2] = NoRow THEN testPhone[s[1]] ELSE phoneOf[s[2]]

IsWorkerSend(s) == s[2] # NoRow

Init ==
  /\ row = [r \in Row |-> [status |-> "pending", message |-> NoMessage, retry |-> "none"]]
  /\ msg = [s \in Send |-> "none"]
  /\ sent_count = 0
  /\ failed_count = 0
  /\ lock = NoOwner
  /\ exec = [w \in Worker |-> "idle"]
  /\ lockLost = [w \in Worker |-> FALSE]
  /\ batch = [w \in Worker |-> {}]
  /\ phase = [s \in Send |-> "none"]
  /\ calls = [p \in Phone |-> 0]
  /\ inflight = {}
  /\ accepted = {}
-----------------------------------------------------------------------------
(***************************************************************************)
(* The execution loop of a worker.                                         *)
(***************************************************************************)
Goto(s, p) == phase' = [phase EXCEPT ![s] = p]

\* SET NX: a lock of a dead execution keeps everybody out until it expires.
AcquireLock(w) ==
  /\ exec[w] = "idle"
  /\ lock = NoOwner
  /\ lock' = w
  /\ exec' = [exec EXCEPT ![w] = "selecting"]
  /\ lockLost' = [lockLost EXCEPT ![w] = FALSE]
  /\ UNCHANGED <<db, batch, phase, meta>>

\* The finally block: DEL only while the key still holds this execution's owner id.
Leave(w) ==
  /\ lock' = IF lock = w THEN NoOwner ELSE lock
  /\ exec' = [exec EXCEPT ![w] = "idle"]
  /\ lockLost' = [lockLost EXCEPT ![w] = FALSE]
  /\ batch' = [batch EXCEPT ![w] = {}]
  /\ phase' = [s \in Send |-> IF s[1] = w THEN "none" ELSE phase[s]]

\* Mutant of Ready: getPendingMessages without the status.
ReadyWhateverItsStatus == {r \in Row : row[r].retry = "none"}

Ready == {r \in Row : row[r].status = "pending" /\ row[r].retry = "none"}

\* getPendingMessages: as many ready rows as the batch takes.
SelectBatch(w) ==
  /\ exec[w] = "selecting"
  /\ Ready # {}
  /\ \E b \in SUBSET Ready :
       /\ Cardinality(b) = BatchSize \/ (b = Ready /\ Cardinality(b) < BatchSize)
       /\ batch' = [batch EXCEPT ![w] = b]
  /\ exec' = [exec EXCEPT ![w] = "sending"]
  /\ UNCHANGED <<db, lock, lockLost, phase, meta>>

ChunkSettled(w) == \A r \in Row : phase[<<w, r>>] \in Settled
ChunkFailed(w) == \E r \in Row : phase[<<w, r>>] = "infrastructure"

\* The next messageConcurrency rows of the batch, all started together.
StartChunk(w) ==
  /\ exec[w] = "sending"
  /\ ChunkSettled(w)
  /\ ~ChunkFailed(w)
  /\ batch[w] # {}
  /\ \E c \in SUBSET batch[w] :
       /\ \/ Cardinality(c) = MessageConcurrency
          \/ c = batch[w] /\ Cardinality(c) < MessageConcurrency
       /\ batch' = [batch EXCEPT ![w] = @ \ c]
       /\ phase' = [s \in Send |->
            IF s[1] = w
              THEN IF s[2] \in c THEN IF lockLost[w] THEN "infrastructure" ELSE "preflight"
                                 ELSE "none"
              ELSE phase[s]]
  /\ UNCHANGED <<db, lock, exec, lockLost, meta>>

FinishBatch(w) ==
  /\ exec[w] = "sending"
  /\ ChunkSettled(w)
  /\ ~ChunkFailed(w)
  /\ batch[w] = {}
  /\ exec' = [exec EXCEPT ![w] = "selecting"]
  /\ phase' = [s \in Send |-> IF s[1] = w THEN "none" ELSE phase[s]]
  /\ UNCHANGED <<db, lock, lockLost, batch, meta>>

\* The loop ends between chunks: no row is ready, or the worker drains, the
\* sender cools down, the campaign is no longer running, or a check throws.
StopExecution(w) ==
  /\ exec[w] # "idle"
  /\ ChunkSettled(w)
  /\ ~ChunkFailed(w)
  /\ Leave(w)
  /\ UNCHANGED <<db, meta>>

\* A CampaignInfrastructureError of one row, rethrown once its chunk has settled.
AbortExecution(w) ==
  /\ exec[w] = "sending"
  /\ ChunkSettled(w)
  /\ ChunkFailed(w)
  /\ Leave(w)
  /\ UNCHANGED <<db, meta>>

\* The process dies: nothing of the execution survives but its lock.
Crash(w) ==
  /\ exec[w] # "idle"
  /\ exec' = [exec EXCEPT ![w] = "idle"]
  /\ lockLost' = [lockLost EXCEPT ![w] = FALSE]
  /\ batch' = [batch EXCEPT ![w] = {}]
  /\ phase' = [s \in Send |-> IF s[1] = w THEN "none" ELSE phase[s]]
  /\ UNCHANGED <<db, lock, meta>>

\* The 120 s lease runs out: its owner is dead, or (LeaseCanLapse) alive and late.
LockExpires ==
  /\ lock # NoOwner
  /\ LeaseCanLapse \/ exec[lock] = "idle"
  /\ lock' = NoOwner
  /\ UNCHANGED <<db, exec, lockLost, batch, phase, meta>>

\* The heartbeat finds another owner, or Redis fails: either sets lockLost.
HeartbeatFails(w) ==
  /\ exec[w] # "idle"
  /\ lockLost' = [lockLost EXCEPT ![w] = TRUE]
  /\ UNCHANGED <<db, lock, exec, batch, phase, meta>>
-----------------------------------------------------------------------------
(***************************************************************************)
(* One recipient: sendCampaignMessage before its durable claim.            *)
(***************************************************************************)
\* The table after an update by id that leaves message_id alone.
WithStatus(r, status, retry) ==
  [row EXCEPT ![r] = [status |-> status, message |-> row[r].message, retry |-> retry]]

UpdateStatus(r, status) ==
  row' = WithStatus(r, status, IF status = "failed" THEN "none" ELSE row[r].retry)

\* The contact is gone: the row is skipped by id, whatever its status became.
SkipMissingContact(w, r) ==
  /\ phase[<<w, r>>] = "preflight"
  /\ UpdateStatus(r, "skipped")
  /\ Goto(<<w, r>>, "done") \/ Goto(<<w, r>>, "infrastructure")
  /\ UNCHANGED <<msg, sent_count, failed_count, worker, meta>>

\* A number or template that cannot be used is about to be recorded as failed.
RejectRecipient(w, r) ==
  /\ phase[<<w, r>>] = "preflight"
  /\ Goto(<<w, r>>, "invalid")
  /\ UNCHANGED <<db, worker, meta>>

\* Mutant of FailInvalidRecipient: the failure is counted even when its write failed.
FailInvalidRecipientAlwaysCounting(w, r) ==
  /\ phase[<<w, r>>] = "invalid"
  /\ UpdateStatus(r, "failed") \/ UNCHANGED row
  /\ Goto(<<w, r>>, "counting")
  /\ UNCHANGED <<msg, sent_count, failed_count, worker, meta>>

\* The failure is written by id; when the write itself fails the row stays as
\* it is and the chunk goes on.
FailInvalidRecipient(w, r) ==
  /\ phase[<<w, r>>] = "invalid"
  /\ \/ /\ UpdateStatus(r, "failed")
        /\ Goto(<<w, r>>, "counting")
     \/ /\ Goto(<<w, r>>, "done")
        /\ UNCHANGED row
  /\ UNCHANGED <<msg, sent_count, failed_count, worker, meta>>

PrepareRecipient(w, r) ==
  /\ phase[<<w, r>>] = "preflight"
  /\ Goto(<<w, r>>, "permit")
  /\ UNCHANGED <<db, worker, meta>>

\* waitForCampaignPermit denied: deferPendingRecipient touches pending rows only.
DeferPendingRecipient(w, r) ==
  /\ phase[<<w, r>>] = "permit"
  /\ row' = IF row[r].status = "pending" /\ row[r].message = NoMessage
              THEN WithStatus(r, "pending", "later")
              ELSE row
  /\ Goto(<<w, r>>, "done")
  /\ UNCHANGED <<msg, sent_count, failed_count, worker, meta>>

\* Permit granted; ownsLock() is read here and not again before the claim.
CheckLock(w, r) ==
  /\ phase[<<w, r>>] = "permit"
  /\ Goto(<<w, r>>, IF lockLost[w] THEN "done" ELSE "claim")
  /\ UNCHANGED <<db, worker, meta>>

\* An await fails while nothing has been attempted.
FailBeforeClaim(w, r) ==
  /\ phase[<<w, r>>] \in {"preflight", "permit", "claim"}
  /\ Goto(<<w, r>>, "infrastructure")
  /\ UNCHANGED <<db, worker, meta>>

Claimable(r) == row[r].status = "pending" /\ row[r].message = NoMessage

Claimed(r) == WithStatus(r, "failed", "none")

\* claimSingleAttempt, one conditional UPDATE.  When the connection breaks after
\* the commit, the row is claimed and the worker is told of a failure.
ClaimSingleAttempt(w, r) ==
  /\ phase[<<w, r>>] = "claim"
  /\ \/ /\ Claimable(r)
        /\ row' = Claimed(r)
        /\ \/ Goto(<<w, r>>, "reserved")
           \/ Goto(<<w, r>>, "infrastructure")
     \/ /\ ~Claimable(r)
        /\ Goto(<<w, r>>, "done")
        /\ UNCHANGED row
  /\ UNCHANGED <<msg, sent_count, failed_count, worker, meta>>

\* A deferred row's retry_after passes.
RetryTimeArrives(r) ==
  /\ row[r].retry = "later"
  /\ row' = WithStatus(r, row[r].status, "none")
  /\ UNCHANGED <<msg, sent_count, failed_count, worker, phase, meta>>
-----------------------------------------------------------------------------
(***************************************************************************)
(* MessageService.sendMessage, shared by workers and test sends.           *)
(***************************************************************************)
StartTestSend(t) ==
  /\ phase[<<t, NoRow>>] = "none"
  /\ Goto(<<t, NoRow>>, "reserved")
  /\ UNCHANGED <<db, worker, meta>>

\* Where an exception of sendMessage leaves its caller: a worker records it on
\* the row, an API request just ends.
Thrown(s, p) == Goto(s, IF IsWorkerSend(s) THEN p ELSE "done")

\* Checks before the outbound row: sender ownership, recipient, opt-out.
RefuseBeforeCreate(s) ==
  /\ phase[s] = "reserved"
  /\ \E p \in {"failing", "skipping", "infrastructure"} : Thrown(s, p)
  /\ UNCHANGED <<db, worker, meta>>

\* Mutant of AlreadyMessaged: the insert without its existence check.
InsertedUnchecked(p) == FALSE

AlreadyMessaged(p) == \E s \in Send : Target(s) = p /\ msg[s] # "none"

\* createOutbound: existence check and insert under one advisory lock.  The
\* insert may be committed although the caller sees the connection fail.
CreateOutbound(s) ==
  /\ phase[s] = "reserved"
  /\ \/ /\ ~AlreadyMessaged(Target(s))
        /\ msg' = [msg EXCEPT ![s] = "queued"]
        /\ Goto(s, "created") \/ Thrown(s, "infrastructure")
     \/ /\ AlreadyMessaged(Target(s))
        /\ Thrown(s, "skipping")
        /\ UNCHANGED msg
  /\ UNCHANGED <<row, sent_count, failed_count, worker, meta>>

\* CompanyModel.canSend says no (or fails for a reason other than the database).
CannotSend(s) ==
  /\ phase[s] = "created"
  /\ Goto(s, "refused")
  /\ UNCHANGED <<db, worker, meta>>

\* The one POST to Meta.
CallMeta(s) ==
  /\ phase[s] = "created"
  /\ calls' = [calls EXCEPT ![Target(s)] = @ + 1]
  /\ inflight' = inflight \cup {s}
  /\ Goto(s, "called")
  /\ UNCHANGED <<db, worker, accepted>>

\* Meta decides on its own time, also after the caller died or timed out.
MetaDecides(s) ==
  /\ s \in inflight
  /\ inflight' = inflight \ {s}
  /\ accepted' = accepted \cup {s} \/ UNCHANGED accepted
  /\ UNCHANGED <<db, worker, phase, calls>>

\* Mutant of ReceiveAnswer: a timeout is taken for an answer.
TakeTimeoutForAnswer(s) ==
  /\ phase[s] = "called"
  /\ Goto(s, "answered") \/ Goto(s, "refused")
  /\ UNCHANGED <<db, worker, meta>>

\* The answer, when there is one; a timeout or transport error looks like a refusal.
ReceiveAnswer(s) ==
  /\ phase[s] = "called"
  /\ \/ s \in accepted /\ Goto(s, "answered")
     \/ Goto(s, "refused")
  /\ UNCHANGED <<db, worker, meta>>

\* messages row gets its wamid and status sent.
SaveWamid(s) ==
  /\ phase[s] = "answered"
  /\ msg' = [msg EXCEPT ![s] = "sent"]
  /\ Goto(s, IF IsWorkerSend(s) THEN "confirmed" ELSE "done")
  /\ UNCHANGED <<row, sent_count, failed_count, worker, meta>>

\* The catch block of sendMessage: the outbound row is failed, the error rethrown.
SaveRefusal(s) ==
  /\ phase[s] = "refused"
  /\ msg' = [msg EXCEPT ![s] = "failed"]
  /\ Thrown(s, "failing")
  /\ UNCHANGED <<row, sent_count, failed_count, worker, meta>>

\* The database fails under sendMessage: its outbound row stays as it is.
DatabaseFailsInSend(s) ==
  /\ phase[s] \in {"created", "answered", "refused"}
  /\ Thrown(s, "infrastructure")
  /\ UNCHANGED <<db, worker, meta>>
-----------------------------------------------------------------------------
(***************************************************************************)
(* Recording the outcome of a claimed recipient.                           *)
(***************************************************************************)
\* Mutant of RecordSent: the counter is committed without the row.
CountBeforeRow(w, r) ==
  /\ phase[<<w, r>>] = "confirmed"
  /\ sent_count' = sent_count + 1
  /\ \/ /\ row' = [row EXCEPT ![r] = [status |-> "sent", message |-> <<w, r>>,
                                      retry |-> "none"]]
        /\ Goto(<<w, r>>, "done")
     \/ Goto(<<w, r>>, "infrastructure") /\ UNCHANGED row
  /\ UNCHANGED <<msg, failed_count, worker, meta>>

\* recordSent: row, sent_count and contact counters in one transaction, whose
\* commit may be acknowledged or not; any other error makes the row failed.
RecordSent(w, r) ==
  /\ phase[<<w, r>>] = "confirmed"
  /\ \/ /\ row' = [row EXCEPT ![r] = [status |-> "sent", message |-> <<w, r>>,
                                      retry |-> "none"]]
        /\ sent_count' = sent_count + 1
        /\ Goto(<<w, r>>, "done") \/ Goto(<<w, r>>, "infrastructure")
     \/ /\ Goto(<<w, r>>, "failing") \/ Goto(<<w, r>>, "infrastructure")
        /\ UNCHANGED <<row, sent_count>>
  /\ UNCHANGED <<msg, failed_count, worker, meta>>

\* The catch block of sendCampaignMessage after the claim: the outcome is
\* written by id; a write that fails is tolerated unless the database is down.
SaveFailure(w, r) ==
  /\ phase[<<w, r>>] \in {"failing", "skipping"}
  /\ LET skipped == phase[<<w, r>>] = "skipping"
         next == IF skipped THEN "done" ELSE "counting"
     IN \/ /\ row' = WithStatus(r, IF skipped THEN "skipped" ELSE "failed", "none")
           /\ Goto(<<w, r>>, next)
        \/ /\ Goto(<<w, r>>, next) \/ Goto(<<w, r>>, "infrastructure")
           /\ UNCHANGED row
  /\ UNCHANGED <<msg, sent_count, failed_count, worker, meta>>

\* recordRecipientFailureCounts: no transaction with the status above it.
RecordRecipientFailureCounts(w, r) ==
  /\ phase[<<w, r>>] = "counting"
  /\ \/ /\ failed_count' = failed_count + 1
        /\ Goto(<<w, r>>, "done")
     \/ /\ Goto(<<w, r>>, "done") \/ Goto(<<w, r>>, "infrastructure")
        /\ UNCHANGED failed_count
  /\ UNCHANGED <<row, msg, sent_count, worker, meta>>

\* CleanupService deletes messages rows older than a day or more, so never one of
\* a send in progress; campaign_messages.message_id is ON DELETE SET NULL.
DeleteOldMessage(s) ==
  /\ CleanupRuns
  /\ msg[s] # "none" /\ phase[s] \in Settled /\ s \notin inflight
  /\ msg' = [msg EXCEPT ![s] = "none"]
  /\ row' = [r \in Row |->
       IF row[r].message = s
         THEN [status |-> row[r].status, message |-> NoMessage, retry |-> row[r].retry]
         ELSE row[r]]
  /\ UNCHANGED <<sent_count, failed_count, worker, phase, meta>>
-----------------------------------------------------------------------------
ExecutionStep(w) ==
  \/ AcquireLock(w) \/ SelectBatch(w) \/ StartChunk(w) \/ FinishBatch(w)
  \/ StopExecution(w) \/ AbortExecution(w) \/ Crash(w) \/ HeartbeatFails(w)

RecipientStep(w, r) ==
  \/ SkipMissingContact(w, r) \/ RejectRecipient(w, r) \/ FailInvalidRecipient(w, r)
  \/ PrepareRecipient(w, r) \/ DeferPendingRecipient(w, r) \/ CheckLock(w, r)
  \/ FailBeforeClaim(w, r) \/ ClaimSingleAttempt(w, r)
  \/ RecordSent(w, r) \/ SaveFailure(w, r) \/ RecordRecipientFailureCounts(w, r)

SendStep(s) ==
  \/ RefuseBeforeCreate(s) \/ CreateOutbound(s) \/ CannotSend(s) \/ CallMeta(s)
  \/ MetaDecides(s) \/ ReceiveAnswer(s) \/ SaveWamid(s) \/ SaveRefusal(s)
  \/ DatabaseFailsInSend(s) \/ DeleteOldMessage(s)

Next ==
  \/ \E w \in Worker : ExecutionStep(w)
  \/ \E w \in Worker, r \in Row : RecipientStep(w, r)
  \/ \E s \in Send : SendStep(s)
  \/ \E t \in Tester : StartTestSend(t)
  \/ \E r \in Row : RetryTimeArrives(r)
  \/ LockExpires

Spec == Init /\ [][Next]_vars
-----------------------------------------------------------------------------
(***************************************************************************)
(* Properties.                                                             *)
(***************************************************************************)
Reported == {r \in Row : row[r].message # NoMessage}

\* No number is requested from Meta twice for this campaign: not by two workers
\* after a lost lock, not by two rows with the same number, not by a test send,
\* not after a crash (createOutbound, claimSingleAttempt).
AtMostOneCallPerRecipient == \A p \in Phone : calls[p] <= 1

\* The reservation is durable before Meta is asked: a row whose request may have
\* left is never one that a later execution selects again.
ReservedBeforeCall ==
  \A s \in Send : msg[s] # "none" /\ IsWorkerSend(s) => row[s[2]].status # "pending"

\* A row shows a message only if Meta accepted exactly that message for exactly
\* that row, and sent_count counts those rows, whatever crashed in between.
SentMeansAccepted ==
  /\ \A r \in Row : row[r].status = "sent" => r \in Reported
  /\ \A r \in Reported : row[r].message \in accepted /\ row[r].message[2] = r
  /\ sent_count = Cardinality(Reported)

\* While a live worker keeps its lock, the two counters never claim more outcomes
\* than rows that ended (recordSent, recordRecipientFailureCounts).
CountersWithinOutcomes ==
  ~LeaseCanLapse =>
    /\ sent_count + failed_count <= Cardinality({r \in Row : row[r].status # "pending"})
    /\ failed_count <= Cardinality({r \in Row : row[r].status = "failed"})

\* While a live worker keeps its lock, a recipient reported as sent keeps that
\* outcome: no stale batch, late failure or deferral overwrites it.
SentIsFinal ==
  [][~LeaseCanLapse => \A r \in Row : row[r].status = "sent" => row'[r].status = "sent"]_row

\* No handler puts an attempted recipient back among those to be sent.
AttemptedStaysAttempted ==
  [][\A r \in Row : row[r].status # "pending" => row'[r].status # "pending"]_row

-----------------------------------------------------------------------------
(***************************************************************************)
(* Why it holds: the inductive invariant behind the properties, when no    *)
(* message history is deleted.                                             *)
(***************************************************************************)
\* At most one send holds the claim of a row, and until it records an outcome
\* the row is neither pending nor linked to a message.
ClaimInv ==
  /\ \A r \in Row : row[r].status = "pending" => row[r].message = NoMessage
  /\ \A w \in Worker, r \in Row : phase[<<w, r>>] \in Reserved =>
       /\ row[r].status # "pending"
       /\ row[r].message = NoMessage
       /\ \A v \in Worker : phase[<<v, r>>] \in Reserved => v = w

\* One outbound row per number, inserted before Meta is asked about it.
MessageInv ==
  /\ \A s \in Send : phase[s] \in Messaged => msg[s] # "none"
  /\ \A s, u \in Send : msg[s] # "none" /\ msg[u] # "none" /\ Target(s) = Target(u)
       => s = u
  /\ \A p \in Phone : calls[p] # 0 => AlreadyMessaged(p)
  /\ \A s \in Send : phase[s] = "created" => calls[Target(s)] = 0
  /\ \A w \in Worker, r \in Row : msg[<<w, r>>] # "none" => row[r].status # "pending"
  /\ AtMostOneCallPerRecipient

\* Meta only decides what it was asked, once.
AcceptInv ==
  /\ \A s \in inflight \cup accepted : calls[Target(s)] = 1 /\ msg[s] # "none"
  /\ \A s \in inflight : s \notin accepted
  /\ \A s \in Send : phase[s] \in {"answered", "confirmed"} => s \in accepted

IInv == TypeOK /\ ClaimInv /\ MessageInv /\ AcceptInv /\ SentMeansAccepted

(***************************************************************************)
(* The inductive invariant behind the two properties of a lock that its    *)
(* live owner never loses, whether or not message history is deleted.      *)
(***************************************************************************)
Unattempted == {"preflight", "invalid", "permit", "claim"}
Uncounted == Reserved \cup {"counting"}

\* Only the owner of the lock works.  What it selected and has not attempted is
\* still pending; what it claimed, and has neither recorded nor counted, failed.
LeaseInv ==
  /\ \A w \in Worker : exec[w] # "idle" => lock = w
  /\ \A w \in Worker, r \in Row :
       /\ phase[<<w, r>>] # "none" \/ r \in batch[w] => exec[w] = "sending"
       /\ r \in batch[w] => phase[<<w, r>>] = "none"
       /\ r \in batch[w] \/ phase[<<w, r>>] \in Unattempted => row[r].status = "pending"
       /\ phase[<<w, r>>] \in Uncounted => row[r].status = "failed"

SentRows == {r \in Row : row[r].status = "sent"}

\* The failed rows whose worker is past the count of failures, or gone.
FailuresPast ==
  {r \in Row : row[r].status = "failed" /\ \A w \in Worker : phase[<<w, r>>] \notin Uncounted}

CountInv ==
  /\ sent_count = Cardinality(SentRows)
  /\ failed_count <= Cardinality(FailuresPast)
-----------------------------------------------------------------------------
\* The promise of AtMostOnceDelivery, seen through the tables and Meta.
Delivery == INSTANCE AtMostOnceDelivery WITH
  asks <- calls,
  accepted <- {Target(s) : s \in accepted},
  reported <- Reported,
  sentCount <- sent_count

\* Every step of the senders is a step of the promise or changes nothing of it.
ImplementsAtMostOnceDelivery == Delivery!Spec
=============================================================================
