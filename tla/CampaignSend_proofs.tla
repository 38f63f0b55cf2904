------------------------ MODULE CampaignSend_proofs ------------------------
(***************************************************************************)
(* Proofs about CampaignSend for any number of workers, test sends, rows   *)
(* and phone numbers.                                                      *)
(***************************************************************************)
EXTENDS CampaignSend, FiniteSetTheorems, TLAPS

USE CallersAssumption, PhonesAssumption, CapacityAssumption

\* A worker's send is named by its worker and its row, a test send has no row;
\* every send has a recipient number.
LEMMA SendNames ==
  /\ \A w \in Worker, r \in Row :
       <<w, r>> \in Send /\ IsWorkerSend(<<w, r>>) /\ Target(<<w, r>>) = phoneOf[r]
  /\ \A t \in Tester : <<t, NoRow>> \in Send /\ ~IsWorkerSend(<<t, NoRow>>)
  /\ \A s \in Send : Target(s) \in Phone
  /\ \A s \in Send : IsWorkerSend(s) =>
       s[1] \in Worker /\ s[2] \in Row /\ s = <<s[1], s[2]>>
BY DEF Send, IsWorkerSend, Target

\* An update by id touches one row and leaves its message_id alone.
LEMMA RowUpdate ==
  ASSUME row \in [Row -> RowState], NEW r \in Row,
         NEW st \in RowStatus, NEW d \in {"none", "later"}
  PROVE  /\ WithStatus(r, st, d) \in [Row -> RowState]
         /\ \A q \in Row : WithStatus(r, st, d)[q].message = row[q].message
         /\ WithStatus(r, st, d)[r].status = st
         /\ \A q \in Row : q # r => WithStatus(r, st, d)[q] = row[q]
<1>1. row[r] \in RowState /\ row[r].message \in Send \cup {NoMessage}
  BY DEF RowState
<1>2. [status |-> st, message |-> row[r].message, retry |-> d] \in RowState
  BY <1>1 DEF RowState
<1> QED  BY <1>1, <1>2 DEF WithStatus

\* What the fields of a row are.
LEMMA RowFields ==
  ASSUME row \in [Row -> RowState], NEW r \in Row
  PROVE  /\ row[r].status \in RowStatus
         /\ row[r].message \in Send \cup {NoMessage}
         /\ row[r].retry \in {"none", "later"}
BY DEF RowState

\* The updates by id that the handlers make keep the table's type.
LEMMA RowUpdatesTyped ==
  ASSUME row \in [Row -> RowState], NEW r \in Row
  PROVE  /\ UpdateStatus(r, "failed") => row' \in [Row -> RowState]
         /\ UpdateStatus(r, "skipped") => row' \in [Row -> RowState]
         /\ WithStatus(r, "failed", "none") \in [Row -> RowState]
         /\ WithStatus(r, "skipped", "none") \in [Row -> RowState]
         /\ WithStatus(r, "pending", "later") \in [Row -> RowState]
         /\ WithStatus(r, row[r].status, "none") \in [Row -> RowState]
<1>1. \A st \in RowStatus, d \in {"none", "later"} : WithStatus(r, st, d) \in [Row -> RowState]
  BY RowUpdate
<1>2. row[r].status \in RowStatus /\ row[r].retry \in {"none", "later"}
  BY RowFields
<1> QED  BY <1>1, <1>2 DEF UpdateStatus, RowStatus

\* Whatever a step does to the recipients' table, it keeps its type.
LEMMA RowTyped ==
  ASSUME row \in [Row -> RowState], NEW r \in Row, NEW w \in Worker,
         RecipientStep(w, r)
  PROVE  row' \in [Row -> RowState]
<1>1. row' = row => row' \in [Row -> RowState]
  OBVIOUS
<1>2. row' = WithStatus(r, "failed", "none") => row' \in [Row -> RowState]
  BY RowUpdatesTyped
<1>3. row' = WithStatus(r, "skipped", "none") => row' \in [Row -> RowState]
  BY RowUpdatesTyped
<1>4. row' = WithStatus(r, "pending", "later") => row' \in [Row -> RowState]
  BY RowUpdatesTyped
<1>5. UpdateStatus(r, "failed") => row' \in [Row -> RowState]
  BY RowUpdatesTyped
<1>6. UpdateStatus(r, "skipped") => row' \in [Row -> RowState]
  BY RowUpdatesTyped
<1>7. [status |-> "sent", message |-> <<w, r>>, retry |-> "none"] \in RowState
  BY SendNames DEF RowState, RowStatus
<1>8. RecordSent(w, r) => row' \in [Row -> RowState]
  BY <1>7 DEF RecordSent
<1>9. SaveFailure(w, r) => row' \in [Row -> RowState]
  BY <1>1, <1>2, <1>3 DEF SaveFailure
<1>10. ClaimSingleAttempt(w, r) => row' \in [Row -> RowState]
  BY <1>1, <1>2 DEF ClaimSingleAttempt, Claimed
<1>11. DeferPendingRecipient(w, r) => row' \in [Row -> RowState]
  BY <1>1, <1>4 DEF DeferPendingRecipient
<1>12. FailInvalidRecipient(w, r) \/ SkipMissingContact(w, r) => row' \in [Row -> RowState]
  BY <1>1, <1>5, <1>6 DEF FailInvalidRecipient, SkipMissingContact
<1> QED
  BY <1>1, <1>8, <1>9, <1>10, <1>11, <1>12
  DEF RecipientStep, RejectRecipient, PrepareRecipient, CheckLock, FailBeforeClaim,
      RecordRecipientFailureCounts, db

\* Every variable keeps its type, whatever the workers and Meta do.
THEOREM TypeCorrect == Spec => []TypeOK
<1>1. Init => TypeOK
  BY DEF Init, TypeOK, RowState, RowStatus, MessageStatus, Phase
<1>2. TypeOK /\ [Next]_vars => TypeOK'
  <2> SUFFICES ASSUME TypeOK, [Next]_vars PROVE TypeOK'
    OBVIOUS
  <2> USE DEF TypeOK, db, worker, meta
  <2>1. ASSUME NEW w \in Worker, ExecutionStep(w) PROVE TypeOK'
    <3>1. CASE AcquireLock(w)  BY <3>1 DEF AcquireLock
    <3>2. CASE SelectBatch(w)
      BY <3>2 DEF SelectBatch, Ready
    <3>3. CASE StartChunk(w)  BY <3>3 DEF StartChunk, Phase
    <3>4. CASE FinishBatch(w)  BY <3>4 DEF FinishBatch, Phase
    <3>5. CASE StopExecution(w)  BY <3>5 DEF StopExecution, Leave, Phase
    <3>6. CASE AbortExecution(w)  BY <3>6 DEF AbortExecution, Leave, Phase
    <3>7. CASE Crash(w)  BY <3>7 DEF Crash, Phase
    <3>8. CASE HeartbeatFails(w)  BY <3>8 DEF HeartbeatFails
    <3> QED  BY <2>1, <3>1, <3>2, <3>3, <3>4, <3>5, <3>6, <3>7, <3>8 DEF ExecutionStep
  <2>2. ASSUME NEW w \in Worker, NEW r \in Row, RecipientStep(w, r) PROVE TypeOK'
    <3> <<w, r>> \in Send  BY SendNames
    <3>0. row' \in [Row -> RowState]  BY <2>2, RowTyped
    <3> USE DEF Goto, Phase
    <3>1. CASE SkipMissingContact(w, r)  BY <3>1, <3>0 DEF SkipMissingContact
    <3>2. CASE RejectRecipient(w, r)  BY <3>2 DEF RejectRecipient
    <3>3. CASE FailInvalidRecipient(w, r)  BY <3>3, <3>0 DEF FailInvalidRecipient
    <3>4. CASE PrepareRecipient(w, r)  BY <3>4 DEF PrepareRecipient
    <3>5. CASE DeferPendingRecipient(w, r)  BY <3>5, <3>0 DEF DeferPendingRecipient
    <3>6. CASE CheckLock(w, r)  BY <3>6 DEF CheckLock
    <3>7. CASE FailBeforeClaim(w, r)  BY <3>7 DEF FailBeforeClaim
    <3>8. CASE ClaimSingleAttempt(w, r)  BY <3>8, <3>0 DEF ClaimSingleAttempt
    <3>9. CASE RecordSent(w, r)  BY <3>9, <3>0 DEF RecordSent
    <3>10. CASE SaveFailure(w, r)
      <4>1. phase' \in [Send -> Phase]
        BY <3>10 DEF SaveFailure
      <4>2. UNCHANGED <<msg, sent_count, failed_count, worker, meta>>
        BY <3>10 DEF SaveFailure
      <4> QED  BY <3>0, <4>1, <4>2
    <3>11. CASE RecordRecipientFailureCounts(w, r)
      BY <3>11 DEF RecordRecipientFailureCounts
    <3> QED
      BY <2>2, <3>1, <3>2, <3>3, <3>4, <3>5, <3>6, <3>7, <3>8, <3>9, <3>10, <3>11
      DEF RecipientStep
  <2>3. ASSUME NEW s \in Send, SendStep(s) PROVE TypeOK'
    <3> USE DEF Goto, Thrown, Phase
    <3>1. CASE RefuseBeforeCreate(s)  BY <3>1 DEF RefuseBeforeCreate
    <3>2. CASE CreateOutbound(s)  BY <3>2 DEF CreateOutbound, MessageStatus
    <3>3. CASE CannotSend(s)  BY <3>3 DEF CannotSend
    <3>4. CASE CallMeta(s)  BY <3>4, SendNames DEF CallMeta
    <3>5. CASE MetaDecides(s)  BY <3>5 DEF MetaDecides
    <3>6. CASE ReceiveAnswer(s)  BY <3>6 DEF ReceiveAnswer
    <3>7. CASE SaveWamid(s)  BY <3>7 DEF SaveWamid, MessageStatus
    <3>8. CASE SaveRefusal(s)  BY <3>8 DEF SaveRefusal, MessageStatus
    <3>9. CASE DatabaseFailsInSend(s)  BY <3>9 DEF DatabaseFailsInSend
    <3>10. CASE DeleteOldMessage(s)
      BY <3>10 DEF DeleteOldMessage, MessageStatus, RowState
    <3> QED
      BY <2>3, <3>1, <3>2, <3>3, <3>4, <3>5, <3>6, <3>7, <3>8, <3>9, <3>10 DEF SendStep
  <2>4. ASSUME NEW t \in Tester, StartTestSend(t) PROVE TypeOK'
    BY <2>4, SendNames DEF StartTestSend, Goto, Phase
  <2>5. ASSUME NEW r \in Row, RetryTimeArrives(r) PROVE TypeOK'
    BY <2>5, RowUpdatesTyped DEF RetryTimeArrives
  <2>6. CASE LockExpires  BY <2>6 DEF LockExpires
  <2>7. CASE UNCHANGED vars  BY <2>7 DEF vars
  <2> QED  BY <2>1, <2>2, <2>3, <2>4, <2>5, <2>6, <2>7 DEF Next
<1> QED  BY <1>1, <1>2, PTL DEF Spec
-----------------------------------------------------------------------------
(***************************************************************************)
(* The claim of a row.                                                     *)
(***************************************************************************)
\* A step that returns no row to "pending" and links no row to a message.
RowsKept ==
  \A q \in Row : /\ row'[q].status = "pending" => row[q].status = "pending"
                 /\ row'[q].message = row[q].message \/ row'[q].message = NoMessage

\* A step that gives no worker a claim it did not hold.
ClaimsKept ==
  \A w \in Worker, r \in Row : phase'[<<w, r>>] \in Reserved => phase[<<w, r>>] \in Reserved

\* An update by id keeps the rows unless it makes an attempted row pending.
LEMMA RowsKeptByUpdate ==
  ASSUME row \in [Row -> RowState], NEW r \in Row
  PROVE  \A st \in RowStatus, d \in {"none", "later"} :
           row' = WithStatus(r, st, d) /\ (st = "pending" => row[r].status = "pending")
             => RowsKept
BY RowUpdate DEF RowsKept

\* Of the handlers of a recipient, only recordSent links its row to a message.
LEMMA RowsKeptByRecipient ==
  ASSUME TypeOK, NEW w \in Worker, NEW r \in Row, RecipientStep(w, r), ~RecordSent(w, r)
  PROVE  RowsKept
<1> row \in [Row -> RowState]  BY DEF TypeOK
<1>1. row' = row => RowsKept
  BY DEF RowsKept
<1>2. \A st \in RowStatus, d \in {"none", "later"} :
        row' = WithStatus(r, st, d) /\ (st = "pending" => row[r].status = "pending") => RowsKept
  BY RowsKeptByUpdate
<1>3. UpdateStatus(r, "failed") \/ UpdateStatus(r, "skipped") => RowsKept
  <2>1. row[r].retry \in {"none", "later"}  BY RowFields
  <2> QED  BY <1>2, <2>1 DEF UpdateStatus, RowStatus
<1>4. CASE SkipMissingContact(w, r)  BY <1>3, <1>4 DEF SkipMissingContact
<1>5. CASE FailInvalidRecipient(w, r)  BY <1>1, <1>3, <1>5 DEF FailInvalidRecipient
<1>6. CASE DeferPendingRecipient(w, r)
  BY <1>1, <1>2, <1>6 DEF DeferPendingRecipient, RowStatus
<1>7. CASE ClaimSingleAttempt(w, r)
  BY <1>1, <1>2, <1>7 DEF ClaimSingleAttempt, Claimed, RowStatus
<1>8. CASE SaveFailure(w, r)  BY <1>1, <1>2, <1>8 DEF SaveFailure, RowStatus
<1> QED
  BY <1>1, <1>4, <1>5, <1>6, <1>7, <1>8
  DEF RecipientStep, RejectRecipient, PrepareRecipient, CheckLock, FailBeforeClaim,
      RecordRecipientFailureCounts, db

\* Steps of the execution loop and of sendMessage never touch a row, except
\* that the deletion of a message unlinks it.
LEMMA RowsKeptElsewhere ==
  ASSUME TypeOK,
         \/ \E w \in Worker : ExecutionStep(w)
         \/ \E s \in Send : SendStep(s)
         \/ \E t \in Tester : StartTestSend(t)
         \/ \E r \in Row : RetryTimeArrives(r)
         \/ LockExpires
         \/ UNCHANGED vars
  PROVE  RowsKept
<1> row \in [Row -> RowState]  BY DEF TypeOK
<1>1. row' = row => RowsKept
  BY DEF RowsKept
<1>2. ASSUME NEW w \in Worker, ExecutionStep(w) PROVE row' = row
  BY <1>2 DEF ExecutionStep, AcquireLock, SelectBatch, StartChunk, FinishBatch,
     StopExecution, AbortExecution, Crash, HeartbeatFails, db
<1>3. ASSUME NEW s \in Send, SendStep(s) PROVE RowsKept
  <2>1. CASE DeleteOldMessage(s)
    BY <2>1, RowFields DEF DeleteOldMessage, RowsKept
  <2>2. CASE ~DeleteOldMessage(s)
    BY <1>1, <1>3, <2>2 DEF SendStep, RefuseBeforeCreate, CreateOutbound, CannotSend,
       CallMeta, MetaDecides, ReceiveAnswer, SaveWamid, SaveRefusal, DatabaseFailsInSend, db
  <2> QED  BY <2>1, <2>2
<1>4. ASSUME NEW r \in Row, RetryTimeArrives(r) PROVE RowsKept
  <2>1. row[r].status \in RowStatus  BY RowFields
  <2>2. row' = WithStatus(r, row[r].status, "none")
    BY <1>4 DEF RetryTimeArrives
  <2> QED  BY <2>1, <2>2, RowsKeptByUpdate
<1>5. ASSUME NEW t \in Tester, StartTestSend(t) PROVE row' = row
  BY <1>5 DEF StartTestSend, db
<1>6. LockExpires => row' = row
  BY DEF LockExpires, db
<1>7. UNCHANGED vars => row' = row
  BY DEF vars
<1> QED  BY <1>1, <1>2, <1>3, <1>4, <1>5, <1>6, <1>7

\* docs/campaign-no-retry.md, "it cannot resend a failed recipient": no step of
\* any handler returns an attempted row to those a later batch may select.
THEOREM AttemptsAreNotRetried == Spec => AttemptedStaysAttempted
<1> DEFINE Keeps == \A r \in Row : row[r].status # "pending" => row'[r].status # "pending"
<1>1. TypeOK /\ [Next]_vars => [Keeps]_row
  <2> SUFFICES ASSUME TypeOK, [Next]_vars
               PROVE  \A r \in Row : row[r].status # "pending" => row'[r].status # "pending"
    OBVIOUS
  <2>1. ASSUME NEW w \in Worker, NEW r \in Row, RecordSent(w, r)
        PROVE  \A q \in Row : row[q].status # "pending" => row'[q].status # "pending"
    BY <2>1 DEF RecordSent, TypeOK
  <2> QED
    BY <2>1, RowsKeptByRecipient, RowsKeptElsewhere DEF Next, RowsKept
<1> HIDE DEF Keeps
<1>2. Spec => [][Keeps]_row  BY <1>1, TypeCorrect, PTL DEF Spec
<1> QED  BY <1>2 DEF AttemptedStaysAttempted, Keeps

\* A step that keeps rows and claims keeps the invariant of the claim.
LEMMA ClaimFrame ==
  ASSUME ClaimInv, RowsKept, ClaimsKept PROVE ClaimInv'
BY DEF ClaimInv, RowsKept, ClaimsKept

\* Claims are exclusive and durable, whatever happens to locks, workers and
\* message history.
THEOREM ClaimsAreExclusive == Spec => []ClaimInv
<1>1. Init => ClaimInv
  BY SendNames DEF Init, ClaimInv, Reserved
<1>2. TypeOK /\ ClaimInv /\ [Next]_vars => ClaimInv'
  <2> SUFFICES ASSUME TypeOK, ClaimInv, [Next]_vars PROVE ClaimInv'
    OBVIOUS
  <2>1. ASSUME NEW w \in Worker, ExecutionStep(w) PROVE ClaimsKept
    BY <2>1, SendNames DEF TypeOK, ClaimsKept, Reserved, ExecutionStep, AcquireLock, SelectBatch,
       StartChunk, FinishBatch, StopExecution, AbortExecution, Leave, Crash, HeartbeatFails
  <2>2. ASSUME NEW s \in Send, SendStep(s) PROVE ClaimsKept
    BY <2>2, SendNames DEF TypeOK, ClaimsKept, Reserved, Goto, Thrown, SendStep, RefuseBeforeCreate,
       CreateOutbound, CannotSend, CallMeta, MetaDecides, ReceiveAnswer, SaveWamid,
       SaveRefusal, DatabaseFailsInSend, DeleteOldMessage, db, worker
  <2>3. ASSUME NEW t \in Tester, StartTestSend(t) PROVE ClaimsKept
    BY <2>3, SendNames DEF TypeOK, ClaimsKept, Reserved, Goto, StartTestSend
  <2>4. ASSUME NEW w \in Worker, NEW r \in Row, RecipientStep(w, r),
               ~ClaimSingleAttempt(w, r)
        PROVE  ClaimsKept
    BY <2>4, SendNames DEF TypeOK, ClaimsKept, Reserved, Goto, RecipientStep, SkipMissingContact,
       RejectRecipient, FailInvalidRecipient, PrepareRecipient, DeferPendingRecipient,
       CheckLock, FailBeforeClaim, RecordSent, SaveFailure, RecordRecipientFailureCounts
  <2>5. ASSUME NEW w \in Worker, NEW r \in Row, ClaimSingleAttempt(w, r) PROVE ClaimInv'
    <3> row \in [Row -> RowState] /\ <<w, r>> \in Send  BY SendNames DEF TypeOK
    <3>1. RowsKept
      BY <2>5, RowsKeptByRecipient DEF RecipientStep, ClaimSingleAttempt, RecordSent
    <3>2. CASE ~Claimable(r)
      <4>1. ClaimsKept
        BY <2>5, <3>2, SendNames DEF TypeOK, ClaimSingleAttempt, ClaimsKept, Reserved, Goto
      <4> QED  BY <3>1, <4>1, ClaimFrame
    <3>3. CASE Claimable(r)
      <4>1. row'[r].status = "failed" /\ row'[r].message = NoMessage
        <5>1. row' = WithStatus(r, "failed", "none")
          BY <2>5, <3>3 DEF ClaimSingleAttempt, Claimed
        <5>2. \A st \in RowStatus : WithStatus(r, st, "none")[r].status = st
                                  /\ WithStatus(r, st, "none")[r].message = row[r].message
          BY RowUpdate
        <5> QED  BY <3>3, <5>1, <5>2 DEF Claimable, RowStatus
      <4>2. \A v \in Worker : phase[<<v, r>>] \notin Reserved
        BY <3>3 DEF ClaimInv, Claimable
      <4>3. \A v \in Worker, q \in Row : <<v, q>> # <<w, r>> => phase'[<<v, q>>] = phase[<<v, q>>]
        BY <2>5, SendNames DEF TypeOK, ClaimSingleAttempt, Goto
      <4>4. ASSUME NEW q \in Row, row'[q].status = "pending" PROVE row'[q].message = NoMessage
        BY <3>1, <4>4 DEF ClaimInv, RowsKept
      <4>5. ASSUME NEW v \in Worker, NEW q \in Row, phase'[<<v, q>>] \in Reserved, q # r
            PROVE  /\ row'[q].status # "pending" /\ row'[q].message = NoMessage
                   /\ \A u \in Worker : phase'[<<u, q>>] \in Reserved => u = v
        <5>1. \A u \in Worker : phase'[<<u, q>>] = phase[<<u, q>>]
          BY <4>3, <4>5
        <5> QED  BY <3>1, <4>5, <5>1 DEF ClaimInv, RowsKept
      <4>6. ASSUME NEW v \in Worker, phase'[<<v, r>>] \in Reserved PROVE v = w
        BY <4>2, <4>3, <4>6
      <4> QED
        BY <4>1, <4>4, <4>5, <4>6 DEF ClaimInv
    <3> QED  BY <3>2, <3>3
  <2>6. ASSUME NEW w \in Worker, NEW r \in Row, RecordSent(w, r) PROVE ClaimInv'
    <3> <<w, r>> \in Send  BY SendNames
    <3>1. ClaimsKept
      BY <2>6, SendNames DEF TypeOK, ClaimsKept, Reserved, Goto, RecordSent
    <3>2. CASE row' = row
      BY <3>1, <3>2, ClaimFrame DEF RowsKept
    <3>3. CASE row' # row
      <4>1. /\ row'[r].status = "sent"
            /\ \A q \in Row : q # r => row'[q] = row[q]
            /\ phase'[<<w, r>>] \notin Reserved
        BY <2>6, <3>3 DEF TypeOK, RecordSent, Goto, Reserved
      <4>2. \A v \in Worker : phase'[<<v, r>>] \notin Reserved
        BY <2>6, <3>1, <4>1 DEF RecordSent, ClaimInv, ClaimsKept, Reserved
      <4> QED  BY <3>1, <4>1, <4>2 DEF ClaimInv, ClaimsKept
    <3> QED  BY <3>2, <3>3
  <2>7. CASE \E r \in Row : RetryTimeArrives(r)
    BY <2>7, RowsKeptElsewhere, ClaimFrame DEF RetryTimeArrives, ClaimsKept
  <2>8. CASE LockExpires
    BY <2>8, RowsKeptElsewhere, ClaimFrame DEF LockExpires, ClaimsKept
  <2>9. CASE UNCHANGED vars
    BY <2>9, RowsKeptElsewhere, ClaimFrame DEF vars, ClaimsKept
  <2> QED
    BY <2>1, <2>2, <2>3, <2>4, <2>5, <2>6, <2>7, <2>8, <2>9,
       RowsKeptByRecipient, RowsKeptElsewhere, ClaimFrame DEF Next
<1> QED  BY <1>1, <1>2, TypeCorrect, PTL DEF Spec
-----------------------------------------------------------------------------
(***************************************************************************)
(* One outbound row and one request per number.                            *)
(***************************************************************************)
\* A step that inserts no outbound row, asks Meta nothing and starts no send's
\* use of an outbound row.
MessagesKept ==
  /\ \A s \in Send : msg'[s] = "none" <=> msg[s] = "none"
  /\ calls' = calls
  /\ \A s \in Send : /\ phase'[s] \in Messaged => phase[s] \in Messaged
                     /\ phase'[s] = "created" => phase[s] = "created"

AttemptsKept == \A q \in Row : row[q].status # "pending" => row'[q].status # "pending"

LEMMA AttemptsKeptByNext ==
  ASSUME TypeOK, Next PROVE AttemptsKept
<1>1. ASSUME NEW w \in Worker, NEW r \in Row, RecordSent(w, r) PROVE AttemptsKept
  BY <1>1 DEF RecordSent, TypeOK, AttemptsKept
<1> QED
  BY <1>1, RowsKeptByRecipient, RowsKeptElsewhere DEF Next, RowsKept, AttemptsKept

\* A step that keeps messages and attempts keeps the invariant of the messages.
LEMMA MessageFrame ==
  ASSUME TypeOK, MessageInv, MessagesKept, AttemptsKept PROVE MessageInv'
BY SendNames DEF MessageInv, MessagesKept, AttemptsKept, AlreadyMessaged, AtMostOneCallPerRecipient

\* Only createOutbound, the request to Meta and the deletion of old messages
\* do more than that.
LEMMA MessagesKeptElsewhere ==
  ASSUME TypeOK, MessageInv, Next,
         \A s \in Send : ~CreateOutbound(s) /\ ~CallMeta(s) /\ ~DeleteOldMessage(s)
  PROVE  MessagesKept
<1>1. ASSUME NEW w \in Worker, ExecutionStep(w) PROVE MessagesKept
  BY <1>1 DEF TypeOK, MessagesKept, Messaged, ExecutionStep, AcquireLock, SelectBatch,
     StartChunk, FinishBatch, StopExecution, AbortExecution, Leave, Crash, HeartbeatFails,
     db, meta
<1>2. ASSUME NEW w \in Worker, NEW r \in Row, RecipientStep(w, r) PROVE MessagesKept
  BY <1>2, SendNames DEF TypeOK, MessagesKept, Messaged, Goto, RecipientStep, SkipMissingContact,
     RejectRecipient, FailInvalidRecipient, PrepareRecipient, DeferPendingRecipient,
     CheckLock, FailBeforeClaim, ClaimSingleAttempt, RecordSent, SaveFailure,
     RecordRecipientFailureCounts, db, meta
<1>3. ASSUME NEW s \in Send, SendStep(s) PROVE MessagesKept
  <2> USE DEF TypeOK, MessagesKept, Messaged, Goto, Thrown
  <2>1. CASE RefuseBeforeCreate(s)  BY <2>1 DEF RefuseBeforeCreate, db, meta
  <2>2. CASE CannotSend(s)  BY <2>2 DEF CannotSend, db, meta
  <2>3. CASE MetaDecides(s)  BY <2>3 DEF MetaDecides, db
  <2>4. CASE ReceiveAnswer(s)  BY <2>4 DEF ReceiveAnswer, db, meta
  <2>5. CASE SaveWamid(s)
    <3>1. msg[s] # "none"  BY <2>5 DEF SaveWamid, MessageInv
    <3> QED  BY <2>5, <3>1 DEF SaveWamid, meta
  <2>6. CASE SaveRefusal(s)
    <3>1. msg[s] # "none"  BY <2>6 DEF SaveRefusal, MessageInv
    <3> QED  BY <2>6, <3>1 DEF SaveRefusal, meta
  <2>7. CASE DatabaseFailsInSend(s)  BY <2>7 DEF DatabaseFailsInSend, db, meta
  <2> QED  BY <1>3, <2>1, <2>2, <2>3, <2>4, <2>5, <2>6, <2>7 DEF SendStep
<1>4. ASSUME NEW t \in Tester, StartTestSend(t) PROVE MessagesKept
  BY <1>4, SendNames DEF TypeOK, MessagesKept, Messaged, Goto, StartTestSend, db, meta
<1>5. ASSUME NEW r \in Row, RetryTimeArrives(r) PROVE MessagesKept
  BY <1>5 DEF MessagesKept, RetryTimeArrives, meta
<1>6. LockExpires => MessagesKept
  BY DEF MessagesKept, LockExpires, db, meta
<1> QED  BY <1>1, <1>2, <1>3, <1>4, <1>5, <1>6 DEF Next

\* The inductive step of one outbound row per number.
LEMMA MessageStep ==
  ASSUME ~CleanupRuns, TypeOK, ClaimInv, MessageInv, Next PROVE MessageInv'
<1> USE DEF TypeOK
<1>1. CASE \E s \in Send : CreateOutbound(s)
  <2> PICK s \in Send : CreateOutbound(s)  BY <1>1
  <2>1. /\ row' = row /\ calls' = calls
        /\ \A u \in Send : u # s => msg'[u] = msg[u] /\ phase'[u] = phase[u]
    BY DEF CreateOutbound, Goto, Thrown, meta
  <2>2. CASE AlreadyMessaged(Target(s))
    <3>1. MessagesKept
      BY <2>2, <2>1 DEF CreateOutbound, Goto, Thrown, MessagesKept, Messaged
    <3> QED  BY <2>1, <3>1, MessageFrame DEF AttemptsKept
  <2>3. CASE ~AlreadyMessaged(Target(s))
    <3>1. msg'[s] = "queued" /\ calls[Target(s)] = 0 /\ phase[s] = "reserved"
      BY <2>3, SendNames DEF CreateOutbound, MessageInv
    <3>2. \A u \in Send : Target(u) = Target(s) => msg[u] = "none"
      BY <2>3 DEF AlreadyMessaged
    <3>3. \A w \in Worker, r \in Row : s = <<w, r>> => row[r].status # "pending"
      BY <3>1 DEF ClaimInv, Reserved
    <3>4. \A p \in Phone : AlreadyMessaged(p) => AlreadyMessaged(p)'
      BY <2>1, <3>1 DEF AlreadyMessaged
    <3>5. \A u \in Send : phase'[u] \in Messaged => msg'[u] # "none"
      BY <2>1, <3>1 DEF MessageInv
    <3>6. \A u, v \in Send : msg'[u] # "none" /\ msg'[v] # "none" /\ Target(u) = Target(v)
                             => u = v
      BY <2>1, <3>1, <3>2 DEF MessageInv
    <3>7. \A u \in Send : phase'[u] = "created" => calls'[Target(u)] = 0
      BY <2>1, <3>1 DEF MessageInv
    <3>8. \A w \in Worker, r \in Row : msg'[<<w, r>>] # "none" => row'[r].status # "pending"
      BY <2>1, <3>3, SendNames DEF MessageInv
    <3> QED
      BY <2>1, <3>4, <3>5, <3>6, <3>7, <3>8 DEF MessageInv, AtMostOneCallPerRecipient
  <2> QED  BY <2>2, <2>3
<1>2. CASE \E s \in Send : CallMeta(s)
  <2> PICK s \in Send : CallMeta(s)  BY <1>2
  <2>1. /\ row' = row /\ msg' = msg /\ phase[s] = "created" /\ phase'[s] = "called"
        /\ \A u \in Send : u # s => phase'[u] = phase[u]
        /\ calls[Target(s)] = 0 /\ msg[s] # "none"
        /\ calls' = [calls EXCEPT ![Target(s)] = 1]
    <3>1. row' = row /\ msg' = msg /\ phase[s] = "created" /\ phase' = [phase EXCEPT ![s] = "called"]
      BY DEF CallMeta, Goto, db
    <3>2. calls[Target(s)] = 0 /\ msg[s] # "none"
      BY <3>1 DEF MessageInv, Messaged
    <3>3. calls' = [calls EXCEPT ![Target(s)] = calls[Target(s)] + 1]
      BY DEF CallMeta
    <3> QED  BY <3>1, <3>2, <3>3
  <2>2. \A u \in Send : u # s /\ phase[u] = "created" => Target(u) # Target(s)
    BY <2>1 DEF MessageInv, Messaged
  <2>3. \A u \in Send : phase'[u] = "created" => calls'[Target(u)] = 0
    BY <2>1, <2>2, SendNames DEF MessageInv
  <2>4. \A p \in Phone : calls'[p] # 0 => AlreadyMessaged(p)'
    BY <2>1, SendNames DEF MessageInv, AlreadyMessaged
  <2>5. \A p \in Phone : calls'[p] <= 1
    BY <2>1, SendNames DEF MessageInv, AtMostOneCallPerRecipient
  <2>6. \A u \in Send : phase'[u] \in Messaged => msg'[u] # "none"
    BY <2>1 DEF MessageInv
  <2> QED  BY <2>1, <2>3, <2>4, <2>5, <2>6 DEF MessageInv, AtMostOneCallPerRecipient
<1>3. CASE \A s \in Send : ~CreateOutbound(s) /\ ~CallMeta(s)
  <2>1. MessagesKept
    BY <1>3, MessagesKeptElsewhere DEF DeleteOldMessage
  <2> QED  BY <2>1, MessageFrame, AttemptsKeptByNext
<1> QED  BY <1>1, <1>2, <1>3

\* One outbound row per number, while message history is not deleted.
THEOREM MessagesAreUnique == ASSUME ~CleanupRuns PROVE Spec => []MessageInv
<1>1. Init => MessageInv
  BY SendNames DEF Init, MessageInv, Messaged, AtMostOneCallPerRecipient
<1>2. TypeOK /\ ClaimInv /\ MessageInv /\ [Next]_vars => MessageInv'
  <2>1. MessageInv /\ UNCHANGED vars => MessageInv'
    BY DEF vars, MessageInv, AlreadyMessaged, AtMostOneCallPerRecipient
  <2> QED  BY <2>1, MessageStep
<1> QED  BY <1>1, <1>2, TypeCorrect, ClaimsAreExclusive, PTL DEF Spec

\* Unless message history is deleted, no number of the campaign is requested
\* from Meta twice, whatever locks lapse, workers crash and test sends run.
THEOREM OneRequestPerRecipient ==
  ASSUME ~CleanupRuns PROVE Spec => []AtMostOneCallPerRecipient
<1>1. MessageInv => AtMostOneCallPerRecipient
  BY DEF MessageInv
<1> QED  BY <1>1, MessagesAreUnique, PTL

\* A row whose outbound message exists is not pending any more, so no later
\* batch selects it (claimSingleAttempt commits before createOutbound).
THEOREM ReservationPrecedesRequest ==
  ASSUME ~CleanupRuns PROVE Spec => []ReservedBeforeCall
<1>1. MessageInv => ReservedBeforeCall
  <2> SUFFICES ASSUME MessageInv, NEW s \in Send, msg[s] # "none", IsWorkerSend(s)
               PROVE  row[s[2]].status # "pending"
    BY DEF ReservedBeforeCall
  <2> QED  BY SendNames DEF MessageInv
<1> QED  BY <1>1, MessagesAreUnique, PTL
-----------------------------------------------------------------------------
(***************************************************************************)
(* What Meta accepted and what the campaign reports.                       *)
(***************************************************************************)
\* A step that asks Meta nothing and learns no answer.
AnswersKept ==
  /\ calls' = calls /\ inflight' = inflight /\ accepted' = accepted
  /\ \A s \in Send : /\ msg[s] # "none" => msg'[s] # "none"
                     /\ phase'[s] \in {"answered", "confirmed"} =>
                          phase[s] \in {"answered", "confirmed"}

\* Such a step keeps the invariant of Meta's decisions.
LEMMA AnswersFrame ==
  ASSUME TypeOK, AcceptInv, AnswersKept PROVE AcceptInv'
BY DEF TypeOK, AcceptInv, AnswersKept

\* Only the request, Meta's decision and its answer do more than that.
LEMMA AnswersKeptElsewhere ==
  ASSUME ~CleanupRuns, TypeOK, Next,
         \A s \in Send : ~CallMeta(s) /\ ~MetaDecides(s) /\ ~ReceiveAnswer(s)
  PROVE  AnswersKept
<1>1. ASSUME NEW w \in Worker, ExecutionStep(w) PROVE AnswersKept
  BY <1>1 DEF TypeOK, AnswersKept, ExecutionStep, AcquireLock, SelectBatch,
     StartChunk, FinishBatch, StopExecution, AbortExecution, Leave, Crash, HeartbeatFails,
     db, meta
<1>2. ASSUME NEW w \in Worker, NEW r \in Row, RecipientStep(w, r) PROVE AnswersKept
  BY <1>2, SendNames DEF TypeOK, AnswersKept, Goto, RecipientStep, SkipMissingContact,
     RejectRecipient, FailInvalidRecipient, PrepareRecipient, DeferPendingRecipient,
     CheckLock, FailBeforeClaim, ClaimSingleAttempt, RecordSent, SaveFailure,
     RecordRecipientFailureCounts, db, meta
<1>3. ASSUME NEW s \in Send, SendStep(s) PROVE AnswersKept
  <2> USE DEF TypeOK, AnswersKept, Goto, Thrown
  <2>1. CASE RefuseBeforeCreate(s)  BY <2>1 DEF RefuseBeforeCreate, db, meta
  <2>2. CASE CannotSend(s)  BY <2>2 DEF CannotSend, db, meta
  <2>3. CASE CreateOutbound(s)  BY <2>3 DEF CreateOutbound, meta
  <2>4. CASE SaveWamid(s)  BY <2>4 DEF SaveWamid, meta
  <2>5. CASE SaveRefusal(s)  BY <2>5 DEF SaveRefusal, meta
  <2>6. CASE DatabaseFailsInSend(s)  BY <2>6 DEF DatabaseFailsInSend, db, meta
  <2> QED  BY <1>3, <2>1, <2>2, <2>3, <2>4, <2>5, <2>6 DEF SendStep, DeleteOldMessage
<1>4. ASSUME NEW t \in Tester, StartTestSend(t) PROVE AnswersKept
  BY <1>4, SendNames DEF TypeOK, AnswersKept, Goto, StartTestSend, db, meta
<1>5. ASSUME NEW r \in Row, RetryTimeArrives(r) PROVE AnswersKept
  BY <1>5 DEF AnswersKept, RetryTimeArrives, meta
<1>6. LockExpires => AnswersKept
  BY DEF AnswersKept, LockExpires, db, meta
<1> QED  BY <1>1, <1>2, <1>3, <1>4, <1>5, <1>6 DEF Next

\* The inductive step of Meta's decisions.
LEMMA AcceptStep ==
  ASSUME ~CleanupRuns, TypeOK, MessageInv, AcceptInv, Next PROVE AcceptInv'
<1>1. ASSUME NEW s \in Send, CallMeta(s) PROVE AcceptInv'
  <2>1. /\ phase[s] = "created" /\ phase' = [phase EXCEPT ![s] = "called"]
        /\ msg' = msg /\ inflight' = inflight \cup {s} /\ accepted' = accepted
        /\ calls' = [calls EXCEPT ![Target(s)] = calls[Target(s)] + 1]
    BY <1>1 DEF CallMeta, Goto, db
  <2>2. calls[Target(s)] = 0 /\ msg[s] # "none"
    BY <2>1 DEF MessageInv, Messaged
  <2>3. \A u \in inflight \cup accepted : Target(u) # Target(s)
    BY <2>2 DEF AcceptInv
  <2>4. s \notin accepted
    BY <2>3
  <2> QED  BY <2>1, <2>2, <2>3, <2>4, SendNames DEF AcceptInv, TypeOK
<1>2. ASSUME NEW s \in Send, MetaDecides(s) PROVE AcceptInv'
  BY <1>2 DEF MetaDecides, AcceptInv, TypeOK, db
<1>3. ASSUME NEW s \in Send, ReceiveAnswer(s) PROVE AcceptInv'
  BY <1>3 DEF ReceiveAnswer, Goto, AcceptInv, TypeOK, db, meta
<1> QED  BY <1>1, <1>2, <1>3, AnswersKeptElsewhere, AnswersFrame

\* A row is linked to a message only by recordSent; no other step makes it sent.
LEMMA ReportedElsewhere ==
  ASSUME ~CleanupRuns, TypeOK, [Next]_vars,
         \A w \in Worker, r \in Row : ~RecordSent(w, r)
  PROVE  /\ \A q \in Row : /\ row'[q].message = row[q].message
                           /\ row'[q].status = "sent" => row[q].status = "sent"
         /\ sent_count' = sent_count
<1> row \in [Row -> RowState]  BY DEF TypeOK
<1> DEFINE Kept == \A q \in Row : /\ row'[q].message = row[q].message
                                  /\ row'[q].status = "sent" => row[q].status = "sent"
<1>1. row' = row => Kept
  OBVIOUS
<1>2. ASSUME NEW r \in Row, NEW st \in RowStatus, NEW d \in {"none", "later"},
             row' = WithStatus(r, st, d), st = "sent" => row[r].status = "sent"
      PROVE  Kept
  <2>1. /\ \A q \in Row : row'[q].message = row[q].message
        /\ row'[r].status = st
        /\ \A q \in Row : q # r => row'[q] = row[q]
    BY <1>2, RowUpdate
  <2> QED  BY <1>2, <2>1
<1>3. ASSUME NEW r \in Row, UpdateStatus(r, "failed") \/ UpdateStatus(r, "skipped") PROVE Kept
  <2>1. row[r].retry \in {"none", "later"}  BY RowFields
  <2> QED  BY <1>2, <1>3, <2>1 DEF UpdateStatus, RowStatus
<1> HIDE DEF Kept
<1>4. ASSUME NEW w \in Worker, NEW r \in Row, RecipientStep(w, r) PROVE Kept
  <2>1. CASE SkipMissingContact(w, r)  BY <1>3, <2>1 DEF SkipMissingContact
  <2>2. CASE FailInvalidRecipient(w, r)  BY <1>1, <1>3, <2>2 DEF FailInvalidRecipient
  <2>3. CASE DeferPendingRecipient(w, r)
    BY <1>1, <1>2, <2>3 DEF DeferPendingRecipient, RowStatus
  <2>4. CASE ClaimSingleAttempt(w, r)
    BY <1>1, <1>2, <2>4 DEF ClaimSingleAttempt, Claimed, RowStatus
  <2>5. CASE SaveFailure(w, r)  BY <1>1, <1>2, <2>5 DEF SaveFailure, RowStatus
  <2> QED
    BY <1>1, <1>4, <2>1, <2>2, <2>3, <2>4, <2>5
    DEF RecipientStep, RejectRecipient, PrepareRecipient, CheckLock, FailBeforeClaim,
        RecordRecipientFailureCounts, db
<1>5. ASSUME NEW w \in Worker, NEW r \in Row, RecipientStep(w, r) PROVE sent_count' = sent_count
  BY <1>5 DEF RecipientStep, SkipMissingContact, RejectRecipient, FailInvalidRecipient,
     PrepareRecipient, DeferPendingRecipient, CheckLock, FailBeforeClaim, ClaimSingleAttempt,
     SaveFailure, RecordRecipientFailureCounts, db
<1>6. ASSUME NEW w \in Worker, ExecutionStep(w) PROVE row' = row /\ sent_count' = sent_count
  BY <1>6 DEF ExecutionStep, AcquireLock, SelectBatch, StartChunk, FinishBatch,
     StopExecution, AbortExecution, Crash, HeartbeatFails, db
<1>7. ASSUME NEW s \in Send, SendStep(s) PROVE row' = row /\ sent_count' = sent_count
  BY <1>7 DEF SendStep, RefuseBeforeCreate, CreateOutbound, CannotSend, CallMeta, MetaDecides,
     ReceiveAnswer, SaveWamid, SaveRefusal, DatabaseFailsInSend, DeleteOldMessage, db
<1>8. ASSUME NEW r \in Row, RetryTimeArrives(r) PROVE Kept /\ sent_count' = sent_count
  <2>1. row' = WithStatus(r, row[r].status, "none") /\ sent_count' = sent_count
    BY <1>8 DEF RetryTimeArrives
  <2> QED  BY <1>2, <2>1, RowFields
<1>9. ASSUME NEW t \in Tester, StartTestSend(t) PROVE row' = row /\ sent_count' = sent_count
  BY <1>9 DEF StartTestSend, db
<1>10. LockExpires => row' = row /\ sent_count' = sent_count
  BY DEF LockExpires, db
<1>11. UNCHANGED vars => row' = row /\ sent_count' = sent_count
  BY DEF vars
<1>12. Kept /\ sent_count' = sent_count
  BY <1>1, <1>4, <1>5, <1>6, <1>7, <1>8, <1>9, <1>10, <1>11 DEF Next
<1> QED  BY <1>12 DEF Kept

\* What recordSent commits: its row, not linked before, is linked to the
\* message that Meta accepted for it, and counted.
LEMMA RecordSentCommits ==
  ASSUME TypeOK, ClaimInv, AcceptInv, NEW w \in Worker, NEW r \in Row, RecordSent(w, r),
         ~(row' = row /\ sent_count' = sent_count)
  PROVE  /\ <<w, r>> \in accepted
         /\ r \notin Reported
         /\ Reported' = Reported \cup {r}
         /\ sent_count' = sent_count + 1
         /\ row'[r].message = <<w, r>>
         /\ \A q \in Row : q # r => row'[q] = row[q]
         /\ UNCHANGED <<calls, accepted>>
<1>1. phase[<<w, r>>] = "confirmed"
  BY DEF RecordSent
<1>2. <<w, r>> \in accepted
  BY <1>1, SendNames DEF AcceptInv
<1>3. r \notin Reported
  BY <1>1, SendNames DEF ClaimInv, Reserved, Reported
<1>4. /\ row' = [row EXCEPT ![r] = [status |-> "sent", message |-> <<w, r>>, retry |-> "none"]]
      /\ sent_count' = sent_count + 1
  BY DEF RecordSent
<1>5. row'[r].message = <<w, r>> /\ \A q \in Row : q # r => row'[q] = row[q]
  BY <1>4 DEF TypeOK
<1>6. <<w, r>> # NoMessage
  BY SendNames
<1>7. Reported' = Reported \cup {r}
  BY <1>5, <1>6 DEF Reported
<1> QED  BY <1>2, <1>3, <1>4, <1>5, <1>7 DEF RecordSent, meta

\* Accepted requests stay accepted.
LEMMA AcceptedGrows ==
  ASSUME TypeOK, [Next]_vars PROVE accepted \subseteq accepted'
<1>1. ASSUME NEW w \in Worker, ExecutionStep(w) PROVE accepted' = accepted
  BY <1>1 DEF ExecutionStep, AcquireLock, SelectBatch, StartChunk, FinishBatch,
     StopExecution, AbortExecution, Crash, HeartbeatFails, meta
<1>2. ASSUME NEW w \in Worker, NEW r \in Row, RecipientStep(w, r) PROVE accepted' = accepted
  BY <1>2 DEF RecipientStep, SkipMissingContact, RejectRecipient, FailInvalidRecipient,
     PrepareRecipient, DeferPendingRecipient, CheckLock, FailBeforeClaim, ClaimSingleAttempt,
     RecordSent, SaveFailure, RecordRecipientFailureCounts, meta
<1>3. ASSUME NEW s \in Send, SendStep(s) PROVE accepted \subseteq accepted'
  BY <1>3 DEF SendStep, RefuseBeforeCreate, CreateOutbound, CannotSend, CallMeta, MetaDecides,
     ReceiveAnswer, SaveWamid, SaveRefusal, DatabaseFailsInSend, DeleteOldMessage, meta
<1>4. ASSUME NEW t \in Tester, StartTestSend(t) PROVE accepted' = accepted
  BY <1>4 DEF StartTestSend, meta
<1>5. ASSUME NEW r \in Row, RetryTimeArrives(r) PROVE accepted' = accepted
  BY <1>5 DEF RetryTimeArrives, meta
<1>6. LockExpires => accepted' = accepted
  BY DEF LockExpires, meta
<1>7. UNCHANGED vars => accepted' = accepted
  BY DEF vars
<1> QED  BY <1>1, <1>2, <1>3, <1>4, <1>5, <1>6, <1>7 DEF Next

\* The inductive step of the recipients reported as sent.
LEMMA SentStep ==
  ASSUME ~CleanupRuns, TypeOK, ClaimInv, AcceptInv, SentMeansAccepted, [Next]_vars
  PROVE  SentMeansAccepted'
<1>1. IsFiniteSet(Reported)
  BY RowsAssumption, FS_Subset DEF Reported
<1>2. ASSUME NEW w \in Worker, NEW r \in Row, RecordSent(w, r),
             ~(row' = row /\ sent_count' = sent_count)
      PROVE  SentMeansAccepted'
  <2>1. /\ <<w, r>> \in accepted
        /\ r \notin Reported
        /\ Reported' = Reported \cup {r}
        /\ sent_count' = sent_count + 1
        /\ row'[r].message = <<w, r>>
        /\ \A q \in Row : q # r => row'[q] = row[q]
        /\ UNCHANGED <<calls, accepted>>
    BY <1>2, RecordSentCommits
  <2>2. Cardinality(Reported') = Cardinality(Reported) + 1
    BY <1>1, <2>1, FS_AddElement
  <2>3. \A q \in Row : row'[q].status = "sent" => q \in Reported'
    BY <2>1 DEF SentMeansAccepted
  <2>4. \A q \in Reported' : row'[q].message \in accepted' /\ row'[q].message[2] = q
    <3> SUFFICES ASSUME NEW q \in Reported'
                 PROVE  row'[q].message \in accepted' /\ row'[q].message[2] = q
      OBVIOUS
    <3>1. CASE q = r  BY <2>1, <3>1
    <3>2. CASE q # r
      <4>1. q \in Reported /\ q \in Row  BY <2>1, <3>2 DEF Reported
      <4> QED  BY <2>1, <3>2, <4>1 DEF SentMeansAccepted
    <3> QED  BY <3>1, <3>2
  <2> QED  BY <2>1, <2>2, <2>3, <2>4 DEF SentMeansAccepted
<1>3. CASE \A w \in Worker, r \in Row : RecordSent(w, r) => row' = row /\ sent_count' = sent_count
  <2>1. /\ \A q \in Row : /\ row'[q].message = row[q].message
                          /\ row'[q].status = "sent" => row[q].status = "sent"
        /\ sent_count' = sent_count
    BY <1>3, ReportedElsewhere
  <2>2. Reported' = Reported
    BY <2>1 DEF Reported
  <2>3. accepted \subseteq accepted'
    BY AcceptedGrows
  <2>4. \A q \in Reported : q \in Row
    BY DEF Reported
  <2> QED  BY <2>1, <2>2, <2>3, <2>4 DEF SentMeansAccepted
<1> QED  BY <1>2, <1>3

\* IInv is inductive while message history is not deleted.
THEOREM Invariance == ASSUME ~CleanupRuns PROVE Spec => []IInv
<1>1. Init => AcceptInv /\ SentMeansAccepted
  <2>1. Init => Reported = {}
    BY DEF Init, Reported
  <2>2. Cardinality({}) = 0
    BY FS_EmptySet
  <2>3. Init => AcceptInv
    BY DEF Init, AcceptInv
  <2>4. Init => \A r \in Row : row[r].status # "sent"
    BY DEF Init
  <2> QED  BY <2>1, <2>2, <2>3, <2>4 DEF Init, SentMeansAccepted
<1>2. TypeOK /\ ClaimInv /\ MessageInv /\ AcceptInv /\ SentMeansAccepted /\ [Next]_vars
        => AcceptInv' /\ SentMeansAccepted'
  <2>1. AcceptInv /\ UNCHANGED vars => AcceptInv'
    BY DEF vars, AcceptInv
  <2> QED  BY <2>1, AcceptStep, SentStep
<1> QED
  BY <1>1, <1>2, TypeCorrect, ClaimsAreExclusive, MessagesAreUnique, PTL DEF Spec, IInv

\* The campaign reports a recipient as sent, and counts it, only for the
\* message that Meta accepted for it, whatever crashed in between.
THEOREM ReportsAreTrue == ASSUME ~CleanupRuns PROVE Spec => []SentMeansAccepted
<1>1. IInv => SentMeansAccepted
  BY DEF IInv
<1> QED  BY <1>1, Invariance, PTL
-----------------------------------------------------------------------------
(***************************************************************************)
(* CampaignSend implements AtMostOnceDelivery.                             *)
(***************************************************************************)
AcceptedPhones == {Target(s) : s \in accepted}

\* Every step is a step of the promise or changes nothing of it.
LEMMA DeliveryStep ==
  ASSUME ~CleanupRuns, IInv, IInv', [Next]_vars
  PROVE  [Delivery!Next]_(Delivery!vars)
<1> USE DEF IInv
<1>1. ASSUME NEW s \in Send, CallMeta(s) PROVE Delivery!Next
  <2>1. phase[s] = "created" /\ Target(s) \in Phone
    BY <1>1, SendNames DEF CallMeta
  <2>2. calls[Target(s)] = 0
    BY <2>1 DEF MessageInv
  <2>3. /\ calls' = [calls EXCEPT ![Target(s)] = 1]
        /\ accepted' = accepted /\ row' = row /\ sent_count' = sent_count
    BY <1>1, <2>2 DEF CallMeta, db
  <2>4. Delivery!Ask(Target(s))
    BY <2>2, <2>3 DEF Delivery!Ask, Reported
  <2> QED  BY <2>1, <2>4 DEF Delivery!Next
<1>2. ASSUME NEW s \in Send, MetaDecides(s), accepted' # accepted PROVE Delivery!Next
  <2>1. /\ s \in inflight /\ accepted' = accepted \cup {s}
        /\ calls' = calls /\ row' = row /\ sent_count' = sent_count
    BY <1>2 DEF MetaDecides, db
  <2>2. calls[Target(s)] = 1 /\ msg[s] # "none" /\ s \notin accepted
    BY <2>1 DEF AcceptInv
  <2>3. \A u \in accepted : Target(u) # Target(s)
    BY <2>2 DEF AcceptInv, MessageInv, TypeOK
  <2>4. AcceptedPhones' = AcceptedPhones \cup {Target(s)} /\ Target(s) \notin AcceptedPhones
    BY <2>1, <2>3 DEF AcceptedPhones, Target
  <2>5. Delivery!Accept(Target(s))
    BY <2>1, <2>2, <2>4 DEF Delivery!Accept, Reported, AcceptedPhones
  <2> QED  BY <2>5, SendNames DEF Delivery!Next
<1>3. ASSUME NEW w \in Worker, NEW r \in Row, RecordSent(w, r),
             ~(row' = row /\ sent_count' = sent_count)
      PROVE  Delivery!Next
  <2>1. /\ <<w, r>> \in accepted
        /\ r \notin Reported
        /\ Reported' = Reported \cup {r}
        /\ sent_count' = sent_count + 1
        /\ UNCHANGED <<calls, accepted>>
    BY <1>3, RecordSentCommits
  <2>2. phoneOf[r] \in AcceptedPhones
    BY <2>1, SendNames DEF AcceptedPhones
  <2>3. ASSUME NEW q \in Reported, phoneOf[q] = phoneOf[r] PROVE FALSE
    <3>1. q \in Row /\ row[q].message \in accepted /\ row[q].message[2] = q
      BY DEF SentMeansAccepted, Reported
    <3>2. row[q].message \in Send /\ IsWorkerSend(row[q].message)
      BY <3>1 DEF TypeOK, IsWorkerSend
    <3>3. Target(row[q].message) = phoneOf[q] /\ Target(<<w, r>>) = phoneOf[r]
      BY <3>1, <3>2, SendNames DEF Target, IsWorkerSend
    <3>4. msg[row[q].message] # "none" /\ msg[<<w, r>>] # "none"
      BY <2>1, <3>1 DEF AcceptInv
    <3>5. row[q].message = <<w, r>>
      BY <2>3, <3>2, <3>3, <3>4, SendNames DEF MessageInv
    <3>6. q = r
      BY <3>1, <3>5
    <3> QED  BY <2>1, <3>6
  <2>4. Delivery!Report(r)
    BY <2>1, <2>2, <2>3 DEF Delivery!Report, AcceptedPhones
  <2> QED  BY <2>4 DEF Delivery!Next
<1>4. CASE /\ \A s \in Send : ~CallMeta(s) /\ (MetaDecides(s) => accepted' = accepted)
           /\ \A w \in Worker, r \in Row :
                RecordSent(w, r) => row' = row /\ sent_count' = sent_count
  <2>1. Reported' = Reported /\ sent_count' = sent_count
    BY <1>4, ReportedElsewhere DEF Reported
  <2>2. calls' = calls /\ accepted' = accepted
    <3>1. CASE \E s \in Send : MetaDecides(s) \/ ReceiveAnswer(s)
      BY <1>4, <3>1 DEF MetaDecides, ReceiveAnswer, meta
    <3>2. CASE UNCHANGED vars  BY <3>2 DEF vars
    <3>3. CASE Next /\ \A s \in Send : ~MetaDecides(s) /\ ~ReceiveAnswer(s)
      BY <1>4, <3>3, AnswersKeptElsewhere DEF AnswersKept
    <3> QED  BY <3>1, <3>2, <3>3
  <2> QED  BY <2>1, <2>2 DEF Delivery!vars
<1> QED  BY <1>1, <1>2, <1>3, <1>4

\* The senders implement the promise of at-most-once delivery.
THEOREM Implementation ==
  ASSUME ~CleanupRuns PROVE Spec => ImplementsAtMostOnceDelivery
<1>1. Init => Delivery!Init
  BY DEF Init, Delivery!Init, Reported
<1>2. IInv /\ IInv' /\ [Next]_vars => [Delivery!Next]_(Delivery!vars)
  BY DeliveryStep
<1> QED  BY <1>1, <1>2, Invariance, PTL DEF Spec, ImplementsAtMostOnceDelivery, Delivery!Spec
-----------------------------------------------------------------------------
(***************************************************************************)
(* The counters, and the outcomes reported as sent, while a live worker    *)
(* keeps its lock.                                                         *)
(***************************************************************************)
StatusKept == \A q \in Row : row'[q].status = row[q].status

\* No step but those of a recipient changes what became of a recipient, or a counter.
LEMMA StatusKeptElsewhere ==
  ASSUME TypeOK,
         \/ \E w \in Worker : ExecutionStep(w)
         \/ \E s \in Send : SendStep(s)
         \/ \E t \in Tester : StartTestSend(t)
         \/ \E r \in Row : RetryTimeArrives(r)
         \/ LockExpires
         \/ UNCHANGED vars
  PROVE  StatusKept /\ UNCHANGED <<sent_count, failed_count>>
<1> row \in [Row -> RowState]  BY DEF TypeOK
<1> DEFINE Kept == StatusKept /\ UNCHANGED <<sent_count, failed_count>>
<1>1. UNCHANGED <<row, sent_count, failed_count>> => Kept
  BY DEF StatusKept
<1> HIDE DEF Kept
<1>2. ASSUME NEW w \in Worker, ExecutionStep(w) PROVE Kept
  BY <1>1, <1>2 DEF ExecutionStep, AcquireLock, SelectBatch, StartChunk, FinishBatch,
     StopExecution, AbortExecution, Crash, HeartbeatFails, db
<1>3. ASSUME NEW s \in Send, SendStep(s) PROVE Kept
  <2>1. CASE DeleteOldMessage(s)
    BY <2>1 DEF DeleteOldMessage, StatusKept, Kept
  <2>2. CASE ~DeleteOldMessage(s)
    BY <1>1, <1>3, <2>2 DEF SendStep, RefuseBeforeCreate, CreateOutbound, CannotSend,
       CallMeta, MetaDecides, ReceiveAnswer, SaveWamid, SaveRefusal, DatabaseFailsInSend, db
  <2> QED  BY <2>1, <2>2
<1>4. ASSUME NEW r \in Row, RetryTimeArrives(r) PROVE Kept
  <2>1. /\ row' = WithStatus(r, row[r].status, "none")
        /\ UNCHANGED <<sent_count, failed_count>>
    BY <1>4 DEF RetryTimeArrives
  <2>2. row[r].status \in RowStatus
    BY RowFields
  <2>3. \A st \in RowStatus, d \in {"none", "later"} :
          /\ WithStatus(r, st, d)[r].status = st
          /\ \A q \in Row : q # r => WithStatus(r, st, d)[q] = row[q]
    BY RowUpdate
  <2>4. row'[r].status = row[r].status /\ \A q \in Row : q # r => row'[q] = row[q]
    BY <2>1, <2>2, <2>3
  <2>5. StatusKept
    BY <2>4 DEF StatusKept
  <2> QED  BY <2>1, <2>5 DEF Kept
<1>5. ASSUME NEW t \in Tester, StartTestSend(t) PROVE Kept
  BY <1>1, <1>5 DEF StartTestSend, db
<1>6. LockExpires => Kept
  BY <1>1 DEF LockExpires, db
<1>7. UNCHANGED vars => Kept
  BY <1>1 DEF vars
<1> QED  BY <1>2, <1>3, <1>4, <1>5, <1>6, <1>7 DEF Kept

\* What sendMessage and Meta do to the send of a recipient: a claimed one stays
\* claimed or is given up.
LEMMA ClaimsMoveOn ==
  ASSUME TypeOK, NEW s \in Send, SendStep(s), NEW w \in Worker, NEW r \in Row
  PROVE  \/ phase'[<<w, r>>] = phase[<<w, r>>]
         \/ /\ phase[<<w, r>>] \in Reserved
            /\ phase'[<<w, r>>] \in Reserved \cup {"infrastructure"}
<1>1. <<w, r>> \in Send /\ IsWorkerSend(<<w, r>>)
  BY SendNames
<1> QED
  BY <1>1 DEF TypeOK, Reserved, Goto, Thrown, SendStep, RefuseBeforeCreate, CreateOutbound,
     CannotSend, CallMeta, MetaDecides, ReceiveAnswer, SaveWamid, SaveRefusal,
     DatabaseFailsInSend, DeleteOldMessage, db, worker

\* A step of a recipient changes that recipient's row alone, and leaves it
\* pending while its send is unattempted, failed while it is claimed or uncounted.
RowFollowsSend(w, r) ==
  /\ phase[<<w, r>>] \in Unattempted \cup Uncounted
  /\ \A u \in Send : u # <<w, r>> => phase'[u] = phase[u]
  /\ \A q \in Row : q # r => row'[q] = row[q]
  /\ phase'[<<w, r>>] \in Unattempted => row'[r].status = "pending"
  /\ phase'[<<w, r>>] \in Uncounted => row'[r].status = "failed"
  /\ \/ row'[r].status = "sent" /\ sent_count' = sent_count + 1
     \/ row'[r].status # "sent" /\ sent_count' = sent_count
  /\ \/ failed_count' = failed_count
     \/ /\ failed_count' = failed_count + 1 /\ phase[<<w, r>>] = "counting"
        /\ phase'[<<w, r>>] \notin Uncounted /\ row'[r].status = "failed"
  /\ UNCHANGED worker

\* Every step of a recipient is such a step while its worker owns the lock.
LEMMA RowFollowsRecipient ==
  ASSUME TypeOK, LeaseInv, NEW w \in Worker, NEW r \in Row, RecipientStep(w, r)
  PROVE  RowFollowsSend(w, r)
<1> <<w, r>> \in Send  BY SendNames
<1> row \in [Row -> RowState] /\ phase \in [Send -> Phase] /\ row[r] \in RowState
  BY DEF TypeOK
<1>0. /\ phase[<<w, r>>] \in Unattempted => row[r].status = "pending"
      /\ phase[<<w, r>>] \in Uncounted => row[r].status = "failed"
  BY DEF LeaseInv
<1>1. \A st \in RowStatus, d \in {"none", "later"} :
        row' = WithStatus(r, st, d) =>
          row'[r].status = st /\ \A q \in Row : q # r => row'[q] = row[q]
  BY RowUpdate
<1>2. \A st \in {"failed", "skipped"} : UpdateStatus(r, st) =>
        row'[r].status = st /\ \A q \in Row : q # r => row'[q] = row[q]
  <2>1. row[r].retry \in {"none", "later"}  BY RowFields
  <2> QED  BY <1>1, <2>1 DEF UpdateStatus, RowStatus
<1> USE DEF RowFollowsSend, Goto, Unattempted, Uncounted, Reserved
<1>3. CASE SkipMissingContact(w, r)  BY <1>0, <1>2, <1>3 DEF SkipMissingContact
<1>4. CASE RejectRecipient(w, r)  BY <1>0, <1>4 DEF RejectRecipient, db
<1>5. CASE FailInvalidRecipient(w, r)  BY <1>0, <1>2, <1>5 DEF FailInvalidRecipient
<1>6. CASE PrepareRecipient(w, r)  BY <1>0, <1>6 DEF PrepareRecipient, db
<1>7. CASE DeferPendingRecipient(w, r)
  BY <1>0, <1>1, <1>7 DEF DeferPendingRecipient, RowStatus
<1>8. CASE CheckLock(w, r)  BY <1>0, <1>8 DEF CheckLock, db
<1>9. CASE FailBeforeClaim(w, r)  BY <1>0, <1>9 DEF FailBeforeClaim, db
<1>10. CASE ClaimSingleAttempt(w, r)
  BY <1>0, <1>1, <1>10 DEF ClaimSingleAttempt, Claimed, RowStatus
<1>11. CASE RecordSent(w, r)  BY <1>0, <1>11 DEF RecordSent
<1>12. CASE SaveFailure(w, r)  BY <1>0, <1>1, <1>12 DEF SaveFailure, RowStatus
<1>13. CASE RecordRecipientFailureCounts(w, r)
  BY <1>0, <1>13 DEF RecordRecipientFailureCounts
<1> QED
  BY <1>3, <1>4, <1>5, <1>6, <1>7, <1>8, <1>9, <1>10, <1>11, <1>12, <1>13 DEF RecipientStep

\* The steps of the execution loop keep the lock's invariant.
LEMMA LeaseExecution ==
  ASSUME ~LeaseCanLapse, TypeOK, LeaseInv, NEW w \in Worker, ExecutionStep(w)
  PROVE  LeaseInv'
<1> USE SendNames DEF TypeOK, LeaseInv, db, worker
<1>0. row' = row
  BY DEF ExecutionStep, AcquireLock, SelectBatch, StartChunk, FinishBatch,
     StopExecution, AbortExecution, Crash, HeartbeatFails
<1>1. CASE AcquireLock(w)  BY <1>0, <1>1 DEF AcquireLock
<1>2. CASE SelectBatch(w)
  <2>1. PICK b \in SUBSET Ready : batch' = [batch EXCEPT ![w] = b]
    BY <1>2 DEF SelectBatch
  <2>2. \A r \in Row : r \in batch'[w] => row[r].status = "pending"
    BY <2>1 DEF Ready
  <2>3. /\ exec[w] = "selecting" /\ exec' = [exec EXCEPT ![w] = "sending"]
        /\ phase' = phase /\ lock' = lock
    BY <1>2 DEF SelectBatch
  <2> QED  BY <1>0, <2>1, <2>2, <2>3
<1>3. CASE StartChunk(w)
  <2>1. PICK c \in SUBSET batch[w] :
          /\ batch' = [batch EXCEPT ![w] = @ \ c]
          /\ phase' = [s \in Send |->
               IF s[1] = w
                 THEN IF s[2] \in c THEN IF lockLost[w] THEN "infrastructure" ELSE "preflight"
                                    ELSE "none"
                 ELSE phase[s]]
    BY <1>3 DEF StartChunk
  <2>2. exec[w] = "sending" /\ exec' = exec /\ lock' = lock
    BY <1>3 DEF StartChunk
  <2>3. \A v \in Worker, r \in Row :
          phase'[<<v, r>>] = IF v = w THEN IF r \in c THEN IF lockLost[w] THEN "infrastructure"
                                                           ELSE "preflight"
                                           ELSE "none"
                             ELSE phase[<<v, r>>]
    BY <2>1
  <2>4. \A v \in Worker, r \in Row : r \in batch'[v] => r \in batch[v] /\ (v = w => r \notin c)
    BY <2>1
  <2> QED  BY <1>0, <2>1, <2>2, <2>3, <2>4 DEF Unattempted, Uncounted, Reserved
<1>4. CASE FinishBatch(w)
  <2>1. /\ exec[w] = "sending" /\ exec' = [exec EXCEPT ![w] = "selecting"] /\ lock' = lock
        /\ batch[w] = {} /\ batch' = batch
        /\ phase' = [s \in Send |-> IF s[1] = w THEN "none" ELSE phase[s]]
    BY <1>4 DEF FinishBatch
  <2> QED  BY <1>0, <2>1 DEF Unattempted, Uncounted, Reserved
<1>5. CASE Leave(w)
  <2>1. \A v \in Worker : v # w => (exec[v] # "idle" => lock' = v)
    BY <1>5 DEF Leave
  <2> QED  BY <1>0, <1>5, <2>1 DEF Leave, Unattempted, Uncounted, Reserved
<1>6. CASE Crash(w)
  <2>1. /\ exec' = [exec EXCEPT ![w] = "idle"] /\ lock' = lock
        /\ batch' = [batch EXCEPT ![w] = {}]
        /\ phase' = [s \in Send |-> IF s[1] = w THEN "none" ELSE phase[s]]
    BY <1>6 DEF Crash
  <2> QED  BY <1>0, <2>1 DEF Unattempted, Uncounted, Reserved
<1>7. CASE HeartbeatFails(w)  BY <1>0, <1>7 DEF HeartbeatFails
<1> QED
  BY <1>1, <1>2, <1>3, <1>4, <1>5, <1>6, <1>7 DEF ExecutionStep, StopExecution, AbortExecution

\* A step of a recipient keeps it: the other workers do nothing meanwhile.
LEMMA LeaseRecipient ==
  ASSUME TypeOK, LeaseInv, NEW w \in Worker, NEW r \in Row, RowFollowsSend(w, r)
  PROVE  LeaseInv'
<1>1. phase[<<w, r>>] \in Unattempted \cup Uncounted /\ phase[<<w, r>>] # "none"
  BY DEF RowFollowsSend, Unattempted, Uncounted, Reserved
<1>2. exec[w] = "sending" /\ r \notin batch[w]
  BY <1>1 DEF LeaseInv
<1>3. \A v \in Worker : v # w => exec[v] = "idle"
  BY <1>2 DEF LeaseInv
<1>4. \A v \in Worker, q \in Row :
        ~(v = w /\ q = r) => phase'[<<v, q>>] = phase[<<v, q>>]
  BY SendNames DEF RowFollowsSend
<1>5. lock' = lock /\ exec' = exec /\ batch' = batch
  BY DEF RowFollowsSend, worker
<1>6. \A v \in Worker : exec'[v] # "idle" => lock' = v
  BY <1>5 DEF LeaseInv
<1> SUFFICES ASSUME NEW v \in Worker, NEW q \in Row
             PROVE  /\ phase'[<<v, q>>] # "none" \/ q \in batch'[v] => exec'[v] = "sending"
                    /\ q \in batch'[v] => phase'[<<v, q>>] = "none"
                    /\ q \in batch'[v] \/ phase'[<<v, q>>] \in Unattempted
                         => row'[q].status = "pending"
                    /\ phase'[<<v, q>>] \in Uncounted => row'[q].status = "failed"
  BY <1>6 DEF LeaseInv
<1>7. CASE v = w /\ q = r
  BY <1>2, <1>5, <1>7 DEF RowFollowsSend
<1>8. CASE q # r
  <2>1. row'[q] = row[q]  BY <1>8 DEF RowFollowsSend
  <2> QED  BY <1>4, <1>5, <1>8, <2>1 DEF LeaseInv
<1>9. CASE v # w
  <2>1. exec[v] = "idle"  BY <1>3, <1>9
  <2>2. phase[<<v, q>>] = "none" /\ q \notin batch[v]
    BY <2>1 DEF LeaseInv
  <2> QED  BY <1>4, <1>5, <1>9, <2>2 DEF Unattempted, Uncounted, Reserved
<1> QED  BY <1>7, <1>8, <1>9

\* The lock's invariant is inductive while a live worker keeps its lock.
LEMMA LeaseStep ==
  ASSUME ~LeaseCanLapse, TypeOK, LeaseInv, [Next]_vars PROVE LeaseInv'
<1>1. ASSUME StatusKept, UNCHANGED worker,
             \A w \in Worker, r \in Row :
               \/ phase'[<<w, r>>] = phase[<<w, r>>]
               \/ /\ phase[<<w, r>>] \in Reserved
                  /\ phase'[<<w, r>>] \in Reserved \cup {"infrastructure"}
      PROVE  LeaseInv'
  BY <1>1 DEF LeaseInv, StatusKept, worker, Unattempted, Uncounted, Reserved
<1>2. ASSUME NEW s \in Send, SendStep(s) PROVE LeaseInv'
  <2>1. UNCHANGED worker
    BY <1>2 DEF SendStep, RefuseBeforeCreate, CreateOutbound, CannotSend, CallMeta, MetaDecides,
       ReceiveAnswer, SaveWamid, SaveRefusal, DatabaseFailsInSend, DeleteOldMessage, worker
  <2> QED  BY <1>1, <1>2, <2>1, ClaimsMoveOn, StatusKeptElsewhere
<1>3. ASSUME NEW t \in Tester, StartTestSend(t) PROVE LeaseInv'
  <2>1. \A w \in Worker, r \in Row : phase'[<<w, r>>] = phase[<<w, r>>]
    BY <1>3, SendNames DEF StartTestSend, Goto, TypeOK
  <2>2. UNCHANGED worker  BY <1>3 DEF StartTestSend
  <2> QED  BY <1>1, <1>3, <2>1, <2>2, StatusKeptElsewhere
<1>4. ASSUME NEW r \in Row, RetryTimeArrives(r) PROVE LeaseInv'
  <2>1. UNCHANGED <<worker, phase>>  BY <1>4 DEF RetryTimeArrives
  <2> QED  BY <1>1, <1>4, <2>1, StatusKeptElsewhere
<1>5. CASE LockExpires
  <2>1. /\ exec[lock] = "idle" /\ exec' = exec /\ batch' = batch /\ phase' = phase /\ row' = row
    BY <1>5 DEF LockExpires, db
  <2> QED  BY <2>1 DEF LeaseInv
<1>6. CASE UNCHANGED vars
  BY <1>6 DEF vars, LeaseInv
<1> QED
  BY <1>2, <1>3, <1>4, <1>5, <1>6, LeaseExecution, LeaseRecipient, RowFollowsRecipient DEF Next

\* While a live worker keeps its lock, only its owner works, and only on rows
\* that nobody else touched since it selected them.
THEOREM OwnersWorkAlone == ASSUME ~LeaseCanLapse PROVE Spec => []LeaseInv
<1>1. Init => LeaseInv
  BY SendNames DEF Init, LeaseInv, Unattempted, Uncounted, Reserved
<1> QED  BY <1>1, LeaseStep, TypeCorrect, PTL DEF Spec

\* While a live worker keeps its lock, a recipient reported as sent keeps that
\* outcome: no stale batch, late failure or deferral overwrites it.
THEOREM SentStaysSent == Spec => SentIsFinal
<1> DEFINE Kept == \A r \in Row : row[r].status = "sent" => row'[r].status = "sent"
<1>1. TypeOK /\ LeaseInv /\ [Next]_vars => [Kept]_row
  <2> SUFFICES ASSUME TypeOK, LeaseInv, [Next]_vars PROVE Kept
    OBVIOUS
  <2>1. StatusKept => Kept
    BY DEF StatusKept
  <2>2. ASSUME NEW w \in Worker, NEW r \in Row, RecipientStep(w, r) PROVE Kept
    <3>1. RowFollowsSend(w, r)
      BY <2>2, RowFollowsRecipient
    <3>2. row[r].status # "sent"
      BY <3>1 DEF RowFollowsSend, LeaseInv
    <3> QED  BY <3>1, <3>2 DEF RowFollowsSend
  <2> QED  BY <2>1, <2>2, StatusKeptElsewhere DEF Next
<1> HIDE DEF Kept
<1>2. CASE LeaseCanLapse
  BY <1>2, PTL DEF SentIsFinal
<1>3. CASE ~LeaseCanLapse
  <2>1. Spec => []LeaseInv
    BY <1>3, OwnersWorkAlone
  <2>2. [Kept]_row => [~LeaseCanLapse => Kept]_row
    OBVIOUS
  <2> QED  BY <1>1, <2>1, <2>2, TypeCorrect, PTL DEF Spec, SentIsFinal, Kept
<1> QED  BY <1>2, <1>3

\* The campaign's rows are finitely many, and so are those of one outcome.
LEMMA RowsFinite ==
  /\ IsFiniteSet(SentRows) /\ IsFiniteSet(FailuresPast)
  /\ Cardinality(SentRows) \in Nat /\ Cardinality(FailuresPast) \in Nat
<1>1. SentRows \subseteq Row /\ FailuresPast \subseteq Row
  BY DEF SentRows, FailuresPast
<1> QED  BY <1>1, RowsAssumption, FS_Subset, FS_CardinalityType

\* No step takes a failure out of those that were counted or given up; the
\* count of a failure adds the row to them.
LEMMA FailuresPastGrow ==
  ASSUME TypeOK, LeaseInv, [Next]_vars PROVE FailuresPast \subseteq FailuresPast'
<1> SUFFICES ASSUME NEW q \in FailuresPast PROVE q \in FailuresPast'
  OBVIOUS
<1>0. q \in Row /\ row[q].status = "failed" /\ \A v \in Worker : phase[<<v, q>>] \notin Uncounted
  BY DEF FailuresPast
<1>1. StatusKept /\ (\A v \in Worker : phase'[<<v, q>>] \notin Uncounted) => q \in FailuresPast'
  BY <1>0 DEF FailuresPast, StatusKept
<1>2. StatusKept /\ UNCHANGED phase => q \in FailuresPast'
  BY <1>0, <1>1
<1>3. ASSUME NEW w \in Worker, ExecutionStep(w) PROVE q \in FailuresPast'
  <2>1. \A v \in Worker : \/ phase'[<<v, q>>] = phase[<<v, q>>]
                          \/ phase'[<<v, q>>] \in {"none", "preflight", "infrastructure"}
    BY <1>0, <1>3, SendNames DEF TypeOK, ExecutionStep, AcquireLock, SelectBatch, StartChunk,
       FinishBatch, StopExecution, AbortExecution, Leave, Crash, HeartbeatFails
  <2> QED  BY <1>0, <1>1, <1>3, <2>1, StatusKeptElsewhere DEF Uncounted, Reserved
<1>4. ASSUME NEW w \in Worker, NEW r \in Row, RecipientStep(w, r) PROVE q \in FailuresPast'
  <2>1. RowFollowsSend(w, r)
    BY <1>4, RowFollowsRecipient
  <2>2. q # r
    BY <1>0, <2>1 DEF RowFollowsSend, LeaseInv
  <2>3. row'[q] = row[q] /\ \A v \in Worker : phase'[<<v, q>>] = phase[<<v, q>>]
    BY <1>0, <2>1, <2>2, SendNames DEF RowFollowsSend
  <2> QED  BY <1>0, <2>3 DEF FailuresPast
<1>5. ASSUME NEW s \in Send, SendStep(s) PROVE q \in FailuresPast'
  <2>1. \A v \in Worker : phase'[<<v, q>>] \notin Uncounted
    BY <1>0, <1>5, ClaimsMoveOn DEF Uncounted, Reserved
  <2> QED  BY <1>1, <1>5, <2>1, StatusKeptElsewhere
<1>6. ASSUME NEW t \in Tester, StartTestSend(t) PROVE q \in FailuresPast'
  <2>1. \A v \in Worker : phase'[<<v, q>>] = phase[<<v, q>>]
    BY <1>0, <1>6, SendNames DEF StartTestSend, Goto, TypeOK
  <2> QED  BY <1>0, <1>1, <1>6, <2>1, StatusKeptElsewhere
<1>7. ASSUME NEW r \in Row, RetryTimeArrives(r) PROVE q \in FailuresPast'
  BY <1>2, <1>7, StatusKeptElsewhere DEF RetryTimeArrives
<1>8. LockExpires \/ UNCHANGED vars => q \in FailuresPast'
  BY <1>2, StatusKeptElsewhere DEF LockExpires, vars
<1> QED  BY <1>3, <1>4, <1>5, <1>6, <1>7, <1>8 DEF Next

\* The inductive step of the counters.
LEMMA CountStep ==
  ASSUME TypeOK, LeaseInv, CountInv, [Next]_vars PROVE CountInv'
<1> DEFINE Past == FailuresPast
           PastNow == FailuresPast'
<1>0. /\ IsFiniteSet(SentRows) /\ IsFiniteSet(Past) /\ IsFiniteSet(PastNow)
      /\ Cardinality(Past) \in Nat /\ Cardinality(PastNow) \in Nat
  <2>1. FailuresPast' \subseteq Row
    BY DEF FailuresPast
  <2> QED  BY <2>1, RowsFinite, RowsAssumption, FS_Subset, FS_CardinalityType
<1>1. Past \subseteq PastNow
  BY FailuresPastGrow
<1>2. /\ sent_count = Cardinality(SentRows)
      /\ failed_count <= Cardinality(Past)
      /\ sent_count \in Nat /\ failed_count \in Nat
  BY DEF CountInv, TypeOK
<1> HIDE DEF Past, PastNow
<1>3. Cardinality(Past) <= Cardinality(PastNow)
  BY <1>0, <1>1, FS_Subset
<1>4. CASE StatusKept /\ UNCHANGED <<sent_count, failed_count>>
  <2>1. SentRows' = SentRows
    BY <1>4 DEF StatusKept, SentRows
  <2> QED  BY <1>0, <1>2, <1>3, <1>4, <2>1 DEF CountInv, PastNow
<1>5. ASSUME NEW w \in Worker, NEW r \in Row, RecipientStep(w, r) PROVE CountInv'
  <2>1. RowFollowsSend(w, r)
    BY <1>5, RowFollowsRecipient
  <2>2. row[r].status # "sent" /\ \A q \in Row : q # r => row'[q] = row[q]
    BY <2>1 DEF RowFollowsSend, LeaseInv
  <2>3. sent_count' = Cardinality(SentRows')
    <3>1. CASE row'[r].status = "sent" /\ sent_count' = sent_count + 1
      <4>1. SentRows' = SentRows \cup {r} /\ r \notin SentRows
        BY <2>2, <3>1 DEF SentRows
      <4> QED  BY <1>0, <1>2, <3>1, <4>1, FS_AddElement
    <3>2. CASE row'[r].status # "sent" /\ sent_count' = sent_count
      <4>1. SentRows' = SentRows
        BY <2>2, <3>2 DEF SentRows
      <4> QED  BY <1>2, <3>2, <4>1
    <3> QED  BY <2>1, <3>1, <3>2 DEF RowFollowsSend
  <2>4. failed_count' <= Cardinality(PastNow)
    <3>1. CASE failed_count' = failed_count
      BY <1>0, <1>2, <1>3, <3>1
    <3>2. CASE /\ failed_count' = failed_count + 1 /\ phase[<<w, r>>] = "counting"
               /\ phase'[<<w, r>>] \notin Uncounted /\ row'[r].status = "failed"
      <4>1. r \notin Past
        BY <3>2 DEF Past, FailuresPast, Uncounted
      <4>2. \A v \in Worker : v # w => phase'[<<v, r>>] \notin Uncounted
        <5>1. exec[w] = "sending"
          BY <3>2 DEF LeaseInv
        <5>2. \A v \in Worker : v # w => exec[v] = "idle"
          BY <5>1 DEF LeaseInv
        <5>3. \A v \in Worker : v # w => phase[<<v, r>>] = "none"
          BY <5>2 DEF LeaseInv
        <5> QED  BY <2>1, <5>3, SendNames DEF RowFollowsSend, Uncounted, Reserved
      <4>3. r \in PastNow
        BY <3>2, <4>2 DEF PastNow, FailuresPast
      <4>4. Past \cup {r} \subseteq PastNow /\ IsFiniteSet(Past \cup {r})
        BY <1>0, <1>1, <4>3, FS_AddElement
      <4>5. Cardinality(Past \cup {r}) = Cardinality(Past) + 1
        BY <1>0, <4>1, FS_AddElement
      <4>6. Cardinality(Past \cup {r}) <= Cardinality(PastNow)
        BY <1>0, <4>4, FS_Subset
      <4> QED  BY <1>0, <1>2, <3>2, <4>5, <4>6
    <3> QED  BY <2>1, <3>1, <3>2 DEF RowFollowsSend
  <2> QED  BY <2>3, <2>4 DEF CountInv, PastNow
<1> QED  BY <1>4, <1>5, StatusKeptElsewhere DEF Next

\* While a live worker keeps its lock, sent_count is the number of rows reported
\* as sent, and failed_count is within those whose failure is past its count.
THEOREM CountersAreKept == ASSUME ~LeaseCanLapse PROVE Spec => []CountInv
<1>1. Init => CountInv
  <2> SUFFICES ASSUME Init PROVE CountInv
    OBVIOUS
  <2>1. SentRows = {} /\ FailuresPast = {}
    BY DEF Init, SentRows, FailuresPast
  <2> QED  BY <2>1, FS_EmptySet DEF Init, CountInv
<1> QED  BY <1>1, CountStep, OwnersWorkAlone, TypeCorrect, PTL DEF Spec

\* The two counters of the campaign never claim more outcomes than rows that
\* ended, and failures only of rows that failed.
THEOREM CountersNeverExceed == Spec => []CountersWithinOutcomes
<1>1. TypeOK /\ CountInv => CountersWithinOutcomes
  <2> SUFFICES ASSUME TypeOK, CountInv PROVE CountersWithinOutcomes
    OBVIOUS
  <2> DEFINE Ended == {r \in Row : row[r].status # "pending"}
             Failed == {r \in Row : row[r].status = "failed"}
  <2>1. /\ SentRows \subseteq Ended /\ Failed \subseteq Ended
        /\ FailuresPast \subseteq Failed /\ SentRows \cap FailuresPast = {}
        /\ SentRows \cup FailuresPast \subseteq Ended
    BY DEF SentRows, FailuresPast
  <2>2. IsFiniteSet(Ended) /\ IsFiniteSet(Failed)
    BY RowsAssumption, FS_Subset
  <2>3. sent_count = Cardinality(SentRows) /\ failed_count <= Cardinality(FailuresPast)
        /\ sent_count \in Nat /\ failed_count \in Nat
    BY DEF CountInv, TypeOK
  <2> HIDE DEF Ended, Failed
  <2>4. /\ Cardinality(Ended) \in Nat /\ Cardinality(Failed) \in Nat
        /\ Cardinality(SentRows \cup FailuresPast) \in Nat
    BY <2>2, RowsFinite, FS_CardinalityType, FS_Union
  <2>5. Cardinality(FailuresPast) <= Cardinality(Failed)
    BY <2>1, <2>2, FS_Subset
  <2>6. Cardinality(SentRows \cup FailuresPast) = Cardinality(SentRows) + Cardinality(FailuresPast)
    BY <2>1, RowsFinite, FS_Union, FS_EmptySet
  <2>7. Cardinality(SentRows \cup FailuresPast) <= Cardinality(Ended)
    BY <2>1, <2>2, FS_Subset
  <2> QED  BY <2>3, <2>4, <2>5, <2>6, <2>7, RowsFinite DEF CountersWithinOutcomes, Ended, Failed
<1>2. CASE LeaseCanLapse
  <2>1. CountersWithinOutcomes
    BY <1>2 DEF CountersWithinOutcomes
  <2> QED  BY <2>1, PTL
<1>3. CASE ~LeaseCanLapse
  BY <1>1, <1>3, CountersAreKept, TypeCorrect, PTL
<1> QED  BY <1>2, <1>3
=============================================================================
