--------------------------- MODULE Billing_proofs ---------------------------
(***************************************************************************)
(* Proofs about the money of a company, for any number of top-ups, plans,  *)
(* handlers, requests and amounts.                                         *)
(***************************************************************************)
EXTENDS Billing, FiniteSums, TLAPS

USE AmountsAssumption, WorkloadsAssumption, TopupAssumption, EventAssumption,
    PlanAssumption, FeeAssumption, PolicyAssumption

\* Requests and mishaps only ever get fewer.
LEMMA BoundsTyped ==
  ASSUME faults \in Nat
  PROVE  /\ NoFault => faults' \in Nat
         /\ Fault => faults' \in Nat
         /\ \A r : Ask(r) => faults' \in Nat
BY DEF NoFault, Fault, Ask, bounds
-----------------------------------------------------------------------------
(***************************************************************************)
(* Types.                                                                  *)
(***************************************************************************)
\* What the fields of an order and of a handler's work are.
LEMMA TopupFields ==
  ASSUME TopupTypeOK
  PROVE  /\ \A t \in Topup : /\ order[t].credited \in BOOLEAN
                             /\ order[t].qr \in BOOLEAN
                             /\ order[t].refunded \in 0..Amount
         /\ \A h \in Handler : /\ job[h].at \in Place
                               /\ job[h].topup \in Topup \cup {NoTopup}
                               /\ job[h].event \in Event \cup {NoEvent}
                               /\ job[h].returned \in 0..Amount
                               /\ job[h].at # "idle" => job[h].topup \in Topup
                               /\ job[h].at = "record" => job[h].event \in Event
         /\ Hook \subseteq Handler /\ Check \subseteq Handler
         /\ \A e \in Event : e.topup \in Topup /\ e.total \in 0..Amount
BY DEF TopupTypeOK, OrderState, JobState, Handler, Event

\* The part of the type that is about the handlers' work.
JobsTyped ==
  /\ job \in [Handler -> JobState]
  /\ \A h \in Handler : job[h].at # "idle" => job[h].topup \in Topup
  /\ \A h \in Handler : job[h].at = "record" => job[h].event \in Event

\* The work of one handler is replaced.
LEMMA JobReplaced ==
  ASSUME JobsTyped, NEW h \in Handler, NEW j \in JobState,
         j.at # "idle" => j.topup \in Topup, j.at = "record" => j.event \in Event,
         job' = [job EXCEPT ![h] = j]
  PROVE  JobsTyped'
BY DEF JobsTyped

\* A handler goes to another place with what it knows.
LEMMA JobMoved ==
  ASSUME TopupTypeOK, NEW h \in Handler, job[h].at # "idle",
         NEW p \in Place, p = "record" => job[h].event # NoEvent, Goto(h, p)
  PROVE  /\ JobsTyped'
         /\ job'[h].at = p /\ job'[h].topup = job[h].topup /\ job'[h].event = job[h].event
         /\ job'[h].returned = job[h].returned
         /\ \A g \in Handler : g # h => job'[g] = job[g]
<1> DEFINE j == [job[h] EXCEPT !.at = p]
<1>1. job[h] \in JobState /\ JobsTyped /\ job \in [Handler -> JobState]
  BY DEF TopupTypeOK, JobsTyped
<1>2. job' = [job EXCEPT ![h] = j]  BY <1>1 DEF Goto
<1>3. j \in JobState  BY <1>1 DEF JobState
<1>4. j.at = p /\ j.topup = job[h].topup /\ j.event = job[h].event
      /\ j.returned = job[h].returned
  BY <1>1 DEF JobState
<1>5. j.topup \in Topup /\ (p = "record" => j.event \in Event)
  BY <1>1, <1>4 DEF JobsTyped, JobState
<1>6. JobsTyped'
  <2> HIDE DEF j
  <2> QED  BY <1>1, <1>2, <1>3, <1>4, <1>5, JobReplaced
<1>7. job'[h] = j /\ \A g \in Handler : g # h => job'[g] = job[g]
  BY <1>1, <1>2
<1> QED
  <2> HIDE DEF j
  <2> QED  BY <1>4, <1>6, <1>7

\* A handler reads what has been returned of the payment.
LEMMA JobAsked ==
  ASSUME TopupTypeOK, NEW h \in Handler, FetchPayment(h)
  PROVE  /\ JobsTyped'
         /\ job'[h].at = "settle" /\ job'[h].topup = job[h].topup
         /\ job'[h].event = job[h].event /\ job'[h].returned = returned[job[h].topup]
         /\ \A g \in Handler : g # h => job'[g] = job[g]
<1> DEFINE j == [job[h] EXCEPT !.at = "settle", !.returned = returned[job[h].topup]]
<1>1. job[h] \in JobState /\ JobsTyped /\ job \in [Handler -> JobState]
  BY DEF TopupTypeOK, JobsTyped
<1>2. job' = [job EXCEPT ![h] = j]  BY <1>1 DEF FetchPayment
<1>3. job[h].topup \in Topup  BY <1>1 DEF FetchPayment, JobsTyped
<1>4. returned[job[h].topup] \in 0..Amount  BY <1>3 DEF TopupTypeOK
<1>5. j \in JobState  BY <1>1, <1>4 DEF JobState, Place
<1>6. j.at = "settle" /\ j.topup = job[h].topup /\ j.event = job[h].event
      /\ j.returned = returned[job[h].topup]
  BY <1>1 DEF JobState
<1>7. JobsTyped'
  <2> HIDE DEF j
  <2> QED  BY <1>1, <1>2, <1>3, <1>5, <1>6, JobReplaced
<1>8. job'[h] = j /\ \A g \in Handler : g # h => job'[g] = job[g]
  BY <1>1, <1>2
<1> QED
  <2> HIDE DEF j
  <2> QED  BY <1>6, <1>7, <1>8

\* A handler begins and ends.
LEMMA JobBegins ==
  ASSUME TopupTypeOK, NEW h \in Handler, NEW t \in Topup, NEW e \in Event \cup {NoEvent},
         Begin(h, t, e)
  PROVE  /\ JobsTyped'
         /\ job'[h].at = IF order[t].credited THEN "payment" ELSE "qr"
         /\ job'[h].topup = t /\ job'[h].event = e
         /\ \A g \in Handler : g # h => job'[g] = job[g]
<1> DEFINE j == [Idle EXCEPT !.at = IF order[t].credited THEN "payment" ELSE "qr",
                             !.topup = t, !.event = e]
<1>1. JobsTyped /\ job \in [Handler -> JobState]  BY DEF TopupTypeOK, JobsTyped
<1>2. job' = [job EXCEPT ![h] = j]  BY DEF Begin
<1>3. j \in JobState
  <2>1. Idle \in JobState  BY DEF JobState, Place, Idle
  <2>2. \A p \in Place, i \in JobState : [i EXCEPT !.at = p, !.topup = t, !.event = e] \in JobState
    BY DEF JobState
  <2> QED  BY <2>1, <2>2 DEF Place
<1>4. j.at = (IF order[t].credited THEN "payment" ELSE "qr") /\ j.topup = t /\ j.event = e
  BY DEF Idle
<1>5. JobsTyped'
  <2> HIDE DEF j
  <2> QED  BY <1>1, <1>2, <1>3, <1>4, JobReplaced
<1>6. job'[h] = j /\ \A g \in Handler : g # h => job'[g] = job[g]
  BY <1>1, <1>2
<1> QED
  <2> HIDE DEF j
  <2> QED  BY <1>4, <1>5, <1>6

LEMMA JobEnds ==
  ASSUME TopupTypeOK, NEW h \in Handler, Leave(h)
  PROVE  JobsTyped'
<1>1. JobsTyped  BY DEF TopupTypeOK, JobsTyped
<1>2. Idle \in JobState /\ Idle.at = "idle"  BY DEF JobState, Place, Idle
<1> QED  BY <1>1, <1>2, JobReplaced DEF Leave

OrderStatus == {"none", "creating", "creation_unknown", "pending", "closed",
                "expired", "credited", "partially_refunded", "refunded"}

\* The ways an order is updated.
LEMMA OrderUpdated ==
  ASSUME NEW o \in OrderState, NEW st \in OrderStatus
  PROVE  /\ [o EXCEPT !.status = st] \in OrderState
         /\ [o EXCEPT !.status = st, !.qr = TRUE] \in OrderState
         /\ \A n \in 0..Amount :
              [o EXCEPT !.status = st, !.credited = TRUE, !.refunded = n] \in OrderState
BY DEF OrderState, OrderStatus

\* settle saves a status and a refund total that are in range.
LEMMA SettleTyped ==
  ASSUME TopupTypeOK, NEW h \in Handler, Settle(h)
  PROVE  order' \in [Topup -> OrderState] /\ booked' \in [Topup -> Int]
<1> DEFINE t == job[h].topup
           n == TotalRefunded(t, job[h].returned)
<1>1. t \in Topup /\ job[h].returned \in 0..Amount  BY TopupFields DEF Settle
<1>2. order[t] \in OrderState /\ order[t].refunded \in 0..Amount
  BY <1>1, TopupFields DEF TopupTypeOK
<1>3. n \in 0..Amount  BY <1>1, <1>2 DEF TotalRefunded
<1>4. StatusOf(n) \in OrderStatus  BY DEF StatusOf, OrderStatus
<1>5. order' = [order EXCEPT ![t] = [@ EXCEPT !.status = StatusOf(n), !.credited = TRUE,
                                              !.refunded = n]]
  BY <1>1 DEF Settle, TopupTypeOK
<1>6. NewlyCredited(t) - (n - order[t].refunded) \in Int
  BY <1>2, <1>3 DEF NewlyCredited
<1>7. booked' = [booked EXCEPT ![t] = @ + (NewlyCredited(t) - (n - order[t].refunded))]
  BY DEF Settle
<1>8. order \in [Topup -> OrderState] /\ booked \in [Topup -> Int]  BY DEF TopupTypeOK
<1> HIDE DEF t, n
<1> DEFINE new == [order[t] EXCEPT !.status = StatusOf(n), !.credited = TRUE, !.refunded = n]
<1>9. new \in OrderState  BY <1>2, <1>3, <1>4, OrderUpdated
<1>10. order' = [order EXCEPT ![t] = new]  BY <1>5
<1> HIDE DEF new
<1> QED  BY <1>1, <1>6, <1>7, <1>8, <1>9, <1>10

\* What marking the QR code does to the order: its status and nothing of its money.
LEMMA MarkQrOrder ==
  ASSUME TopupTypeOK, NEW h \in Handler, MarkQr(h)
  PROVE  order' = order \/ \E st \in {"closed", "expired", "pending"} :
           order' = [order EXCEPT ![job[h].topup] =
                       [order[job[h].topup] EXCEPT !.status = st, !.qr = TRUE]]
<1> DEFINE t == job[h].topup
<1>1. order' = order \/ \E st \in {"closed", "expired", "pending"} :
        order' = [order EXCEPT ![t].status = st, ![t].qr = TRUE]
  BY Zenon DEF MarkQr
<1>2. t \in Topup  BY TopupFields DEF MarkQr
<1>3. \A st : [order EXCEPT ![t].status = st, ![t].qr = TRUE]
              = [order EXCEPT ![t] = [order[t] EXCEPT !.status = st, !.qr = TRUE]]
  BY <1>2 DEF TopupTypeOK
<1> QED  BY <1>1, <1>3

\* No step of a top-up takes a variable out of its type.
LEMMA TopupStepTyped ==
  ASSUME TopupTypeOK, TopupNext
  PROVE  TopupTypeOK'
<1> USE TopupFields DEF TopupTypeOK, razorpay, OnlyCreator, OnlyRazorpay, OnlyHandler
<1>1. ASSUME NEW t \in Topup,
             \/ CreateTopup(t) \/ PostQr(t) \/ ReceiveQr(t) \/ LoseQrAnswer(t) \/ SaveQr(t)
             \/ MarkCreationUnknown(t) \/ CreatorDies(t)
      PROVE  TopupTypeOK'
  <2>1. CASE CreateTopup(t)  BY <2>1 DEF CreateTopup, OrderState
  <2>2. CASE PostQr(t)  BY <2>2 DEF PostQr
  <2>3. CASE ReceiveQr(t)  BY <2>3 DEF ReceiveQr
  <2>4. CASE LoseQrAnswer(t)  BY <2>4 DEF LoseQrAnswer
  <2>5. CASE SaveQr(t)
    <3>1. [order[t] EXCEPT !.status = "pending", !.qr = TRUE] \in OrderState
      BY OrderUpdated DEF OrderStatus
    <3> QED  BY <2>5, <3>1 DEF SaveQr
  <2>6. CASE MarkCreationUnknown(t)  BY <2>6 DEF MarkCreationUnknown, OrderState
  <2>7. CASE CreatorDies(t)  BY <2>7 DEF CreatorDies
  <2> QED  BY <1>1, <2>1, <2>2, <2>3, <2>4, <2>5, <2>6, <2>7
<1>2. ASSUME NEW t \in Topup,
             OpenQr(t) \/ CloseQr(t) \/ Pay(t) \/ \E total \in 1..Amount : Return(t, total)
      PROVE  TopupTypeOK'
  <2>1. CASE OpenQr(t)  BY <2>1 DEF OpenQr
  <2>2. CASE CloseQr(t)  BY <2>2 DEF CloseQr
  <2>3. CASE Pay(t)  BY <2>3 DEF Pay, Event
  <2>4. ASSUME NEW total \in 1..Amount, Return(t, total) PROVE TopupTypeOK'
    BY <2>4 DEF Return, Event
  <2> QED  BY <1>2, <2>1, <2>2, <2>3, <2>4
<1>3. ASSUME NEW c \in Check, NEW t \in Topup, Verify(c, t) PROVE TopupTypeOK'
  BY <1>3, JobBegins DEF Verify, JobsTyped
<1>4. ASSUME NEW h \in Hook, NEW e \in Event, Deliver(h, e) PROVE TopupTypeOK'
  BY <1>4, JobBegins DEF Deliver, JobsTyped
<1>5. ASSUME NEW h \in Handler, VerifyStep(h) \/ ListTooEarly(h) \/ HandlerFails(h)
      PROVE  TopupTypeOK'
  <2> USE JobMoved, JobEnds DEF JobsTyped
  <2>1. CASE FetchQr(h)
    <3>1. CASE Leave(h)  BY <2>1, <3>1 DEF FetchQr
    <3>2. CASE ~Leave(h)
      <4> DEFINE j == [at |-> "mark", topup |-> job[h].topup, event |-> job[h].event,
                       closed |-> (qr[job[h].topup] = "closed"), returned |-> job[h].returned]
      <4>1. job[h] \in JobState  OBVIOUS
      <4>2. job' = [job EXCEPT ![h] = j]  BY <2>1, <3>2, <4>1 DEF FetchQr, JobState
      <4>3. j \in JobState  BY <4>1 DEF JobState, Place
      <4>4. j.at = "mark" /\ j.topup \in Topup  BY <2>1 DEF FetchQr
      <4>5. JobsTyped'  BY <4>2, <4>3, <4>4, JobReplaced
      <4> QED  BY <2>1, <4>5 DEF FetchQr
    <3> QED  BY <3>1, <3>2
  <2>2. CASE MarkQr(h)
    <3>1. Goto(h, "list") /\ job[h].at = "mark" /\ "list" \in Place
      BY <2>2 DEF MarkQr, Place
    <3>2. JobsTyped'  BY <3>1
    <3>3. order[job[h].topup] \in OrderState  BY <3>1
    <3>4. order' = order \/ \E st \in {"closed", "expired", "pending"} :
            order' = [order EXCEPT ![job[h].topup] =
                        [order[job[h].topup] EXCEPT !.status = st, !.qr = TRUE]]
      BY <2>2, MarkQrOrder
    <3>5. \A st \in {"closed", "expired", "pending"} :
            [order[job[h].topup] EXCEPT !.status = st, !.qr = TRUE] \in OrderState
      BY <3>3, OrderUpdated DEF OrderStatus
    <3>6. order' \in [Topup -> OrderState]
      BY <3>1, <3>4, <3>5
    <3> QED  BY <2>2, <3>2, <3>6 DEF MarkQr
  <2>3. CASE ListPayments(h)
    <3>1. \E p \in {"payment", "reread"} : Goto(h, p)
      BY <2>3 DEF ListPayments
    <3>2. JobsTyped'  BY <2>3, <3>1 DEF ListPayments, Place
    <3> QED  BY <2>3, <3>2 DEF ListPayments
  <2>4. CASE Reread(h)
    <3>1. Leave(h) \/ (Goto(h, "record") /\ job[h].event # NoEvent /\ job[h].at # "idle")
      BY <2>4 DEF Reread
    <3>2. JobsTyped'  BY <3>1 DEF Place
    <3> QED  BY <2>4, <3>2 DEF Reread
  <2>5. CASE FetchPayment(h)  BY <2>5, JobAsked DEF FetchPayment
  <2>6. CASE Settle(h)
    <3>1. Leave(h) \/ (Goto(h, "record") /\ job[h].event # NoEvent /\ job[h].at # "idle")
      BY <2>6 DEF Settle
    <3>2. JobsTyped'  BY <3>1 DEF Place
    <3> QED  BY <2>6, <3>2, SettleTyped DEF Settle
  <2>7. CASE RecordEvent(h)  BY <2>7 DEF RecordEvent
  <2>8. CASE ListTooEarly(h)
    <3>1. JobsTyped'  BY <2>8 DEF ListTooEarly, Place
    <3> QED  BY <2>8, <3>1 DEF ListTooEarly
  <2>9. CASE HandlerFails(h)  BY <2>9 DEF HandlerFails
  <2> QED  BY <1>5, <2>1, <2>2, <2>3, <2>4, <2>5, <2>6, <2>7, <2>8, <2>9 DEF VerifyStep
<1> QED  BY <1>1, <1>2, <1>3, <1>4, <1>5 DEF TopupNext

PlanStatus == {"none", "pending", "COMPLETED", "CANCELLED", "EXPIRED"}
PurchaseStatus == {"none", "creating", "creation_unknown", "pending", "paid"}
LinkStatus == {"none", "open", "paid", "cancelled"}

\* What the fields of the plan tables are.
LEMMA PlanFields ==
  ASSUME PlanTypeOK
  PROVE  /\ Purchase \subseteq Plan /\ Manual \subseteq Plan
         /\ Call \subseteq Verifier /\ Sweeper \subseteq Verifier
         /\ \A p \in Plan : /\ plan[p] \in PlanState
                            /\ plan[p].status \in PlanStatus /\ plan[p].active \in BOOLEAN
                            /\ plan[p].fee \in Nat /\ plan[p].days \in 0..MaxDays
                            /\ plan[p].extensionFee \in Nat \cup {NoFee}
                            /\ charged[p] \in Nat
         /\ \A o \in Purchase : /\ purchase[o] \in PurchaseState
                                /\ purchase[o].status \in PurchaseStatus
                                /\ purchase[o].fulfilled \in BOOLEAN
                                /\ purchase[o].linkStatus \in LinkStatus
                                /\ purchase[o].next \in {Due, Unscheduled} \cup Sweeper
         /\ \A v \in Verifier : /\ verifier[v] \in VerifierState
                                /\ verifier[v].at # "idle" => verifier[v].purchase \in Purchase
                                /\ verifier[v].purchase \in Plan \cup {NoPlan}
                                /\ verifier[v].link \in LinkStatus
         /\ \A x \in Extension : /\ extension[x] \in ExtensionState
                                 /\ extension[x].at # "none" => extension[x].plan \in Plan
                                 /\ extension[x].seen \in 0..MaxDays
                                 /\ extension[x].days \in Nat /\ extension[x].price \in Nat
                                 /\ extension[x].mayCost \in BOOLEAN
BY DEF PlanTypeOK, PlanState, PurchaseState, VerifierState, ExtensionState, Plan, Verifier,
       PlanStatus, PurchaseStatus, LinkStatus

\* The ways a plan, a purchase, a verification and an extension are updated.
LEMMA PlanUpdated ==
  ASSUME NEW p \in PlanState, NEW st \in PlanStatus, NEW a \in BOOLEAN
  PROVE  /\ [p EXCEPT !.status = st] \in PlanState
         /\ [p EXCEPT !.active = a] \in PlanState
         /\ [p EXCEPT !.status = st, !.active = a] \in PlanState
         /\ [p EXCEPT !.active = a, !.status = st] \in PlanState
         /\ \A n \in Nat : /\ [p EXCEPT !.status = st, !.fee = n] \in PlanState
                           /\ [p EXCEPT !.status = st, !.active = a, !.fee = n] \in PlanState
         /\ \A d \in 0..MaxDays, n \in Nat \cup {NoFee} :
              [p EXCEPT !.days = d, !.extensionFee = n] \in PlanState
BY DEF PlanState, PlanStatus

LEMMA PurchaseUpdated ==
  ASSUME NEW o \in PurchaseState, NEW st \in PurchaseStatus, NEW l \in LinkStatus,
         NEW n \in {Due, Unscheduled} \cup Sweeper
  PROVE  /\ [o EXCEPT !.status = st] \in PurchaseState
         /\ [o EXCEPT !.next = n] \in PurchaseState
         /\ [o EXCEPT !.status = st, !.next = n] \in PurchaseState
         /\ [o EXCEPT !.link = TRUE, !.status = st, !.linkStatus = l] \in PurchaseState
         /\ [o EXCEPT !.link = TRUE, !.linkStatus = l, !.status = st, !.next = n]
              \in PurchaseState
         /\ [o EXCEPT !.fulfilled = TRUE, !.next = n] \in PurchaseState
BY DEF PurchaseState, PurchaseStatus, LinkStatus

VerifierPlace == {"idle", "fetch", "receipt", "capture", "lock", "fulfil", "retry", "release"}

LEMMA VerifierUpdated ==
  ASSUME NEW s \in VerifierState, NEW p \in VerifierPlace
  PROVE  /\ [s EXCEPT !.at = p] \in VerifierState
         /\ \A l \in LinkStatus : [s EXCEPT !.at = p, !.link = l] \in VerifierState
         /\ \A b \in BOOLEAN : [s EXCEPT !.at = p, !.pending = b] \in VerifierState
         /\ \A o \in Purchase : /\ [Resting EXCEPT !.at = p, !.purchase = o] \in VerifierState
                                /\ [Resting EXCEPT !.purchase = o, !.at = p] \in VerifierState
         /\ Resting \in VerifierState /\ Resting.at = "idle"
BY DEF VerifierState, VerifierPlace, LinkStatus, Resting, Plan

LEMMA ExtensionUpdated ==
  ASSUME NEW e \in ExtensionState
  PROVE  /\ \A p \in Plan, n \in 0..MaxDays, d \in Nat :
              [e EXCEPT !.at = "viewed", !.plan = p, !.seen = n, !.days = d] \in ExtensionState
         /\ \A b \in BOOLEAN, n \in Nat :
              [e EXCEPT !.at = "quoted", !.mayCost = b, !.price = n] \in ExtensionState
         /\ [e EXCEPT !.at = "extended"] \in ExtensionState
         /\ [e EXCEPT !.at = "refused"] \in ExtensionState
BY DEF ExtensionState

\* The part of the type that is about verifications.
VerifiersTyped ==
  /\ verifier \in [Verifier -> VerifierState]
  /\ \A v \in Verifier : verifier[v].at # "idle" => verifier[v].purchase \in Purchase

\* What a step of v to place p keeps: what it verifies, and the other verifications.
StepsTo(v, p) ==
  /\ verifier'[v].at = p
  /\ p # "idle" => verifier'[v].purchase = verifier[v].purchase
  /\ \A u \in Verifier : u # v => verifier'[u] = verifier[u]

\* The work of one verification is replaced.
LEMMA VerifierReplaced ==
  ASSUME VerifiersTyped, NEW v \in Verifier, NEW s \in VerifierState,
         s.at # "idle" => s.purchase \in Purchase, verifier' = [verifier EXCEPT ![v] = s]
  PROVE  VerifiersTyped' /\ verifier'[v] = s
         /\ \A u \in Verifier : u # v => verifier'[u] = verifier[u]
BY DEF VerifiersTyped

\* A verification goes to another place with what it knows.
LEMMA VerifierMoved ==
  ASSUME PlanTypeOK, NEW v \in Verifier, verifier[v].at # "idle", NEW p \in VerifierPlace
  PROVE  /\ Moved(v, p) => VerifiersTyped' /\ StepsTo(v, p)
         /\ \A l \in LinkStatus : verifier' = [verifier EXCEPT ![v].at = p, ![v].link = l]
              => VerifiersTyped' /\ StepsTo(v, p) /\ verifier'[v].link = l
         /\ \A b \in BOOLEAN : verifier' = [verifier EXCEPT ![v].at = p, ![v].pending = b]
              => VerifiersTyped' /\ StepsTo(v, p)
<1>1. /\ VerifiersTyped /\ verifier[v] \in VerifierState /\ verifier \in [Verifier -> VerifierState]
      /\ verifier[v].purchase \in Purchase
  BY DEF PlanTypeOK, VerifiersTyped
<1>2. ASSUME Moved(v, p) PROVE VerifiersTyped' /\ StepsTo(v, p)
  <2> DEFINE s == [verifier[v] EXCEPT !.at = p]
  <2>1. s \in VerifierState  BY <1>1, VerifierUpdated
  <2>2. s.at = p /\ s.purchase = verifier[v].purchase  BY <1>1 DEF VerifierState
  <2>3. verifier' = [verifier EXCEPT ![v] = s]  BY <1>1, <1>2 DEF Moved
  <2> HIDE DEF s
  <2> QED  BY <1>1, <2>1, <2>2, <2>3, VerifierReplaced DEF StepsTo
<1>3. ASSUME NEW l \in LinkStatus, verifier' = [verifier EXCEPT ![v].at = p, ![v].link = l]
      PROVE  VerifiersTyped' /\ StepsTo(v, p) /\ verifier'[v].link = l
  <2> DEFINE s == [verifier[v] EXCEPT !.at = p, !.link = l]
  <2>1. s \in VerifierState  BY <1>1, VerifierUpdated
  <2>2. s.at = p /\ s.purchase = verifier[v].purchase /\ s.link = l  BY <1>1 DEF VerifierState
  <2>3. verifier' = [verifier EXCEPT ![v] = s]  BY <1>1, <1>3
  <2> HIDE DEF s
  <2> QED  BY <1>1, <2>1, <2>2, <2>3, VerifierReplaced DEF StepsTo
<1>4. ASSUME NEW b \in BOOLEAN, verifier' = [verifier EXCEPT ![v].at = p, ![v].pending = b]
      PROVE  VerifiersTyped' /\ StepsTo(v, p)
  <2> DEFINE s == [verifier[v] EXCEPT !.at = p, !.pending = b]
  <2>1. s \in VerifierState  BY <1>1, VerifierUpdated
  <2>2. s.at = p /\ s.purchase = verifier[v].purchase  BY <1>1 DEF VerifierState
  <2>3. verifier' = [verifier EXCEPT ![v] = s]  BY <1>1, <1>4
  <2> HIDE DEF s
  <2> QED  BY <1>1, <2>1, <2>2, <2>3, VerifierReplaced DEF StepsTo
<1> QED  BY <1>2, <1>3, <1>4

\* The request is answered; a reconciler keeps its purchase to release it.
LEMMA VerifierAnswered ==
  ASSUME PlanTypeOK, NEW v \in Verifier, verifier[v].at # "idle", Answered(v)
  PROVE  VerifiersTyped' /\ \E p \in {"idle", "release"} : StepsTo(v, p)
<1>1. VerifiersTyped /\ verifier[v] \in VerifierState /\ verifier \in [Verifier -> VerifierState]
  BY DEF PlanTypeOK, VerifiersTyped
<1>2. CASE v \in Sweeper
  <2>1. Moved(v, "release")  BY <1>1, <1>2 DEF Answered, Moved
  <2> QED  BY <2>1, VerifierMoved DEF VerifierPlace
<1>3. CASE v \notin Sweeper
  <2>1. verifier' = [verifier EXCEPT ![v] = Resting]  BY <1>3 DEF Answered
  <2>2. Resting \in VerifierState /\ Resting.at = "idle"  BY VerifierUpdated DEF VerifierPlace, Resting, VerifierState
  <2> QED  BY <1>1, <2>1, <2>2, VerifierReplaced DEF StepsTo
<1> QED  BY <1>2, <1>3

\* A verification begins, or its process is gone.
LEMMA VerifierBegins ==
  ASSUME PlanTypeOK, NEW v \in Verifier, NEW o \in Purchase, NEW p \in VerifierPlace
  PROVE  /\ verifier' \in { [verifier EXCEPT ![v] = [Resting EXCEPT !.at = p, !.purchase = o]],
                          [verifier EXCEPT ![v] = [Resting EXCEPT !.purchase = o, !.at = p]] }
              => /\ VerifiersTyped' /\ verifier'[v].at = p /\ verifier'[v].purchase = o
                 /\ \A u \in Verifier : u # v => verifier'[u] = verifier[u]
         /\ verifier' = [verifier EXCEPT ![v] = Resting] => VerifiersTyped' /\ StepsTo(v, "idle")
<1>1. VerifiersTyped  BY DEF PlanTypeOK, VerifiersTyped
<1> DEFINE s == [Resting EXCEPT !.at = p, !.purchase = o]
           u == [Resting EXCEPT !.purchase = o, !.at = p]
<1>2. s \in VerifierState /\ u \in VerifierState /\ Resting \in VerifierState
  <2>1. Resting \in VerifierState  BY DEF Resting, VerifierState
  <2> QED  BY <2>1, VerifierUpdated
<1>3. s.at = p /\ s.purchase = o /\ u.at = p /\ u.purchase = o /\ Resting.at = "idle"
  BY DEF Resting
<1> HIDE DEF s, u
<1>4. verifier' = [verifier EXCEPT ![v] = s] =>
        /\ VerifiersTyped' /\ verifier'[v].at = p /\ verifier'[v].purchase = o
        /\ \A w \in Verifier : w # v => verifier'[w] = verifier[w]
  BY <1>1, <1>2, <1>3, VerifierReplaced
<1>5. verifier' = [verifier EXCEPT ![v] = u] =>
        /\ VerifiersTyped' /\ verifier'[v].at = p /\ verifier'[v].purchase = o
        /\ \A w \in Verifier : w # v => verifier'[w] = verifier[w]
  BY <1>1, <1>2, <1>3, VerifierReplaced
<1>6. verifier' = [verifier EXCEPT ![v] = Resting] => VerifiersTyped' /\ StepsTo(v, "idle")
  BY <1>1, <1>2, <1>3, VerifierReplaced DEF StepsTo
<1> QED  BY <1>4, <1>5, <1>6 DEF s, u

\* The other tables: plans, purchases, locks, ledger and extensions.
PlanTablesTyped ==
  /\ plan \in [Plan -> PlanState]
  /\ assigned \in Plan \cup {NoPlan}
  /\ fee \in Nat
  /\ charged \in [Plan -> Nat]
  /\ purchase \in [Purchase -> PurchaseState]
  /\ rowLock \in [Purchase -> Verifier \cup {Free}]
  /\ buyer \in [Purchase -> {"off", "post", "waiting", "save", "unknown", "done"}]
  /\ link \in [Purchase -> {"none", "requested", "open", "paid", "cancelled"}]
  /\ captured \in [Purchase -> BOOLEAN]

RequestsTyped ==
  /\ extension \in [Extension -> ExtensionState]
  /\ \A x \in Extension : extension[x].at # "none" => extension[x].plan \in Plan
  /\ bought \in [Addon -> Plan \cup {NoPlan}]
  /\ suspended \in [Edit -> Plan \cup {NoPlan}]

LEMMA PlanTypeParts == PlanTypeOK <=> PlanTablesTyped /\ VerifiersTyped /\ RequestsTyped
BY DEF PlanTypeOK, PlanTablesTyped, VerifiersTyped, RequestsTyped

LEMMA PlanTypePartsNext == PlanTypeOK' <=> (PlanTablesTyped /\ VerifiersTyped /\ RequestsTyped)'
BY DEF PlanTypeOK, PlanTablesTyped, VerifiersTyped, RequestsTyped

\* An update of one row keeps the type of its table.
LEMMA PurchaseRowTyped ==
  ASSUME PlanTypeOK, NEW o \in Purchase, NEW n \in PurchaseState,
         purchase' = [purchase EXCEPT ![o] = n]
  PROVE  purchase' \in [Purchase -> PurchaseState]
BY DEF PlanTypeOK

\* The plan that replaces the active ones.
LEMMA ReplaceTyped ==
  ASSUME PlanTypeOK, NEW p \in Plan, NEW n \in PlanState, Replace(p, n)
  PROVE  /\ plan' \in [Plan -> PlanState] /\ assigned' = p
         /\ plan'[p] = n
         /\ \A q \in Plan : q # p =>
              /\ ~plan'[q].active
              /\ plan'[q].fee = plan[q].fee /\ plan'[q].days = plan[q].days
              /\ plan'[q].extensionFee = plan[q].extensionFee
              /\ plan[q].active => plan'[q].status \in {"CANCELLED", "EXPIRED"}
              /\ ~plan[q].active => plan'[q] = plan[q]
<1>1. PICK s \in {"CANCELLED", "EXPIRED"} :
        plan' = [q \in Plan |-> IF q = p THEN n
                                ELSE IF plan[q].active
                                  THEN [plan[q] EXCEPT !.active = FALSE, !.status = s]
                                  ELSE plan[q]]
  BY Zenon DEF Replace
<1>2. \A q \in Plan :
        LET r == [plan[q] EXCEPT !.active = FALSE, !.status = s] IN
          /\ r \in PlanState /\ ~r.active /\ r.status = s
          /\ r.fee = plan[q].fee /\ r.days = plan[q].days
          /\ r.extensionFee = plan[q].extensionFee
  BY PlanFields DEF PlanState
<1>3. plan'[p] = n /\ assigned' = p  BY <1>1 DEF Replace
<1>4. \A q \in Plan : q # p => plan'[q] = IF plan[q].active
                                  THEN [plan[q] EXCEPT !.active = FALSE, !.status = s]
                                  ELSE plan[q]
  BY <1>1
<1>5. \A q \in Plan : plan'[q] \in PlanState
  <2> SUFFICES ASSUME NEW q \in Plan PROVE plan'[q] \in PlanState
    OBVIOUS
  <2>1. CASE q = p  BY <2>1, <1>3
  <2>2. CASE q # p /\ plan[q].active
    <3>1. plan'[q] = [plan[q] EXCEPT !.active = FALSE, !.status = s]  BY <2>2, <1>4
    <3> QED  BY <3>1, <1>2
  <2>3. CASE q # p /\ ~plan[q].active
    <3>1. plan'[q] = plan[q]  BY <2>3, <1>4
    <3> QED  BY <3>1, PlanFields
  <2> QED  BY <2>1, <2>2, <2>3
<1>6. plan' \in [Plan -> PlanState]  BY <1>1, <1>5
<1> QED  BY <1>2, <1>3, <1>4, <1>6

\* No step of the request that creates a purchase, of Razorpay or of its webhook takes
\* a variable out of its type.
LEMMA BuyerStepTyped ==
  ASSUME PlanTypeOK, NEW o \in Purchase,
         \/ CreatePurchase(o) \/ PostLink(o) \/ ReceiveLink(o) \/ LoseLinkAnswer(o)
         \/ SaveLink(o) \/ MarkLinkUnknown(o) \/ BuyerDies(o)
         \/ OpenLink(o) \/ CloseLink(o) \/ PayLink(o) \/ CapturePayment(o) \/ WakeUp(o)
  PROVE  PlanTypeOK'
<1> USE PlanTypeParts, PlanTypePartsNext DEF requests, links
<1>0. /\ PlanTablesTyped /\ VerifiersTyped /\ RequestsTyped
      /\ plan[o] \in PlanState /\ purchase[o] \in PurchaseState
      /\ purchase[o].status \in PurchaseStatus /\ purchase[o].linkStatus \in LinkStatus
      /\ o \in Plan
  BY PlanFields
<1>1. UNCHANGED verifier => VerifiersTyped'  BY <1>0 DEF VerifiersTyped
<1>2. UNCHANGED requests => RequestsTyped'  BY <1>0 DEF RequestsTyped
<1>3. CASE CreatePurchase(o)
  <2> DEFINE p == [plan[o] EXCEPT !.status = "pending", !.fee = fee]
             n == [purchase[o] EXCEPT !.status = "creating", !.next = Due]
  <2>1. p \in PlanState  BY <1>0, PlanUpdated DEF PlanTablesTyped, PlanStatus
  <2>2. n \in PurchaseState  BY <1>0, PurchaseUpdated DEF PurchaseStatus
  <2>3. plan' = [plan EXCEPT ![o] = p] /\ purchase' = [purchase EXCEPT ![o] = n]
    BY <1>0, <1>3 DEF CreatePurchase, PlanTablesTyped
  <2> HIDE DEF p, n
  <2>4. PlanTablesTyped'
    <3>1. plan' \in [Plan -> PlanState] /\ purchase' \in [Purchase -> PurchaseState]
      BY <1>0, <2>1, <2>2, <2>3 DEF PlanTablesTyped
    <3> QED  BY <1>0, <1>3, <3>1 DEF CreatePurchase, PlanTablesTyped
  <2> QED  BY <1>1, <1>2, <1>3, <2>4 DEF CreatePurchase
<1>4. CASE PostLink(o) \/ ReceiveLink(o) \/ LoseLinkAnswer(o) \/ BuyerDies(o)
  <2>1. PlanTablesTyped'
    BY <1>0, <1>4 DEF PostLink, ReceiveLink, LoseLinkAnswer, BuyerDies, OnlyBuyer, PlanTablesTyped
  <2> QED  BY <1>1, <1>2, <1>4, <2>1 DEF PostLink, ReceiveLink, LoseLinkAnswer, BuyerDies, OnlyBuyer
<1>5. CASE SaveLink(o)
  <2> DEFINE l == IF purchase[o].linkStatus = "none" THEN "open" ELSE purchase[o].linkStatus
             n == [purchase[o] EXCEPT !.link = TRUE, !.status = KeptStatus(o), !.linkStatus = l]
  <2>1. KeptStatus(o) \in PurchaseStatus /\ l \in LinkStatus
    BY <1>0 DEF KeptStatus, PurchaseStatus, LinkStatus
  <2>2. n \in PurchaseState
    <3> HIDE DEF l
    <3> QED  BY <1>0, <2>1, PurchaseUpdated
  <2>3. purchase' = [purchase EXCEPT ![o] = n]
    BY <1>0, <1>5 DEF SaveLink, PlanTablesTyped
  <2> HIDE DEF n
  <2>4. PlanTablesTyped'
    <3>1. purchase' \in [Purchase -> PurchaseState]
      BY <1>0, <2>2, <2>3 DEF PlanTablesTyped
    <3> QED  BY <1>0, <1>5, <3>1 DEF SaveLink, OnlyBuyer, PlanTablesTyped
  <2> QED  BY <1>1, <1>2, <1>5, <2>4 DEF SaveLink, OnlyBuyer
<1>6. CASE MarkLinkUnknown(o)
  <2> DEFINE n == [purchase[o] EXCEPT !.status = "creation_unknown"]
  <2>1. n \in PurchaseState  BY <1>0, PurchaseUpdated DEF PurchaseStatus
  <2>2. purchase' = [purchase EXCEPT ![o] = n] \/ purchase' = purchase
    BY <1>0, <1>6 DEF MarkLinkUnknown, PlanTablesTyped
  <2> HIDE DEF n
  <2>3. PlanTablesTyped'
    BY <1>0, <1>6, <2>1, <2>2 DEF MarkLinkUnknown, OnlyBuyer, PlanTablesTyped
  <2> QED  BY <1>1, <1>2, <1>6, <2>3 DEF MarkLinkUnknown, OnlyBuyer
<1>7. CASE OpenLink(o) \/ CloseLink(o) \/ PayLink(o) \/ CapturePayment(o)
  <2>1. PlanTablesTyped'
    BY <1>0, <1>7 DEF OpenLink, CloseLink, PayLink, CapturePayment, OnlyLink, PlanTablesTyped
  <2> QED  BY <1>1, <1>2, <1>7, <2>1 DEF OpenLink, CloseLink, PayLink, CapturePayment, OnlyLink
<1>8. CASE WakeUp(o)
  <2> DEFINE n == [purchase[o] EXCEPT !.next = Due]
  <2>1. n \in PurchaseState  BY <1>0, PurchaseUpdated
  <2>2. purchase' = [purchase EXCEPT ![o] = n]
    BY <1>0, <1>8 DEF WakeUp, PlanTablesTyped
  <2> HIDE DEF n
  <2>3. PlanTablesTyped'
    BY <1>0, <1>8, <2>1, <2>2 DEF WakeUp, OnlyLink, PlanTablesTyped
  <2> QED  BY <1>1, <1>2, <1>8, <2>3 DEF WakeUp, OnlyLink
<1> QED  BY <1>3, <1>4, <1>5, <1>6, <1>7, <1>8

\* No step of a verification does.
LEMMA VerifierStepTyped ==
  ASSUME PlanTypeOK, NEW v \in Verifier,
         VerifyLinkStep(v) \/ VerifierFails(v) \/ VerifierDies(v)
  PROVE  PlanTypeOK'
<1> DEFINE o == verifier[v].purchase
<1> USE PlanTypeParts, PlanTypePartsNext DEF requests, links, OnlyVerifier
<1>0. /\ PlanTablesTyped /\ RequestsTyped
      /\ verifier[v].at # "idle" => o \in Purchase
  BY PlanFields
<1> HIDE DEF o
<1>1. \A q \in Purchase : /\ purchase[q] \in PurchaseState
                          /\ purchase[q].status \in PurchaseStatus
  BY PlanFields
<1>2. UNCHANGED requests => RequestsTyped'  BY <1>0 DEF RequestsTyped
<1>3. /\ verifier[v].at # "idle" /\ Answered(v) => VerifiersTyped'
      /\ \A p \in VerifierPlace : verifier[v].at # "idle" /\ Moved(v, p) => VerifiersTyped'
  BY VerifierAnswered, VerifierMoved
<1>4. Unlocked(v) \in [Purchase -> Verifier \cup {Free}]
  BY <1>0 DEF Unlocked, PlanTablesTyped
<1>5. \A q \in Purchase : TryAgain(q) => purchase' \in [Purchase -> PurchaseState]
  <2> SUFFICES ASSUME NEW q \in Purchase, TryAgain(q) PROVE purchase' \in [Purchase -> PurchaseState]
    OBVIOUS
  <2> DEFINE n == [purchase[q] EXCEPT !.next = Due]
  <2>1. n \in PurchaseState  BY <1>1, PurchaseUpdated DEF LinkStatus
  <2>2. purchase' = [purchase EXCEPT ![q] = n] \/ purchase' = purchase
    BY <1>0 DEF TryAgain, PlanTablesTyped
  <2> HIDE DEF n
  <2> QED  BY <1>0, <2>1, <2>2 DEF PlanTablesTyped
<1>6. CASE FetchLink(v)
  <2>1. PlanTablesTyped'  BY <1>0, <1>6 DEF FetchLink, PlanTablesTyped
  <2>2. VerifiersTyped'
    <3>1. verifier[v].at # "idle" /\ o \in Purchase  BY <1>0, <1>6 DEF FetchLink
    <3>2. Answered(v) \/ /\ link[o] \in LinkStatus
                         /\ verifier' = [verifier EXCEPT ![v].at = "receipt", ![v].link = link[o]]
      BY <1>0, <1>6, <3>1 DEF FetchLink, o, PlanTablesTyped, LinkStatus
    <3> QED  BY <1>3, <3>1, <3>2, VerifierMoved DEF VerifierPlace
  <2> QED  BY <1>2, <1>6, <2>1, <2>2 DEF FetchLink
<1>7. CASE RecordReceipt(v)
  <2>1. verifier[v].at # "idle" /\ o \in Purchase /\ purchase[o] \in PurchaseState
        /\ verifier[v].link \in LinkStatus
    BY <1>0, <1>1, <1>7, PlanFields DEF RecordReceipt
  <2>2. VerifiersTyped'  BY <1>3, <1>7, <2>1 DEF RecordReceipt, VerifierPlace
  <2> DEFINE l == verifier[v].link
             st == IF l = "paid" THEN "paid" ELSE "pending"
             nx == IF l = "cancelled" THEN Unscheduled ELSE Due
             n == [purchase[o] EXCEPT !.link = TRUE, !.linkStatus = l, !.status = st, !.next = nx]
  <2>3. st \in PurchaseStatus /\ nx \in {Due, Unscheduled} \cup Sweeper /\ l \in LinkStatus
    BY <2>1 DEF PurchaseStatus
  <2>4. n \in PurchaseState
    <3> HIDE DEF st, nx, l
    <3> QED  BY <2>1, <2>3, PurchaseUpdated
  <2>5. purchase' = [purchase EXCEPT ![o] = n] \/ purchase' = purchase
    BY <1>0, <1>7 DEF RecordReceipt, o, PlanTablesTyped
  <2> HIDE DEF n
  <2>6. PlanTablesTyped'
    <3>1. purchase' \in [Purchase -> PurchaseState]
      BY <1>0, <2>4, <2>5 DEF PlanTablesTyped
    <3> QED  BY <1>0, <1>7, <3>1 DEF RecordReceipt, PlanTablesTyped
  <2> QED  BY <1>2, <1>7, <2>2, <2>6 DEF RecordReceipt
<1>8. CASE CheckCapture(v)
  <2>1. verifier[v].at # "idle" /\ o \in Purchase  BY <1>0, <1>8 DEF CheckCapture
  <2>2. VerifiersTyped'  BY <1>3, <1>8, <2>1 DEF CheckCapture, VerifierPlace
  <2>3. purchase' \in [Purchase -> PurchaseState]
    BY <1>0, <1>5, <1>8, <2>1 DEF CheckCapture, o, PlanTablesTyped
  <2>4. PlanTablesTyped'  BY <1>0, <1>8, <2>3 DEF CheckCapture, PlanTablesTyped
  <2> QED  BY <1>2, <1>8, <2>2, <2>4 DEF CheckCapture
<1>9. CASE LockPurchase(v)
  <2>1. verifier[v].at # "idle" /\ o \in Purchase /\ purchase[o] \in PurchaseState
    BY <1>0, <1>1, <1>9 DEF LockPurchase
  <2> DEFINE n == [purchase[o] EXCEPT !.next = Unscheduled]
             b == (plan[o].status = "pending" /\ ~plan[o].active)
  <2>2. n \in PurchaseState  BY <1>1, <2>1, PurchaseUpdated DEF LinkStatus
  <2>3. \/ /\ Answered(v) /\ UNCHANGED rowLock /\ purchase' = [purchase EXCEPT ![o] = n]
        \/ /\ verifier' = [verifier EXCEPT ![v].at = "fulfil", ![v].pending = b]
           /\ rowLock' = [rowLock EXCEPT ![o] = v] /\ UNCHANGED purchase
    BY <1>0, <1>9, <2>1 DEF LockPurchase, o, PlanTablesTyped
  <2>4. b \in BOOLEAN  OBVIOUS
  <2> HIDE DEF n, b
  <2>5. VerifiersTyped'  BY <1>3, <2>1, <2>3, <2>4, VerifierMoved DEF VerifierPlace
  <2>6. PlanTablesTyped'
    BY <1>0, <1>9, <2>1, <2>2, <2>3 DEF LockPurchase, PlanTablesTyped
  <2> QED  BY <1>2, <1>9, <2>5, <2>6 DEF LockPurchase
<1>10. CASE Activate(v)
  <2>1. verifier[v].at # "idle" /\ o \in Purchase /\ purchase[o] \in PurchaseState /\ o \in Plan
        /\ plan[o] \in PlanState /\ plan[o].fee \in Nat
    BY <1>0, <1>1, <1>10, PlanFields DEF Activate
  <2>2. VerifiersTyped'  BY <1>3, <1>10, <2>1 DEF Activate
  <2> DEFINE p == [plan[o] EXCEPT !.status = "COMPLETED", !.active = TRUE]
             n == [purchase[o] EXCEPT !.fulfilled = TRUE, !.next = Unscheduled]
  <2>3. p \in PlanState  BY <2>1, PlanUpdated DEF PlanStatus
  <2>4. n \in PurchaseState  BY <2>1, PurchaseUpdated DEF LinkStatus, PurchaseStatus
  <2>5. Replace(o, p) /\ purchase' = [purchase EXCEPT ![o] = n]
    BY <1>0, <1>10 DEF Activate, o, PlanTablesTyped
  <2>6. charged' = [charged EXCEPT ![o] = @ + plan[o].fee] /\ rowLock' = [rowLock EXCEPT ![o] = Free]
    BY <1>10 DEF Activate, QuotedFee, o
  <2> HIDE DEF p, n
  <2>7. plan' \in [Plan -> PlanState] /\ assigned' = o
    BY <2>1, <2>3, <2>5, ReplaceTyped
  <2>8. PlanTablesTyped'
    <3>1. purchase' \in [Purchase -> PurchaseState]
      BY <1>0, <2>4, <2>5 DEF PlanTablesTyped
    <3>2. charged' \in [Plan -> Nat] /\ rowLock' \in [Purchase -> Verifier \cup {Free}]
      BY <1>0, <2>1, <2>6 DEF PlanTablesTyped
    <3> QED  BY <1>0, <1>10, <2>1, <2>7, <3>1, <3>2 DEF Activate, PlanTablesTyped
  <2> QED  BY <1>2, <1>10, <2>2, <2>8 DEF Activate
<1>11. CASE RefuseActivation(v)
  <2>1. verifier[v].at # "idle" /\ o \in Purchase  BY <1>0, <1>11 DEF RefuseActivation
  <2>2. VerifiersTyped'  BY <1>3, <1>11, <2>1 DEF RefuseActivation, VerifierPlace
  <2>3. PlanTablesTyped'  BY <1>0, <1>11, <2>1 DEF RefuseActivation, o, PlanTablesTyped
  <2> QED  BY <1>2, <1>11, <2>2, <2>3 DEF RefuseActivation
<1>12. CASE ScheduleRetry(v)
  <2>1. verifier[v].at # "idle" /\ o \in Purchase  BY <1>0, <1>12 DEF ScheduleRetry
  <2>2. VerifiersTyped'  BY <1>3, <1>12, <2>1 DEF ScheduleRetry
  <2>3. purchase' \in [Purchase -> PurchaseState]
    BY <1>5, <1>12, <2>1 DEF ScheduleRetry, o
  <2>4. PlanTablesTyped'  BY <1>0, <1>12, <2>3 DEF ScheduleRetry, PlanTablesTyped
  <2> QED  BY <1>2, <1>12, <2>2, <2>4 DEF ScheduleRetry
<1>13. CASE Release(v)
  <2>1. verifier[v].at # "idle" /\ o \in Purchase /\ purchase[o] \in PurchaseState
    BY <1>0, <1>1, <1>13 DEF Release
  <2>2. VerifiersTyped'
    <3>1. verifier' = [verifier EXCEPT ![v] = Resting]  BY <1>13 DEF Release
    <3> QED  BY <2>1, <3>1, VerifierBegins DEF VerifierPlace
  <2> DEFINE nx == IF purchase[o].fulfilled \/ purchase[o].linkStatus = "cancelled"
                     THEN Unscheduled ELSE Due
             n == [purchase[o] EXCEPT !.next = nx]
  <2>3. nx \in {Due, Unscheduled} \cup Sweeper  OBVIOUS
  <2>4. n \in PurchaseState
    <3> HIDE DEF nx
    <3> QED  BY <2>1, <2>3, PurchaseUpdated DEF LinkStatus, PurchaseStatus
  <2>5. purchase' = [purchase EXCEPT ![o] = n] \/ purchase' = purchase
    BY <1>0, <1>13 DEF Release, o, PlanTablesTyped
  <2> HIDE DEF n
  <2>6. PlanTablesTyped'
    BY <1>0, <1>13, <2>1, <2>4, <2>5 DEF Release, PlanTablesTyped
  <2> QED  BY <1>2, <1>13, <2>2, <2>6 DEF Release
<1>14. CASE VerifierFails(v)
  <2>1. VerifiersTyped'  BY <1>3, <1>14 DEF VerifierFails, VerifierPlace
  <2>2. PlanTablesTyped'  BY <1>0, <1>4, <1>14 DEF VerifierFails, PlanTablesTyped
  <2> QED  BY <1>2, <1>14, <2>1, <2>2 DEF VerifierFails
<1>15. CASE VerifierDies(v)
  <2>1. VerifiersTyped'
    <3>1. verifier' = [verifier EXCEPT ![v] = Resting] /\ o \in Purchase
      BY <1>0, <1>15 DEF VerifierDies
    <3> QED  BY <3>1, VerifierBegins DEF VerifierPlace
  <2>2. PlanTablesTyped'  BY <1>0, <1>4, <1>15 DEF VerifierDies, PlanTablesTyped
  <2> QED  BY <1>2, <1>15, <2>1, <2>2 DEF VerifierDies
<1> QED
  BY <1>6, <1>7, <1>8, <1>9, <1>10, <1>11, <1>12, <1>13, <1>14, <1>15 DEF VerifyLinkStep

\* No request of an administrator or for an extension does.
LEMMA AdminStepTyped ==
  ASSUME PlanTypeOK, NEW k \in Edit,
         \/ \E p \in Plan : CancelPlan(k, p) \/ ChangeStatus(k, p)
         \/ ReadForSuspension(k) \/ SuspendPlan(k) \/ Reprice(k)
  PROVE  PlanTypeOK'
<1> USE PlanTypeParts, PlanTypePartsNext DEF requests, links, OnlyPlans
<1>0. PlanTablesTyped /\ RequestsTyped /\ VerifiersTyped
  OBVIOUS
<1>1. UNCHANGED requests => RequestsTyped'  BY <1>0 DEF RequestsTyped
<1>2. UNCHANGED verifier => VerifiersTyped'  BY <1>0 DEF VerifiersTyped
<1>3. \A p \in Plan, st \in PlanStatus, a \in BOOLEAN :
        /\ [plan[p] EXCEPT !.status = st, !.active = a] \in PlanState
        /\ [plan[p] EXCEPT !.active = a] \in PlanState
  BY PlanUpdated, PlanFields
<1>4. ASSUME NEW p \in Plan, CancelPlan(k, p) PROVE PlanTypeOK'
  <2> DEFINE n == [plan[p] EXCEPT !.status = "CANCELLED", !.active = FALSE]
  <2>1. n \in PlanState  BY <1>3 DEF PlanStatus
  <2>2. plan' = [plan EXCEPT ![p] = n]  BY <1>0, <1>4 DEF CancelPlan, PlanTablesTyped
  <2> HIDE DEF n
  <2>3. plan' \in [Plan -> PlanState]  BY <1>0, <2>1, <2>2 DEF PlanTablesTyped
  <2>4. PlanTablesTyped'  BY <1>0, <1>4, <2>3 DEF CancelPlan, PlanTablesTyped
  <2> QED  BY <1>1, <1>2, <1>4, <2>4 DEF CancelPlan
<1>5. ASSUME NEW p \in Plan, ChangeStatus(k, p) PROVE PlanTypeOK'
  <2> DEFINE n(a) == [plan[p] EXCEPT !.active = a]
  <2>1. \A a \in BOOLEAN : n(a) \in PlanState  BY <1>3 DEF PlanStatus
  <2>2. \E a \in BOOLEAN : plan' = [plan EXCEPT ![p] = n(a)]
    BY <1>0, <1>5 DEF ChangeStatus, PlanTablesTyped
  <2> HIDE DEF n
  <2>3. plan' \in [Plan -> PlanState]  BY <1>0, <2>1, <2>2 DEF PlanTablesTyped
  <2>4. PlanTablesTyped'  BY <1>0, <1>5, <2>3 DEF ChangeStatus, PlanTablesTyped
  <2> QED  BY <1>1, <1>2, <1>5, <2>4 DEF ChangeStatus
<1>6. CASE ReadForSuspension(k)
  <2>1. PlanTablesTyped'  BY <1>0, <1>6 DEF ReadForSuspension, PlanTablesTyped
  <2>2. RequestsTyped'
    BY <1>0, <1>6 DEF ReadForSuspension, RequestsTyped, ActivePlans
  <2> QED  BY <1>2, <1>6, <2>1, <2>2 DEF ReadForSuspension
<1>7. CASE SuspendPlan(k)
  <2> DEFINE p == suspended[k]
             n == [plan[p] EXCEPT !.status = "EXPIRED", !.active = FALSE]
  <2>1. p \in Plan  BY <1>0, <1>7 DEF SuspendPlan, RequestsTyped
  <2>2. n \in PlanState  BY <1>3, <2>1 DEF PlanStatus
  <2>3. plan' = [plan EXCEPT ![p] = n]  BY <1>0, <1>7, <2>1 DEF SuspendPlan, PlanTablesTyped
  <2> HIDE DEF n, p
  <2>4. plan' \in [Plan -> PlanState]  BY <1>0, <2>1, <2>2, <2>3 DEF PlanTablesTyped
  <2>5. PlanTablesTyped'  BY <1>0, <1>7, <2>4 DEF SuspendPlan, PlanTablesTyped
  <2>6. RequestsTyped'  BY <1>0, <1>7 DEF SuspendPlan, RequestsTyped
  <2> QED  BY <1>2, <1>7, <2>5, <2>6 DEF SuspendPlan
<1>8. CASE Reprice(k)
  <2>1. PlanTablesTyped'  BY <1>0, <1>8 DEF Reprice, PlanTablesTyped
  <2> QED  BY <1>1, <1>2, <1>8, <2>1 DEF Reprice
<1> QED  BY <1>4, <1>5, <1>6, <1>7, <1>8

LEMMA AssignTyped ==
  ASSUME PlanTypeOK, NEW m \in Manual, Assign(m)
  PROVE  PlanTypeOK'
<1> USE PlanTypeParts, PlanTypePartsNext DEF requests, links, OnlyPlans
<1> DEFINE n == [NoPlanYet EXCEPT !.status = "COMPLETED", !.active = TRUE, !.fee = fee]
<1>1. PlanTablesTyped /\ RequestsTyped /\ VerifiersTyped /\ m \in Plan
  BY PlanFields
<1>2. NoPlanYet \in PlanState  BY DEF NoPlanYet, PlanState
<1>3. n \in PlanState  BY <1>1, <1>2, PlanUpdated DEF PlanTablesTyped, PlanStatus
<1>4. Replace(m, n)  BY DEF Assign
<1> HIDE DEF n
<1>5. plan' \in [Plan -> PlanState] /\ assigned' = m  BY <1>1, <1>3, <1>4, ReplaceTyped
<1>6. charged' \in [Plan -> Nat]  BY <1>1 DEF Assign, PlanTablesTyped
<1>7. PlanTablesTyped'  BY <1>1, <1>5, <1>6 DEF Assign, PlanTablesTyped
<1> QED  BY <1>1, <1>7 DEF Assign, RequestsTyped, VerifiersTyped

LEMMA BuyAddonTyped ==
  ASSUME PlanTypeOK, NEW a \in Addon, BuyAddon(a)
  PROVE  PlanTypeOK'
<1> USE PlanTypeParts, PlanTypePartsNext DEF links, OnlyPlans
<1>1. PlanTablesTyped /\ RequestsTyped /\ VerifiersTyped  OBVIOUS
<1>2. PlanTablesTyped' /\ VerifiersTyped'
  BY <1>1 DEF BuyAddon, PlanTablesTyped, VerifiersTyped
<1>3. RequestsTyped'  BY <1>1 DEF BuyAddon, RequestsTyped, ActivePlans
<1> QED  BY <1>2, <1>3

\* What the steps of an extension request do to it.
LEMMA ExtensionMoved ==
  ASSUME PlanTypeOK, NEW x \in Extension, NEW e \in ExtensionState,
         e.at # "none" => e.plan \in Plan, extension' = [extension EXCEPT ![x] = e],
         UNCHANGED <<bought, suspended>>
  PROVE  RequestsTyped'
BY DEF PlanTypeOK, RequestsTyped

LEMMA ExtensionStepTyped ==
  ASSUME PlanTypeOK, NEW x \in Extension,
         RequestExtension(x) \/ QuoteExtension(x) \/ Extend(x) \/ RefuseExtension(x)
  PROVE  PlanTypeOK'
<1> USE PlanTypeParts, PlanTypePartsNext DEF links, OnlyPlans, OnlyExtension
<1>0. /\ PlanTablesTyped /\ RequestsTyped /\ VerifiersTyped
      /\ extension[x] \in ExtensionState /\ extension \in [Extension -> ExtensionState]
      /\ extension[x].at # "none" => extension[x].plan \in Plan
      /\ extension[x].days \in Nat /\ extension[x].price \in Nat
  BY PlanFields DEF PlanTypeOK
<1>1. UNCHANGED verifier => VerifiersTyped'  BY <1>0 DEF VerifiersTyped
<1>2. CASE RequestExtension(x)
  <2>1. PlanTablesTyped'  BY <1>0, <1>2 DEF RequestExtension, PlanTablesTyped
  <2>2. PICK p \in ActivePlans, d \in Days :
          extension' = [extension EXCEPT ![x].at = "viewed", ![x].plan = p,
                                         ![x].seen = plan[p].days, ![x].days = d]
    BY <1>2 DEF RequestExtension
  <2>3. p \in Plan /\ plan[p].days \in 0..MaxDays /\ d \in Nat  BY PlanFields DEF ActivePlans
  <2> DEFINE e == [extension[x] EXCEPT !.at = "viewed", !.plan = p, !.seen = plan[p].days, !.days = d]
  <2>4. e \in ExtensionState  BY <1>0, <2>3, ExtensionUpdated
  <2>5. e.plan = p /\ extension' = [extension EXCEPT ![x] = e]
    BY <1>0, <2>2 DEF ExtensionState
  <2> HIDE DEF e
  <2>6. RequestsTyped'  BY <1>2, <2>3, <2>4, <2>5, ExtensionMoved DEF RequestExtension
  <2> QED  BY <1>1, <1>2, <2>1, <2>6 DEF RequestExtension
<1>3. CASE QuoteExtension(x)
  <2>1. PlanTablesTyped'  BY <1>0, <1>3 DEF QuoteExtension, PlanTablesTyped
  <2> DEFINE p == extension[x].plan
             may == plan[p].days + extension[x].days <= MaxDays /\ StartsToCost(p, extension[x].days)
             price == IF may THEN fee ELSE 0
             e == [extension[x] EXCEPT !.at = "quoted", !.mayCost = may, !.price = price]
  <2>2. may \in BOOLEAN /\ price \in Nat  BY <1>0 DEF PlanTablesTyped
  <2>3. extension' = [extension EXCEPT ![x].at = "quoted", ![x].mayCost = may, ![x].price = price]
    BY <1>3 DEF QuoteExtension
  <2> HIDE DEF may, price
  <2>4. e \in ExtensionState  BY <1>0, <2>2, ExtensionUpdated
  <2>5. e.plan = p /\ extension' = [extension EXCEPT ![x] = e]
    BY <1>0, <2>3 DEF ExtensionState
  <2> HIDE DEF e
  <2>6. p \in Plan  BY <1>0, <1>3 DEF QuoteExtension
  <2>7. RequestsTyped'  BY <1>3, <2>4, <2>5, <2>6, ExtensionMoved DEF QuoteExtension
  <2> QED  BY <1>1, <1>3, <2>1, <2>7 DEF QuoteExtension
<1>4. CASE Extend(x)
  <2> DEFINE p == extension[x].plan
             d == plan[p].days + extension[x].days
             f == IF extension[x].mayCost THEN extension[x].price ELSE plan[p].extensionFee
             n == [plan[p] EXCEPT !.days = d, !.extensionFee = f]
             e == [extension[x] EXCEPT !.at = "extended"]
  <2>1. p \in Plan /\ plan[p] \in PlanState /\ plan[p].days \in 0..MaxDays
        /\ plan[p].extensionFee \in Nat \cup {NoFee}
    BY <1>0, <1>4, PlanFields DEF Extend
  <2>2. d \in 0..MaxDays  BY <1>0, <1>4, <2>1 DEF Extend, Extendable
  <2>3. f \in Nat \cup {NoFee}  BY <1>0, <2>1
  <2>4. plan' = [plan EXCEPT ![p] = n]  BY <1>0, <1>4, <2>1 DEF Extend, PlanTablesTyped
  <2>5. n \in PlanState
    <3> HIDE DEF d, f
    <3> QED  BY <2>1, <2>2, <2>3, PlanUpdated DEF PlanStatus
  <2>6. e \in ExtensionState /\ e.plan = p /\ extension' = [extension EXCEPT ![x] = e]
    BY <1>0, <1>4, ExtensionUpdated DEF Extend, ExtensionState
  <2>7. charged' = [charged EXCEPT ![p] = @ + extension[x].price]  BY <1>4 DEF Extend
  <2> HIDE DEF n, e, p
  <2>8. plan' \in [Plan -> PlanState] /\ charged' \in [Plan -> Nat]
    BY <1>0, <2>1, <2>4, <2>5, <2>7 DEF PlanTablesTyped
  <2>9. PlanTablesTyped'  BY <1>0, <1>4, <2>8 DEF Extend, PlanTablesTyped
  <2>10. RequestsTyped'  BY <1>4, <2>1, <2>6, ExtensionMoved DEF Extend
  <2> QED  BY <1>1, <1>4, <2>9, <2>10 DEF Extend
<1>5. CASE RefuseExtension(x)
  <2>1. PlanTablesTyped'  BY <1>0, <1>5 DEF RefuseExtension, PlanTablesTyped
  <2> DEFINE e == [extension[x] EXCEPT !.at = "refused"]
  <2>2. e \in ExtensionState /\ e.plan = extension[x].plan /\ extension' = [extension EXCEPT ![x] = e]
    BY <1>0, <1>5, ExtensionUpdated DEF RefuseExtension, ExtensionState
  <2>3. extension[x].plan \in Plan  BY <1>0, <1>5 DEF RefuseExtension
  <2> HIDE DEF e
  <2>4. RequestsTyped'  BY <1>5, <2>2, <2>3, ExtensionMoved DEF RefuseExtension
  <2> QED  BY <1>1, <1>5, <2>1, <2>4 DEF RefuseExtension
<1> QED  BY <1>2, <1>3, <1>4, <1>5

\* A verification begins: by request, or by the reconciler's claim.
LEMMA BeginTyped ==
  ASSUME PlanTypeOK, NEW o \in Purchase, NEW v \in Verifier,
         StartVerify(v, o) \/ (v \in Sweeper /\ Claim(v, o))
  PROVE  PlanTypeOK'
<1> USE PlanTypeParts, PlanTypePartsNext DEF requests, OnlyVerifier, links
<1>0. PlanTablesTyped /\ RequestsTyped /\ purchase[o] \in PurchaseState  BY PlanFields
<1>1. UNCHANGED requests => RequestsTyped'  BY <1>0 DEF RequestsTyped
<1>2. CASE StartVerify(v, o)
  <2>1. verifier' = [verifier EXCEPT ![v] = [Resting EXCEPT !.at = "fetch", !.purchase = o]]
    BY <1>2 DEF StartVerify
  <2>2. VerifiersTyped'  BY <2>1, VerifierBegins DEF VerifierPlace
  <2>3. PlanTablesTyped'  BY <1>0, <1>2 DEF StartVerify, PlanTablesTyped
  <2> QED  BY <1>1, <1>2, <2>2, <2>3 DEF StartVerify
<1>3. CASE v \in Sweeper /\ Claim(v, o)
  <2> DEFINE p == IF Completed(o) THEN "release" ELSE "fetch"
             n == [purchase[o] EXCEPT !.next = v]
  <2>1. verifier' = [verifier EXCEPT ![v] = [Resting EXCEPT !.purchase = o, !.at = p]]
    BY <1>3 DEF Claim
  <2>2. p \in VerifierPlace  BY DEF VerifierPlace
  <2>3. n \in PurchaseState  BY <1>0, <1>3, PurchaseUpdated DEF LinkStatus, PurchaseStatus
  <2>4. purchase' = [purchase EXCEPT ![o] = n]  BY <1>0, <1>3 DEF Claim, PlanTablesTyped
  <2> HIDE DEF p, n
  <2>5. VerifiersTyped'  BY <2>1, <2>2, VerifierBegins
  <2>6. purchase' \in [Purchase -> PurchaseState]  BY <1>0, <2>3, <2>4 DEF PlanTablesTyped
  <2>7. PlanTablesTyped'  BY <1>0, <1>3, <2>6 DEF Claim, PlanTablesTyped
  <2> QED  BY <1>1, <1>3, <2>5, <2>7 DEF Claim
<1> QED  BY <1>2, <1>3

\* So no step of the plans does.
LEMMA PlanStepTyped ==
  ASSUME PlanTypeOK, PlanNext
  PROVE  PlanTypeOK'
<1>1. Call \subseteq Verifier /\ Sweeper \subseteq Verifier  BY PlanFields
<1>2. ASSUME NEW o \in Purchase,
             \/ CreatePurchase(o) \/ PostLink(o) \/ ReceiveLink(o) \/ LoseLinkAnswer(o)
             \/ SaveLink(o) \/ MarkLinkUnknown(o) \/ BuyerDies(o)
             \/ OpenLink(o) \/ CloseLink(o) \/ PayLink(o) \/ CapturePayment(o) \/ WakeUp(o)
      PROVE  PlanTypeOK'
  BY <1>2, BuyerStepTyped
<1>3. ASSUME NEW o \in Purchase, NEW v \in Call, StartVerify(v, o) PROVE PlanTypeOK'
  <2>1. v \in Verifier  BY <1>1
  <2> QED  BY <1>3, <2>1, BeginTyped
<1>4. ASSUME NEW o \in Purchase, NEW v \in Sweeper, Claim(v, o) PROVE PlanTypeOK'
  <2>1. v \in Verifier  BY <1>1
  <2> QED  BY <1>4, <2>1, BeginTyped
<1>5. ASSUME NEW v \in Verifier, VerifyLinkStep(v) \/ VerifierFails(v) \/ VerifierDies(v)
      PROVE  PlanTypeOK'
  BY <1>5, VerifierStepTyped
<1>6. ASSUME NEW m \in Manual, Assign(m) PROVE PlanTypeOK'
  BY <1>6, AssignTyped
<1>7. ASSUME NEW k \in Edit,
             \/ \E p \in Plan : CancelPlan(k, p) \/ ChangeStatus(k, p)
             \/ ReadForSuspension(k) \/ SuspendPlan(k) \/ Reprice(k)
      PROVE  PlanTypeOK'
  BY <1>7, AdminStepTyped
<1>8. ASSUME NEW a \in Addon, BuyAddon(a) PROVE PlanTypeOK'
  BY <1>8, BuyAddonTyped
<1>9. ASSUME NEW x \in Extension,
             RequestExtension(x) \/ QuoteExtension(x) \/ Extend(x) \/ RefuseExtension(x)
      PROVE  PlanTypeOK'
  BY <1>9, ExtensionStepTyped
<1> QED  BY <1>2, <1>3, <1>4, <1>5, <1>6, <1>7, <1>8, <1>9 DEF PlanNext
-----------------------------------------------------------------------------
(***************************************************************************)
(* What a step may do to the money: the wallets and the ledgers that       *)
(* explain them (booked, charged, bought, granted).                        *)
(***************************************************************************)
ledgers == <<balance, platform, granted, booked, charged, bought>>

TopupBooked(t, n) ==
  /\ balance' = balance + n
  /\ booked' = [booked EXCEPT ![t] = @ + n]
  /\ UNCHANGED <<platform, granted, charged, bought>>

PlanPaid(p, n) ==
  /\ balance' = balance - n /\ platform' = platform + n
  /\ charged' = [charged EXCEPT ![p] = @ + n]
  /\ UNCHANGED <<granted, booked, bought>>

AddonPaid(a, p) ==
  /\ bought[a] = NoPlan
  /\ balance' = balance - AddonFee /\ platform' = platform + AddonFee
  /\ bought' = [bought EXCEPT ![a] = p]
  /\ UNCHANGED <<granted, booked, charged>>

CreditGranted(g) ==
  /\ g \notin granted
  /\ balance' = balance + GrantAmount
  /\ granted' = granted \cup {g}
  /\ UNCHANGED <<platform, booked, charged, bought>>

MoneyMoves ==
  \/ UNCHANGED ledgers
  \/ \E t \in Topup, n \in Int : TopupBooked(t, n)
  \/ \E p \in Plan, n \in Nat : PlanPaid(p, n)
  \/ \E a \in Addon, p \in Plan : AddonPaid(a, p)
  \/ \E g \in Grant : CreditGranted(g)

\* Of the steps of a top-up only settle touches the money, and it books what it credits.
LEMMA TopupMoney ==
  ASSUME TypeOK, TopupNext, UNCHANGED planVars
  PROVE  MoneyMoves
<1> USE DEF ledgers, planVars, requests, walletVars, razorpay, OnlyCreator, OnlyRazorpay, OnlyHandler
<1>1. ASSUME NEW h \in Handler, Settle(h) PROVE MoneyMoves
  <2> DEFINE t == job[h].topup
             back == TotalRefunded(t, job[h].returned)
             n == NewlyCredited(t) - (back - order[t].refunded)
  <2>1. t \in Topup /\ job[h].returned \in 0..Amount /\ order[t].refunded \in 0..Amount
    BY <1>1, TopupFields DEF Settle, TypeOK
  <2>2. back \in Int  BY <2>1 DEF TotalRefunded
  <2>3. n \in Int
    <3> HIDE DEF back
    <3> QED  BY <2>1, <2>2 DEF NewlyCredited
  <2>4. TopupBooked(t, n)  BY <1>1 DEF Settle, Credit, TopupBooked
  <2> HIDE DEF t, n
  <2> QED  BY <2>1, <2>3, <2>4 DEF MoneyMoves
<1>2. ASSUME NEW t \in Topup,
             \/ CreateTopup(t) \/ PostQr(t) \/ ReceiveQr(t) \/ LoseQrAnswer(t) \/ SaveQr(t)
             \/ MarkCreationUnknown(t) \/ CreatorDies(t)
             \/ OpenQr(t) \/ CloseQr(t) \/ Pay(t) \/ \E total \in 1..Amount : Return(t, total)
      PROVE  UNCHANGED ledgers
  BY <1>2 DEF CreateTopup, PostQr, ReceiveQr, LoseQrAnswer, SaveQr, MarkCreationUnknown,
              CreatorDies, OpenQr, CloseQr, Pay, Return
<1>3. ASSUME NEW c \in Check, NEW t \in Topup, Verify(c, t) PROVE UNCHANGED ledgers
  BY <1>3 DEF Verify
<1>4. ASSUME NEW h \in Hook, NEW e \in Event, Deliver(h, e) PROVE UNCHANGED ledgers
  BY <1>4 DEF Deliver
<1>5. ASSUME NEW h \in Handler, \/ FetchQr(h) \/ MarkQr(h) \/ ListPayments(h) \/ Reread(h)
                                \/ FetchPayment(h) \/ RecordEvent(h)
                                \/ ListTooEarly(h) \/ HandlerFails(h)
      PROVE  UNCHANGED ledgers
  BY <1>5 DEF FetchQr, MarkQr, ListPayments, Reread, FetchPayment, RecordEvent, ListTooEarly,
              HandlerFails
<1> QED  BY <1>1, <1>2, <1>3, <1>4, <1>5 DEF TopupNext, VerifyStep, MoneyMoves

LEMMA FeeMoves ==
  ASSUME balance \in Int, platform \in Int, NEW n \in Nat, TransferFee(n)
  PROVE  balance' = balance - n /\ platform' = platform + n /\ UNCHANGED granted
BY DEF TransferFee, Transfer, walletVars

\* Of the steps of the plans, an activation, an assignment and an extension charge a plan
\* what they transfer, and an add-on is bought once.
LEMMA PlanMoney ==
  ASSUME TypeOK, PlanNext, UNCHANGED topupVars
  PROVE  MoneyMoves
<1> USE DEF ledgers, topupVars, walletVars, requests, links
<1>0. PlanTypeOK /\ balance \in Int /\ platform \in Int  BY DEF TypeOK, WalletTypeOK
<1>1. ASSUME NEW v \in Verifier, Activate(v) PROVE MoneyMoves
  <2>1. verifier[v].purchase \in Plan /\ QuotedFee(verifier[v].purchase) \in Nat
    BY <1>0, <1>1, PlanFields DEF Activate, QuotedFee
  <2>2. PlanPaid(verifier[v].purchase, QuotedFee(verifier[v].purchase))
    BY <1>1 DEF Activate, Transfer, PlanPaid
  <2> QED  BY <2>1, <2>2 DEF MoneyMoves
<1>2. ASSUME NEW m \in Manual, Assign(m) PROVE MoneyMoves
  <2>1. m \in Plan /\ fee \in Nat  BY <1>0, PlanFields DEF PlanTypeOK
  <2>2. PlanPaid(m, fee)  BY <1>0, <1>2, <2>1, FeeMoves DEF Assign, PlanPaid
  <2> QED  BY <2>1, <2>2 DEF MoneyMoves
<1>3. ASSUME NEW x \in Extension, Extend(x) PROVE MoneyMoves
  <2>1. extension[x].plan \in Plan /\ extension[x].price \in Nat
    BY <1>0, <1>3, PlanFields DEF Extend
  <2>2. PlanPaid(extension[x].plan, extension[x].price)
    BY <1>0, <1>3, <2>1, FeeMoves DEF Extend, PlanPaid, OnlyExtension
  <2> QED  BY <2>1, <2>2 DEF MoneyMoves
<1>4. ASSUME NEW a \in Addon, BuyAddon(a) PROVE MoneyMoves
  <2>1. \E p \in Plan : bought' = [bought EXCEPT ![a] = p]
    BY <1>4 DEF BuyAddon, ActivePlans
  <2>2. \E p \in Plan : AddonPaid(a, p)
    BY <1>4, <2>1 DEF BuyAddon, Transfer, AddonPaid
  <2> QED  BY <2>2 DEF MoneyMoves
<1>5. ASSUME NEW o \in Purchase,
             \/ CreatePurchase(o) \/ PostLink(o) \/ ReceiveLink(o) \/ LoseLinkAnswer(o)
             \/ SaveLink(o) \/ MarkLinkUnknown(o) \/ BuyerDies(o)
             \/ OpenLink(o) \/ CloseLink(o) \/ PayLink(o) \/ CapturePayment(o) \/ WakeUp(o)
             \/ (\E v \in Call : StartVerify(v, o)) \/ (\E v \in Sweeper : Claim(v, o))
      PROVE  UNCHANGED ledgers
  <2>1. CASE CreatePurchase(o) \/ WakeUp(o) \/ OpenLink(o) \/ CloseLink(o) \/ PayLink(o)
             \/ CapturePayment(o)
    BY <2>1 DEF CreatePurchase, WakeUp, OpenLink, CloseLink, PayLink, CapturePayment, OnlyLink
  <2>2. CASE PostLink(o) \/ ReceiveLink(o) \/ LoseLinkAnswer(o) \/ SaveLink(o)
             \/ MarkLinkUnknown(o) \/ BuyerDies(o)
    BY <2>2 DEF PostLink, ReceiveLink, LoseLinkAnswer, SaveLink, MarkLinkUnknown, BuyerDies,
                OnlyBuyer
  <2>3. CASE (\E v \in Call : StartVerify(v, o)) \/ (\E v \in Sweeper : Claim(v, o))
    BY <2>3 DEF StartVerify, Claim, OnlyVerifier
  <2> QED  BY <1>5, <2>1, <2>2, <2>3
<1>6. ASSUME NEW v \in Verifier,
             \/ FetchLink(v) \/ RecordReceipt(v) \/ CheckCapture(v) \/ LockPurchase(v)
             \/ RefuseActivation(v) \/ ScheduleRetry(v) \/ Release(v)
             \/ VerifierFails(v) \/ VerifierDies(v)
      PROVE  UNCHANGED ledgers
  BY <1>6 DEF FetchLink, RecordReceipt, CheckCapture, LockPurchase, RefuseActivation,
              ScheduleRetry, Release, VerifierFails, VerifierDies, OnlyVerifier
<1>7. ASSUME NEW k \in Edit,
             \/ \E p \in Plan : CancelPlan(k, p) \/ ChangeStatus(k, p)
             \/ ReadForSuspension(k) \/ SuspendPlan(k) \/ Reprice(k)
      PROVE  UNCHANGED ledgers
  BY <1>7 DEF CancelPlan, ChangeStatus, ReadForSuspension, SuspendPlan, Reprice
<1>8. ASSUME NEW x \in Extension,
             RequestExtension(x) \/ QuoteExtension(x) \/ RefuseExtension(x)
      PROVE  UNCHANGED ledgers
  BY <1>8 DEF RequestExtension, QuoteExtension, RefuseExtension, OnlyExtension
<1> QED
  BY <1>1, <1>2, <1>3, <1>4, <1>5, <1>6, <1>7, <1>8 DEF PlanNext, VerifyLinkStep, MoneyMoves

LEMMA MoneyStep ==
  ASSUME TypeOK, [Next]_vars
  PROVE  MoneyMoves
<1>1. CASE UNCHANGED vars
  BY <1>1 DEF vars, walletVars, topupVars, planVars, requests, MoneyMoves, ledgers
<1>2. CASE TopupNext /\ UNCHANGED planVars  BY <1>2, TopupMoney
<1>3. CASE PlanNext /\ UNCHANGED topupVars  BY <1>3, PlanMoney
<1>4. ASSUME NEW g \in Grant, AddCredit(g), UNCHANGED <<topupVars, planVars>>
      PROVE  MoneyMoves
  <2>1. CreditGranted(g)
    BY <1>4 DEF AddCredit, Credit, CreditGranted, topupVars, planVars, requests
  <2> QED  BY <2>1 DEF MoneyMoves
<1> QED  BY <1>1, <1>2, <1>3, <1>4 DEF Next

\* Every step leaves the bounds in their type.
LEMMA FaultsTyped ==
  ASSUME faults \in Nat, [Next]_vars
  PROVE  faults' \in Nat
<1>0. (UNCHANGED bounds \/ Fault \/ \E r : Ask(r)) => faults' \in Nat
  BY BoundsTyped DEF NoFault, bounds
<1>1. CASE UNCHANGED vars  BY <1>0, <1>1 DEF vars
<1>2. CASE TopupNext
  BY <1>0, <1>2
  DEF TopupNext, CreateTopup, PostQr, ReceiveQr, LoseQrAnswer, SaveQr, MarkCreationUnknown,
      CreatorDies, OpenQr, CloseQr, Pay, Return, Verify, Deliver, VerifyStep, FetchQr, MarkQr,
      ListPayments, Reread, FetchPayment, Settle, RecordEvent, ListTooEarly, HandlerFails,
      OnlyRazorpay, NoFault
<1>3. ASSUME NEW o \in Purchase,
             \/ CreatePurchase(o) \/ PostLink(o) \/ ReceiveLink(o) \/ LoseLinkAnswer(o)
             \/ SaveLink(o) \/ MarkLinkUnknown(o) \/ BuyerDies(o)
             \/ OpenLink(o) \/ CloseLink(o) \/ PayLink(o) \/ CapturePayment(o) \/ WakeUp(o)
             \/ (\E v \in Call : StartVerify(v, o)) \/ (\E v \in Sweeper : Claim(v, o))
      PROVE  faults' \in Nat
  BY <1>0, <1>3
  DEF CreatePurchase, PostLink, ReceiveLink, LoseLinkAnswer, SaveLink, MarkLinkUnknown,
      BuyerDies, OpenLink, CloseLink, PayLink, CapturePayment, WakeUp, StartVerify, Claim,
      OnlyLink, NoFault
<1>4. ASSUME NEW v \in Verifier, VerifyLinkStep(v) \/ VerifierFails(v) \/ VerifierDies(v)
      PROVE  faults' \in Nat
  BY <1>0, <1>4
  DEF VerifyLinkStep, FetchLink, RecordReceipt, CheckCapture, LockPurchase, Activate,
      RefuseActivation, ScheduleRetry, Release, VerifierFails, VerifierDies, NoFault
<1>5. ASSUME \/ \E m \in Manual : Assign(m)
             \/ \E k \in Edit : \/ \E p \in Plan : CancelPlan(k, p) \/ ChangeStatus(k, p)
                                \/ ReadForSuspension(k) \/ SuspendPlan(k) \/ Reprice(k)
             \/ \E a \in Addon : BuyAddon(a)
             \/ \E x \in Extension :
                  RequestExtension(x) \/ QuoteExtension(x) \/ Extend(x) \/ RefuseExtension(x)
      PROVE  faults' \in Nat
  BY <1>0, <1>5
  DEF Assign, CancelPlan, ChangeStatus, ReadForSuspension, SuspendPlan, Reprice, BuyAddon,
      RequestExtension, QuoteExtension, Extend, RefuseExtension, OnlyExtension, OnlyPlans, NoFault
<1>6. CASE PlanNext  BY <1>3, <1>4, <1>5, <1>6 DEF PlanNext
<1>7. ASSUME NEW g \in Grant, AddCredit(g) PROVE faults' \in Nat
  BY <1>0, <1>7 DEF AddCredit
<1> QED  BY <1>1, <1>2, <1>6, <1>7 DEF Next

\* The wallets stay whole amounts, whatever is paid.
LEMMA WalletStepTyped ==
  ASSUME TypeOK, [Next]_vars
  PROVE  WalletTypeOK'
<1>1. balance \in Int /\ platform \in Int /\ granted \subseteq Grant
  BY DEF TypeOK, WalletTypeOK
<1>2. balance' \in Int /\ platform' \in Int /\ granted' \subseteq Grant
  BY <1>1, MoneyStep
  DEF MoneyMoves, ledgers, TopupBooked, PlanPaid, AddonPaid, CreditGranted
<1>3. faults' \in Nat  BY FaultsTyped DEF TypeOK, WalletTypeOK
<1> QED  BY <1>2, <1>3 DEF WalletTypeOK

\* The initial tables are empty, of their types.
LEMMA InitTyped == Init => TypeOK
<1> SUFFICES ASSUME Init PROVE TypeOK
  OBVIOUS
<1>1. WalletTypeOK  BY DEF Init, WalletInit, WalletTypeOK
<1>2. TopupTypeOK
  <2>1. Idle \in JobState  BY DEF Idle, JobState, Place
  <2> QED  BY <2>1 DEF Init, TopupInit, TopupTypeOK, OrderState, Idle
<1>3. PlanTypeOK
  <2>1. NoPlanYet \in PlanState  BY DEF NoPlanYet, PlanState
  <2>2. Resting \in VerifierState  BY DEF Resting, VerifierState
  <2> QED
    BY <2>1, <2>2
    DEF Init, PlanInit, PlanTypeOK, PurchaseState, ExtensionState, Resting
<1> QED  BY <1>1, <1>2, <1>3 DEF TypeOK

\* Every variable of the wallet, the top-ups and the plans keeps its type.
THEOREM TypeCorrect == Spec => []TypeOK
<1>1. TypeOK /\ [Next]_vars => TypeOK'
  <2> SUFFICES ASSUME TypeOK, [Next]_vars PROVE TypeOK'
    OBVIOUS
  <2>1. WalletTypeOK'  BY WalletStepTyped
  <2>2. TopupTypeOK'
    <3>1. UNCHANGED topupVars => TopupTypeOK'
      BY DEF TypeOK, topupVars, razorpay, TopupTypeOK
    <3> QED  BY <3>1, TopupStepTyped DEF Next, vars, TypeOK, AddCredit
  <2>3. PlanTypeOK'
    <3>1. UNCHANGED planVars => PlanTypeOK'
      BY DEF TypeOK, planVars, links, requests, PlanTypeOK
    <3> QED  BY <3>1, PlanStepTyped DEF Next, vars, TypeOK
  <2> QED  BY <2>1, <2>2, <2>3 DEF TypeOK
<1> QED  BY <1>1, InitTyped, PTL DEF Spec
-----------------------------------------------------------------------------
(***************************************************************************)
(* Top-ups: what handlers know when they act.                              *)
(***************************************************************************)
\* An event never tells of more than has been returned.
EventsAreTrue == \A e \in sent : e.total <= returned[e.topup]

\* Nothing is refunded before it is credited.
RefundsFollowCredits == \A t \in Topup : ~order[t].credited => order[t].refunded = 0

\* What handler h has learned of its purchase still holds, although it learned it one
\* answer at a time: a payment once captured stays captured, and totals only grow.
HandlerKnows(h) ==
  LET t == job[h].topup  e == job[h].event IN
    /\ job[h].at \in {"payment", "settle"} => paid[t]
    /\ job[h].at = "settle" => job[h].returned <= returned[t]
    /\ job[h].at # "idle" /\ e # NoEvent =>
         /\ e \in sent /\ e.topup = t
         /\ job[h].at \in {"qr", "mark", "list", "reread"} => e.total = 0
         /\ job[h].at = "settle" => job[h].returned >= e.total
         /\ job[h].at = "record" => order[t].credited /\ order[t].refunded >= e.total

TopupInv ==
  /\ CreditsFollowPayments
  /\ ProcessedRefundIsDebited
  /\ EventsAreTrue
  /\ RefundsFollowCredits
  /\ \A h \in Handler : HandlerKnows(h)

\* Of Razorpay: captured payments stay captured, totals grow, events are not forgotten.
\* Of the orders: credits stay, refunds grow.
KnowledgeGrows ==
  /\ \A t \in Topup : /\ paid[t] => paid'[t]
                      /\ returned[t] <= returned'[t]
                      /\ order[t].credited => order'[t].credited
                      /\ order[t].refunded <= order'[t].refunded
  /\ sent \subseteq sent'

\* What a handler knows it keeps knowing while others act.
LEMMA KnowledgeLasts ==
  ASSUME TopupTypeOK, TopupTypeOK', KnowledgeGrows, NEW h \in Handler, job'[h] = job[h], HandlerKnows(h)
  PROVE  HandlerKnows(h)'
<1> DEFINE t == job[h].topup  e == job[h].event
<1>1. CASE job[h].at = "idle"  BY <1>1 DEF HandlerKnows
<1>2. CASE job[h].at # "idle"
  <2>1. t \in Topup /\ job[h].returned \in Int  BY <1>2, TopupFields
  <2>2. returned[t] \in Int /\ returned'[t] \in Int /\ order[t].refunded \in Int
        /\ order'[t].refunded \in Int
    BY <2>1, TopupFields DEF TopupTypeOK, OrderState
  <2>3. e # NoEvent => e.total \in Int  BY TopupFields
  <2> QED  BY <1>2, <2>1, <2>2, <2>3 DEF HandlerKnows, KnowledgeGrows
<1> QED  BY <1>1, <1>2

\* A step that leaves the orders' money, the bookings and the processed events alone, and
\* after which the acting handler h knows what it should, keeps the invariant.
LEMMA QuietTopupStep ==
  ASSUME TopupTypeOK, TopupTypeOK', TopupInv, NEW h \in Handler,
         \A t \in Topup : /\ order'[t].credited = order[t].credited
                          /\ order'[t].refunded = order[t].refunded,
         UNCHANGED <<booked, paid, returned, sent, seen>>,
         \A g \in Handler : g # h => job'[g] = job[g],
         HandlerKnows(h)'
  PROVE  TopupInv'
<1>1. KnowledgeGrows  BY TopupFields DEF KnowledgeGrows, TopupTypeOK
<1>2. \A g \in Handler : HandlerKnows(g)'
  <2> SUFFICES ASSUME NEW g \in Handler PROVE HandlerKnows(g)'
    OBVIOUS
  <2>1. CASE g = h  BY <2>1
  <2>2. CASE g # h  BY <1>1, <2>2, KnowledgeLasts DEF TopupInv
  <2> QED  BY <2>1, <2>2
<1>3. CreditsFollowPayments'
  BY DEF TopupInv, CreditsFollowPayments
<1>4. ProcessedRefundIsDebited'
  <2>1. \A e \in seen : e.topup \in Topup  BY TopupFields DEF TopupTypeOK
  <2> QED  BY <2>1 DEF TopupInv, ProcessedRefundIsDebited
<1>5. EventsAreTrue'  BY DEF TopupInv, EventsAreTrue
<1>6. RefundsFollowCredits'  BY DEF TopupInv, RefundsFollowCredits
<1> QED  BY <1>2, <1>3, <1>4, <1>5, <1>6 DEF TopupInv

\* Steps of the request that creates a purchase, and of the status of its QR code.
LEMMA QuietOrderStep ==
  ASSUME TopupTypeOK, TopupTypeOK', TopupInv,
         \A t \in Topup : /\ order'[t].credited = order[t].credited
                          /\ order'[t].refunded = order[t].refunded,
         UNCHANGED <<booked, paid, returned, sent, seen, job>>
  PROVE  TopupInv'
<1>1. KnowledgeGrows  BY TopupFields DEF KnowledgeGrows, TopupTypeOK
<1>2. \A g \in Handler : HandlerKnows(g)'  BY <1>1, KnowledgeLasts DEF TopupInv
<1>3. CreditsFollowPayments'  BY DEF TopupInv, CreditsFollowPayments
<1>4. ProcessedRefundIsDebited'
  <2>1. \A e \in seen : e.topup \in Topup  BY TopupFields DEF TopupTypeOK
  <2> QED  BY <2>1 DEF TopupInv, ProcessedRefundIsDebited
<1>5. EventsAreTrue'  BY DEF TopupInv, EventsAreTrue
<1>6. RefundsFollowCredits'  BY DEF TopupInv, RefundsFollowCredits
<1> QED  BY <1>2, <1>3, <1>4, <1>5, <1>6 DEF TopupInv

LEMMA CreatorStepInv ==
  ASSUME TopupTypeOK, TopupTypeOK', TopupInv, NEW t \in Topup,
         \/ CreateTopup(t) \/ PostQr(t) \/ ReceiveQr(t) \/ LoseQrAnswer(t) \/ SaveQr(t)
         \/ MarkCreationUnknown(t) \/ CreatorDies(t) \/ OpenQr(t) \/ CloseQr(t)
  PROVE  TopupInv'
<1>1. \A q \in Topup : /\ order'[q].credited = order[q].credited
                       /\ order'[q].refunded = order[q].refunded
  BY DEF CreateTopup, PostQr, ReceiveQr, LoseQrAnswer, SaveQr, MarkCreationUnknown, CreatorDies,
         OpenQr, CloseQr, OnlyRazorpay, TopupTypeOK, OrderState
<1>2. UNCHANGED <<booked, paid, returned, sent, seen, job>>
  BY DEF CreateTopup, PostQr, ReceiveQr, LoseQrAnswer, SaveQr, MarkCreationUnknown, CreatorDies,
         OpenQr, CloseQr, OnlyRazorpay, OnlyCreator, razorpay
<1> QED  BY <1>1, <1>2, QuietOrderStep

\* A payment is captured, or some of it returned: Razorpay's word changes, the orders do not.
LEMMA RazorpayStepInv ==
  ASSUME TopupTypeOK, TopupTypeOK', TopupInv, NEW t \in Topup,
         Pay(t) \/ \E total \in 1..Amount : Return(t, total)
  PROVE  TopupInv'
<1>1. UNCHANGED <<order, booked, seen, job>>
  BY DEF Pay, Return, OnlyRazorpay
<1>2. \A q \in Topup : returned[q] \in Int /\ returned'[q] \in Int
  BY DEF TopupTypeOK
<1>3. KnowledgeGrows /\ EventsAreTrue'
  <2>1. CASE Pay(t)
    <3>1. sent' = sent \cup {[topup |-> t, total |-> 0]} /\ UNCHANGED returned
          /\ paid' = [paid EXCEPT ![t] = TRUE]
      BY <2>1 DEF Pay
    <3>2. returned[t] >= 0  BY DEF TopupTypeOK
    <3>3. KnowledgeGrows  BY <1>1, <1>2, <3>1, TopupFields DEF KnowledgeGrows, TopupTypeOK
    <3> QED  BY <3>1, <3>2, <3>3 DEF TopupInv, EventsAreTrue
  <2>2. ASSUME NEW total \in 1..Amount, Return(t, total) PROVE KnowledgeGrows /\ EventsAreTrue'
    <3>1. sent' = sent \cup {[topup |-> t, total |-> total]} /\ UNCHANGED paid
          /\ returned' = [returned EXCEPT ![t] = total] /\ total > returned[t]
      BY <1>2, <2>2 DEF Return
    <3>2. \A q \in Topup : returned[q] <= returned'[q] /\ returned'[t] = total
      BY <1>2, <3>1 DEF TopupTypeOK
    <3>3. KnowledgeGrows  BY <1>1, <3>1, <3>2, TopupFields DEF KnowledgeGrows
    <3>4. \A e \in sent : e.topup \in Topup /\ e.total \in Int
      BY TopupFields DEF TopupTypeOK
    <3> QED  BY <1>2, <3>1, <3>2, <3>3, <3>4 DEF TopupInv, EventsAreTrue
  <2> QED  BY <2>1, <2>2
<1>4. \A g \in Handler : HandlerKnows(g)'  BY <1>1, <1>3, KnowledgeLasts DEF TopupInv
<1>5. CreditsFollowPayments'
  BY <1>1, <1>2, <1>3, TopupFields DEF TopupInv, CreditsFollowPayments, KnowledgeGrows
<1>6. ProcessedRefundIsDebited' /\ RefundsFollowCredits'
  BY <1>1 DEF TopupInv, ProcessedRefundIsDebited, RefundsFollowCredits
<1> QED  BY <1>3, <1>4, <1>5, <1>6 DEF TopupInv

\* A verification begins with the order as it is looked up: an event of a refund finds
\* its order by the payment, so only a credited one.
LEMMA BeginInv ==
  ASSUME TopupTypeOK, TopupTypeOK', TopupInv, NEW h \in Handler, NEW t \in Topup,
         NEW e \in Event \cup {NoEvent}, Begin(h, t, e),
         e # NoEvent => e \in sent /\ e.topup = t /\ Found(e),
         UNCHANGED <<order, booked, paid, returned, sent, seen>>
  PROVE  TopupInv'
<1>1. /\ job'[h].at = IF order[t].credited THEN "payment" ELSE "qr"
      /\ job'[h].topup = t /\ job'[h].event = e
      /\ \A g \in Handler : g # h => job'[g] = job[g]
  BY JobBegins
<1>2. job'[h].at = "payment" => paid[t]
  BY <1>1 DEF TopupInv, CreditsFollowPayments
<1>3. e # NoEvent /\ ~order[t].credited => e.total = 0
  BY DEF Found
<1>4. HandlerKnows(h)'  BY <1>1, <1>2, <1>3 DEF HandlerKnows
<1> QED  BY <1>1, <1>4, QuietTopupStep

\* A handler that gives up knows nothing.
LEMMA LeaveInv ==
  ASSUME TopupTypeOK, TopupTypeOK', TopupInv, NEW h \in Handler, Leave(h),
         UNCHANGED <<order, booked, paid, returned, sent, seen>>
  PROVE  TopupInv'
<1>1. job'[h] = Idle /\ \A g \in Handler : g # h => job'[g] = job[g]
  BY DEF Leave, TopupTypeOK
<1>2. HandlerKnows(h)'  BY <1>1 DEF HandlerKnows, Idle
<1> QED  BY <1>1, <1>2, QuietTopupStep

\* A handler goes from one question to the next.
LEMMA AskNextInv ==
  ASSUME TopupTypeOK, TopupTypeOK', TopupInv, NEW h \in Handler, NEW p \in Place,
         job[h].at \in {"qr", "mark", "list", "reread"}, Goto(h, p),
         p \in {"mark", "list", "reread", "payment"},
         p = "payment" => paid[job[h].topup],
         \A t \in Topup : /\ order'[t].credited = order[t].credited
                          /\ order'[t].refunded = order[t].refunded,
         UNCHANGED <<booked, paid, returned, sent, seen>>
  PROVE  TopupInv'
<1>1. /\ job'[h].at = p /\ job'[h].topup = job[h].topup /\ job'[h].event = job[h].event
      /\ \A g \in Handler : g # h => job'[g] = job[g]
  BY JobMoved
<1>2. HandlerKnows(h)  BY DEF TopupInv
<1>3. HandlerKnows(h)'  BY <1>1, <1>2 DEF HandlerKnows
<1> QED  BY <1>1, <1>3, QuietTopupStep

\* settle: the credit, the refunds so far and the ledger entry are one transaction, made
\* on the locked row, from totals that may be older than what the row already has.
LEMMA SettleInv ==
  ASSUME TopupTypeOK, TopupTypeOK', TopupInv, NEW h \in Handler, Settle(h)
  PROVE  TopupInv'
<1> DEFINE t == job[h].topup
           old == order[t].refunded
           new == TotalRefunded(t, job[h].returned)
           amount == NewlyCredited(t) - (new - old)
<1>1. t \in Topup /\ job[h].returned \in 0..Amount /\ old \in 0..Amount
      /\ returned[t] \in 0..Amount /\ booked[t] \in Int
  BY TopupFields DEF Settle, TopupTypeOK
<1>2. new \in 0..Amount /\ new >= old /\ new >= job[h].returned
      /\ (new = old \/ new = job[h].returned)
  BY <1>1 DEF TotalRefunded
<1>3. order' = [order EXCEPT ![t].status = StatusOf(new), ![t].credited = TRUE,
                             ![t].refunded = new]
  BY DEF Settle
<1>4. booked' = [booked EXCEPT ![t] = @ + amount]  BY DEF Settle
<1>5. UNCHANGED <<paid, returned, sent, seen>>  BY DEF Settle, razorpay
<1>6. HandlerKnows(h) /\ job[h].at = "settle"  BY DEF TopupInv, Settle
<1> HIDE DEF t, new
<1>7. /\ order'[t].credited /\ order'[t].refunded = new
      /\ \A q \in Topup : q # t => order'[q] = order[q]
  BY <1>1, <1>3 DEF TopupTypeOK, OrderState
<1>8. /\ booked'[t] = booked[t] + amount
      /\ \A q \in Topup : q # t => booked'[q] = booked[q]
  BY <1>1, <1>4 DEF TopupTypeOK
<1>9. paid[t] /\ new <= returned[t]
  <2>1. paid[t] /\ job[h].returned <= returned[t]  BY <1>6 DEF HandlerKnows, t
  <2>2. old <= returned[t]  BY <1>1 DEF TopupInv, CreditsFollowPayments
  <2> QED  BY <1>1, <1>2, <2>1, <2>2
<1>10. CreditsFollowPayments'
  <2>1. booked'[t] = Amount - new
    <3>1. CASE order[t].credited
      <4>1. booked[t] = Amount - old  BY <1>1, <3>1 DEF TopupInv, CreditsFollowPayments
      <4> QED  BY <1>1, <1>2, <1>8, <3>1, <4>1 DEF NewlyCredited
    <3>2. CASE ~order[t].credited
      <4>1. booked[t] = 0 /\ old = 0
        BY <1>1, <3>2 DEF TopupInv, CreditsFollowPayments, RefundsFollowCredits
      <4> QED  BY <1>1, <1>2, <1>8, <3>2, <4>1 DEF NewlyCredited
    <3> QED  BY <3>1, <3>2
  <2> SUFFICES ASSUME NEW q \in Topup
               PROVE  /\ booked'[q] = IF order'[q].credited THEN Amount - order'[q].refunded ELSE 0
                      /\ order'[q].credited => paid'[q]
                      /\ order'[q].refunded <= returned'[q]
    BY DEF CreditsFollowPayments
  <2>2. CASE q = t  BY <1>5, <1>7, <1>9, <2>1, <2>2
  <2>3. CASE q # t  BY <1>5, <1>7, <1>8, <2>3 DEF TopupInv, CreditsFollowPayments
  <2> QED  BY <2>2, <2>3
<1>11. KnowledgeGrows
  BY <1>1, <1>2, <1>5, <1>7, TopupFields DEF KnowledgeGrows, TopupTypeOK
<1>12. ProcessedRefundIsDebited'
  <2> SUFFICES ASSUME NEW e \in seen
               PROVE  order'[e.topup].credited /\ order'[e.topup].refunded >= e.total
    BY <1>5 DEF ProcessedRefundIsDebited
  <2>1. e.topup \in Topup /\ e.total \in Int  BY TopupFields DEF TopupTypeOK
  <2>2. order[e.topup].credited /\ order[e.topup].refunded >= e.total
        /\ order[e.topup].refunded \in Int /\ order'[e.topup].refunded \in Int
    BY <2>1, TopupFields DEF TopupInv, ProcessedRefundIsDebited, TopupTypeOK, OrderState
  <2> QED  BY <1>11, <2>1, <2>2 DEF KnowledgeGrows
<1>13. EventsAreTrue' /\ RefundsFollowCredits'
  BY <1>5, <1>7 DEF TopupInv, EventsAreTrue, RefundsFollowCredits
<1>14. \A g \in Handler : HandlerKnows(g)'
  <2> SUFFICES ASSUME NEW g \in Handler PROVE HandlerKnows(g)'
    OBVIOUS
  <2>1. CASE Leave(h)
    <3>1. job'[h] = Idle /\ \A k \in Handler : k # h => job'[k] = job[k]
      BY <2>1 DEF Leave, TopupTypeOK
    <3>2. CASE g = h  BY <3>1, <3>2 DEF HandlerKnows, Idle
    <3>3. CASE g # h  BY <1>11, <3>1, <3>3, KnowledgeLasts DEF TopupInv
    <3> QED  BY <3>2, <3>3
  <2>2. CASE job[h].event # NoEvent /\ Goto(h, "record")
    <3>1. /\ job'[h].at = "record" /\ job'[h].topup = t /\ job'[h].event = job[h].event
          /\ \A k \in Handler : k # h => job'[k] = job[k]
      BY <1>6, <2>2, JobMoved DEF t, Place
    <3>2. CASE g = h
      <4>1. job[h].event \in Event  BY <2>2, TopupFields
      <4>2. /\ job[h].event \in sent /\ job[h].event.topup = t
            /\ job[h].returned >= job[h].event.total
        BY <1>6, <2>2 DEF HandlerKnows, t
      <4>3. new >= job[h].event.total
        BY <1>1, <1>2, <4>1, <4>2, TopupFields
      <4> QED  BY <1>5, <1>7, <3>1, <3>2, <4>2, <4>3 DEF HandlerKnows
    <3>3. CASE g # h  BY <1>11, <3>1, <3>3, KnowledgeLasts DEF TopupInv
    <3> QED  BY <3>2, <3>3
  <2> QED  BY <2>1, <2>2 DEF Settle
<1> QED  BY <1>10, <1>12, <1>13, <1>14 DEF TopupInv

\* The steps of a handler, one by one.
LEMMA HandlerStepInv ==
  ASSUME TopupTypeOK, TopupTypeOK', TopupInv, NEW h \in Handler,
         VerifyStep(h) \/ ListTooEarly(h) \/ HandlerFails(h)
  PROVE  TopupInv'
<1> USE DEF OnlyHandler, razorpay
<1>0. \A p \in {"mark", "list", "reread", "payment", "record"} : p \in Place
  BY DEF Place
<1>1. CASE FetchQr(h)
  <2>1. UNCHANGED <<order, booked, paid, returned, sent, seen>>  BY <1>1 DEF FetchQr
  <2>2. CASE Leave(h)  BY <2>1, <2>2, LeaveInv
  <2>3. CASE ~Leave(h)
    <3>1. job' = [job EXCEPT ![h].at = "mark", ![h].closed = (qr[job[h].topup] = "closed")]
          /\ job[h].at = "qr" /\ job[h] \in JobState /\ job \in [Handler -> JobState]
      BY <1>1, <2>3 DEF FetchQr, TopupTypeOK
    <3>2. /\ job'[h].at = "mark" /\ job'[h].topup = job[h].topup /\ job'[h].event = job[h].event
          /\ \A g \in Handler : g # h => job'[g] = job[g]
      BY <3>1 DEF JobState
    <3>3. HandlerKnows(h)'  BY <2>1, <3>1, <3>2 DEF HandlerKnows, TopupInv
    <3> QED  BY <2>1, <3>2, <3>3, QuietTopupStep
  <2> QED  BY <2>2, <2>3
<1>2. CASE MarkQr(h)
  <2>1. \A t \in Topup : /\ order'[t].credited = order[t].credited
                         /\ order'[t].refunded = order[t].refunded
    <3>1. job[h].topup \in Topup  BY <1>2, TopupFields DEF MarkQr
    <3>2. \A st : /\ [order[job[h].topup] EXCEPT !.status = st, !.qr = TRUE].credited
                      = order[job[h].topup].credited
                 /\ [order[job[h].topup] EXCEPT !.status = st, !.qr = TRUE].refunded
                      = order[job[h].topup].refunded
      BY <3>1 DEF TopupTypeOK, OrderState
    <3>3. order' = order \/ \E st \in {"closed", "expired", "pending"} :
            order' = [order EXCEPT ![job[h].topup] =
                        [order[job[h].topup] EXCEPT !.status = st, !.qr = TRUE]]
      BY <1>2, MarkQrOrder
    <3>4. order \in [Topup -> OrderState]  BY DEF TopupTypeOK
    <3> QED  BY <3>1, <3>2, <3>3, <3>4
  <2>2. UNCHANGED <<booked, paid, returned, sent, seen>> /\ job[h].at = "mark" /\ Goto(h, "list")
    BY <1>2 DEF MarkQr
  <2> QED  BY <1>0, <2>1, <2>2, AskNextInv
<1>3. CASE ListPayments(h) \/ ListTooEarly(h)
  <2>1. UNCHANGED <<order, booked, paid, returned, sent, seen>> /\ job[h].at = "list"
    BY <1>3 DEF ListPayments, ListTooEarly
  <2>2. \E p \in {"payment", "reread"} : Goto(h, p) /\ (p = "payment" => paid[job[h].topup])
    BY <1>3 DEF ListPayments, ListTooEarly
  <2> QED  BY <1>0, <2>1, <2>2, AskNextInv
<1>4. CASE Reread(h)
  <2>1. UNCHANGED <<order, booked, paid, returned, sent, seen>> /\ job[h].at = "reread"
    BY <1>4 DEF Reread
  <2>2. CASE Leave(h)  BY <2>1, <2>2, LeaveInv
  <2>3. CASE order[job[h].topup].credited /\ job[h].event # NoEvent /\ Goto(h, "record")
    <3>1. /\ job'[h].at = "record" /\ job'[h].topup = job[h].topup /\ job'[h].event = job[h].event
          /\ \A g \in Handler : g # h => job'[g] = job[g]
      BY <1>0, <2>1, <2>3, JobMoved
    <3>2. order[job[h].topup].refunded \in 0..Amount /\ job[h].topup \in Topup
      BY <2>1, TopupFields
    <3>3. job[h].event.total = 0  BY <2>1, <2>3 DEF TopupInv, HandlerKnows
    <3>4. HandlerKnows(h)'  BY <2>1, <2>3, <3>1, <3>2, <3>3 DEF TopupInv, HandlerKnows
    <3> QED  BY <2>1, <3>1, <3>4, QuietTopupStep
  <2> QED  BY <1>4, <2>2, <2>3 DEF Reread
<1>5. CASE FetchPayment(h)
  <2>1. UNCHANGED <<order, booked, paid, returned, sent, seen>> /\ job[h].at = "payment"
    BY <1>5 DEF FetchPayment
  <2>2. /\ job'[h].at = "settle" /\ job'[h].topup = job[h].topup /\ job'[h].event = job[h].event
        /\ job'[h].returned = returned[job[h].topup]
        /\ \A g \in Handler : g # h => job'[g] = job[g]
    BY <1>5, JobAsked
  <2>3. job[h].topup \in Topup /\ returned[job[h].topup] \in Int
    BY <2>1, TopupFields DEF TopupTypeOK
  <2>4. HandlerKnows(h)'
    BY <2>1, <2>2, <2>3 DEF TopupInv, HandlerKnows, EventsAreTrue
  <2> QED  BY <2>1, <2>2, <2>4, QuietTopupStep
<1>6. CASE Settle(h)  BY <1>6, SettleInv
<1>7. CASE RecordEvent(h)
  <2> DEFINE e == job[h].event
  <2>1. UNCHANGED <<order, booked, paid, returned, sent>> /\ job[h].at = "record" /\ Leave(h)
        /\ seen' = seen \cup {e}
    BY <1>7 DEF RecordEvent
  <2>2. order[e.topup].credited /\ order[e.topup].refunded >= e.total
    BY <2>1, TopupFields DEF TopupInv, HandlerKnows
  <2>3. ProcessedRefundIsDebited'
    BY <2>1, <2>2 DEF TopupInv, ProcessedRefundIsDebited
  <2>4. job'[h] = Idle /\ \A g \in Handler : g # h => job'[g] = job[g]
    BY <2>1 DEF Leave, TopupTypeOK
  <2>5. KnowledgeGrows  BY <2>1, TopupFields DEF KnowledgeGrows, TopupTypeOK
  <2>6. \A g \in Handler : HandlerKnows(g)'
    <3> SUFFICES ASSUME NEW g \in Handler PROVE HandlerKnows(g)'
      OBVIOUS
    <3>1. CASE g = h  BY <2>4, <3>1 DEF HandlerKnows, Idle
    <3>2. CASE g # h  BY <2>4, <2>5, <3>2, KnowledgeLasts DEF TopupInv
    <3> QED  BY <3>1, <3>2
  <2>7. CreditsFollowPayments' /\ EventsAreTrue' /\ RefundsFollowCredits'
    BY <2>1 DEF TopupInv, CreditsFollowPayments, EventsAreTrue, RefundsFollowCredits
  <2> QED  BY <2>3, <2>6, <2>7 DEF TopupInv
<1>8. CASE HandlerFails(h)  BY <1>8, LeaveInv DEF HandlerFails
<1> QED
  BY <1>1, <1>2, <1>3, <1>4, <1>5, <1>6, <1>7, <1>8 DEF VerifyStep

LEMMA TopupStepInv ==
  ASSUME TopupTypeOK, TopupTypeOK', TopupInv, TopupNext
  PROVE  TopupInv'
<1>0. Hook \subseteq Handler /\ Check \subseteq Handler  BY TopupFields
<1>1. ASSUME NEW t \in Topup,
             \/ CreateTopup(t) \/ PostQr(t) \/ ReceiveQr(t) \/ LoseQrAnswer(t) \/ SaveQr(t)
             \/ MarkCreationUnknown(t) \/ CreatorDies(t) \/ OpenQr(t) \/ CloseQr(t)
      PROVE  TopupInv'
  BY <1>1, CreatorStepInv
<1>2. ASSUME NEW t \in Topup, Pay(t) \/ \E total \in 1..Amount : Return(t, total) PROVE TopupInv'
  BY <1>2, RazorpayStepInv
<1>3. ASSUME NEW c \in Check, NEW t \in Topup, Verify(c, t) PROVE TopupInv'
  <2>1. c \in Handler /\ Begin(c, t, NoEvent)  BY <1>0, <1>3 DEF Verify
  <2>2. UNCHANGED <<order, booked, paid, returned, sent, seen>>
    BY <1>3 DEF Verify, OnlyHandler, razorpay
  <2> QED  BY <2>1, <2>2, BeginInv
<1>4. ASSUME NEW h \in Hook, NEW e \in Event, Deliver(h, e) PROVE TopupInv'
  <2>1. UNCHANGED <<order, booked, paid, returned, sent, seen>> /\ e \in sent /\ h \in Handler
    BY <1>0, <1>4 DEF Deliver, OnlyHandler, razorpay
  <2>2. CASE Found(e) /\ Begin(h, e.topup, e)
    <3>1. e.topup \in Topup  BY TopupFields
    <3> QED  BY <2>1, <2>2, <3>1, BeginInv
  <2>3. CASE UNCHANGED job
    <3>1. \A t \in Topup : /\ order'[t].credited = order[t].credited
                           /\ order'[t].refunded = order[t].refunded
      BY <2>1
    <3> QED  BY <2>1, <2>3, <3>1, QuietOrderStep
  <2> QED  BY <1>4, <2>2, <2>3 DEF Deliver
<1>5. ASSUME NEW h \in Handler, VerifyStep(h) \/ ListTooEarly(h) \/ HandlerFails(h)
      PROVE  TopupInv'
  BY <1>5, HandlerStepInv
<1> QED  BY <1>1, <1>2, <1>3, <1>4, <1>5 DEF TopupNext

\* The invariant holds of the wallet's top-ups whatever the plans do.
THEOREM TopupInvariance == Spec => []TopupInv
<1>1. Init => TopupInv
  BY DEF Init, TopupInit, TopupInv, CreditsFollowPayments, ProcessedRefundIsDebited,
         EventsAreTrue, RefundsFollowCredits, HandlerKnows, Idle
<1>2. TypeOK /\ TypeOK' /\ TopupInv /\ [Next]_vars => TopupInv'
  <2> SUFFICES ASSUME TypeOK, TypeOK', TopupInv, [Next]_vars PROVE TopupInv'
    OBVIOUS
  <2>1. CASE TopupNext  BY <2>1, TopupStepInv DEF TypeOK
  <2>2. CASE UNCHANGED topupVars
    BY <2>2 DEF topupVars, razorpay, TopupInv, CreditsFollowPayments, ProcessedRefundIsDebited,
                EventsAreTrue, RefundsFollowCredits, HandlerKnows
  <2> QED  BY <2>1, <2>2 DEF Next, vars
<1> QED  BY <1>1, <1>2, TypeCorrect, PTL DEF Spec

\* The wallet holds what was captured and not known to be returned, for any number of
\* concurrent, repeated, late and failing verifications (CreditTopupService.settle).
THEOREM CreditsAreExact == Spec => []CreditsFollowPayments
BY TopupInvariance, PTL DEF TopupInv

\* A refund that is recorded as processed has been debited (the webhook's order of steps).
THEOREM ProcessedRefunds == Spec => []ProcessedRefundIsDebited
BY TopupInvariance, PTL DEF TopupInv
-----------------------------------------------------------------------------
(***************************************************************************)
(* Plans: the inductive invariant.                                         *)
(***************************************************************************)
\* What has not been asked for does not exist.
NewRequestsAreFresh ==
  /\ \A o \in Purchase : o \in asks => purchase[o].status = "none"
  /\ \A m \in Manual : m \in asks => plan[m].status = "none"

\* A purchase that was not created has no link, no lease and no verification.
UncreatedIsUnknown ==
  /\ \A o \in Purchase : purchase[o].status = "none" =>
       buyer[o] = "off" /\ link[o] = "none" /\ purchase[o].next = Unscheduled
  /\ \A v \in Verifier : verifier[v].at # "idle" =>
       purchase[verifier[v].purchase].status # "none"

\* A plan that was never granted is empty, and a plan that is active was granted.
PlansAreGranted ==
  /\ \A p \in Plan :
       /\ plan[p].status = "none" =>
            plan[p].days = 0 /\ plan[p].extensionFee = NoFee
       /\ plan[p].active => plan[p].status = "COMPLETED"
  /\ \A o \in Purchase : plan[o].status = "COMPLETED" => purchase[o].fulfilled

\* What a verification has seen of a purchase still holds, and one that fulfils it holds
\* its row and is the only one to do so.
VerifierKnows(v) ==
  LET o == verifier[v].purchase IN
    /\ verifier[v].at \in {"capture", "lock", "fulfil"} => purchase[o].status = "paid"
    /\ verifier[v].at \in {"lock", "fulfil"} => captured[o]
    /\ verifier[v].at = "fulfil" => rowLock[o] = v /\ ~purchase[o].fulfilled

\* What requests remember of plans.
RequestsAreOfPlans ==
  /\ \A k \in Edit : suspended[k] # NoPlan => plan[suspended[k]].status # "none"
  /\ \A x \in Extension : extension[x].at # "none" =>
       /\ plan[extension[x].plan].status # "none"
       /\ extension[x].days > 0
       /\ extension[x].at = "quoted" /\ ~extension[x].mayCost => extension[x].price = 0
       /\ extension[x].at = "extended" => plan[extension[x].plan].days > extension[x].seen

PlanInv ==
  /\ ActivePlanIsAssigned
  /\ FulfilledIsPaid
  /\ ChargedAsQuoted
  /\ ExtensionsKeepPolicy
  /\ NewRequestsAreFresh
  /\ UncreatedIsUnknown
  /\ PlansAreGranted
  /\ \A v \in Verifier : VerifierKnows(v)
  /\ RequestsAreOfPlans

\* What is never taken back of a purchase.
ReceiptsLast ==
  \A o \in Purchase :
    /\ purchase[o].status = "paid" => purchase'[o].status = "paid"
    /\ purchase[o].fulfilled => purchase'[o].fulfilled
    /\ captured[o] => captured'[o]

\* A step creates no purchase and leaves those alone that are not created.
CreatedKept ==
  \A q \in Purchase :
    /\ purchase'[q].status = "none" <=> purchase[q].status = "none"
    /\ purchase[q].status = "none" =>
         purchase'[q].next = purchase[q].next /\ buyer'[q] = buyer[q] /\ link'[q] = link[q]

\* A step of v takes no lock from another verification.
LocksKept(v) ==
  \A q \in Purchase : rowLock[q] \in Verifier \ {v} =>
    rowLock'[q] = rowLock[q] /\ purchase'[q].fulfilled = purchase[q].fulfilled

\* What verifications know they keep knowing while another one acts.
LEMMA OthersKnow ==
  ASSUME PlanTypeOK, PlanInv, ReceiptsLast, NEW v, LocksKept(v),
         NEW u \in Verifier, u # v, verifier'[u] = verifier[u]
  PROVE  VerifierKnows(u)'
<1>1. VerifierKnows(u)  BY DEF PlanInv
<1>2. verifier[u].at # "idle" => verifier[u].purchase \in Purchase  BY PlanFields
<1> QED  BY <1>1, <1>2 DEF VerifierKnows, ReceiptsLast, LocksKept

\* The part of the invariant that is about purchases and their verifications.
PurchasesInv ==
  /\ \A o \in Purchase : o \in asks => purchase[o].status = "none"
  /\ UncreatedIsUnknown
  /\ \A v \in Verifier : VerifierKnows(v)

LEMMA PurchasesInvKept ==
  ASSUME PlanTypeOK, PlanTypeOK', PlanInv, NEW v \in Verifier \cup {Free}, asks' \subseteq asks,
         ReceiptsLast, CreatedKept, LocksKept(v),
         \A u \in Verifier : u # v => verifier'[u] = verifier[u],
         v \in Verifier =>
           /\ VerifierKnows(v)'
           /\ verifier'[v].at # "idle" => purchase'[verifier'[v].purchase].status # "none"
  PROVE  PurchasesInv'
<1>1. (\A o \in Purchase : o \in asks => purchase[o].status = "none")'
  BY DEF PlanInv, NewRequestsAreFresh, CreatedKept
<1>2. \A u \in Verifier : VerifierKnows(u)'  BY OthersKnow
<1>3. UncreatedIsUnknown'
  <2>1. \A o \in Purchase : purchase'[o].status = "none" =>
          buyer'[o] = "off" /\ link'[o] = "none" /\ purchase'[o].next = Unscheduled
    BY DEF CreatedKept, PlanInv, UncreatedIsUnknown
  <2>2. ASSUME NEW u \in Verifier, verifier'[u].at # "idle"
        PROVE  purchase'[verifier'[u].purchase].status # "none"
    <3>1. CASE u = v  BY <2>2, <3>1
    <3>2. CASE u # v
      <4>1. verifier'[u] = verifier[u] /\ verifier[u].purchase \in Purchase
        BY <2>2, <3>2, PlanFields
      <4> QED  BY <2>2, <4>1 DEF CreatedKept, PlanInv, UncreatedIsUnknown
    <3> QED  BY <3>1, <3>2
  <2> QED  BY <2>1, <2>2 DEF UncreatedIsUnknown
<1> QED  BY <1>1, <1>2, <1>3 DEF PurchasesInv

\* The part that is about plans, their ledger and the requests that remember them.
PlansInv ==
  /\ ActivePlanIsAssigned
  /\ FulfilledIsPaid
  /\ ChargedAsQuoted
  /\ ExtensionsKeepPolicy
  /\ \A m \in Manual : m \in asks => plan[m].status = "none"
  /\ PlansAreGranted
  /\ RequestsAreOfPlans

LEMMA PlanInvParts == PlanInv <=> PurchasesInv /\ PlansInv
BY DEF PlanInv, PurchasesInv, PlansInv, NewRequestsAreFresh

LEMMA PlanInvPartsNext == PlanInv' <=> PurchasesInv' /\ PlansInv'
BY DEF PlanInv, PurchasesInv, PlansInv, NewRequestsAreFresh

\* While plans, their ledger and those requests are left alone and nothing is fulfilled.
LEMMA PlansInvKept ==
  ASSUME PlanTypeOK, PlanInv, ReceiptsLast, asks' \subseteq asks,
         UNCHANGED <<plan, assigned, charged, extension, suspended>>,
         \A q \in Purchase : purchase'[q].fulfilled = purchase[q].fulfilled
  PROVE  PlansInv'
<1>1. PlansInv  BY PlanInvParts
<1>2. ActivePlanIsAssigned' /\ ExtensionsKeepPolicy' /\ RequestsAreOfPlans'
  BY <1>1 DEF PlansInv, ActivePlanIsAssigned, ExtensionsKeepPolicy, RequestsAreOfPlans
<1>3. FulfilledIsPaid'  BY <1>1 DEF PlansInv, FulfilledIsPaid, ReceiptsLast
<1>4. ChargedAsQuoted'  BY <1>1 DEF PlansInv, ChargedAsQuoted, HasBegun
<1>5. PlansAreGranted'  BY <1>1 DEF PlansInv, PlansAreGranted
<1>6. (\A m \in Manual : m \in asks => plan[m].status = "none")'  BY <1>1 DEF PlansInv
<1> QED  BY <1>2, <1>3, <1>4, <1>5, <1>6 DEF PlansInv

\* While purchases, links and verifications are left alone.
LEMMA PurchasesUntouched ==
  ASSUME PlanTypeOK, PlanInv, asks' \subseteq asks,
         UNCHANGED <<purchase, rowLock, buyer, links, verifier>>
  PROVE  PurchasesInv' /\ ReceiptsLast
<1>1. PurchasesInv  BY PlanInvParts
<1>2. ReceiptsLast  BY DEF ReceiptsLast, links
<1>3. UncreatedIsUnknown'  BY <1>1 DEF PurchasesInv, UncreatedIsUnknown, links
<1>4. \A v \in Verifier : VerifierKnows(v)'  BY <1>1 DEF PurchasesInv, VerifierKnows, links
<1> QED  BY <1>1, <1>2, <1>3, <1>4 DEF PurchasesInv

\* A step that leaves plans, ledger and fulfilment alone and touches one created purchase.
LEMMA QuietRow ==
  ASSUME PlanTypeOK, PlanTypeOK', PlanInv, asks' \subseteq asks,
         NEW o \in Purchase, purchase[o].status # "none", purchase'[o].status # "none",
         purchase[o].status = "paid" => purchase'[o].status = "paid",
         purchase'[o].fulfilled = purchase[o].fulfilled,
         \A q \in Purchase : q # o =>
           purchase'[q] = purchase[q] /\ buyer'[q] = buyer[q] /\ link'[q] = link[q],
         \A q \in Purchase : captured[q] => captured'[q],
         NEW v \in Verifier \cup {Free},
         \A q \in Purchase : rowLock[q] \in Verifier \ {v} => rowLock'[q] = rowLock[q],
         \A u \in Verifier : u # v => verifier'[u] = verifier[u],
         v \in Verifier =>
           /\ VerifierKnows(v)'
           /\ verifier'[v].at # "idle" => purchase'[verifier'[v].purchase].status # "none",
         UNCHANGED <<plan, assigned, charged, extension, suspended>>
  PROVE  PlanInv' /\ ReceiptsLast
<1>1. ReceiptsLast  BY DEF ReceiptsLast
<1>2. CreatedKept  BY DEF CreatedKept
<1>3. \A q \in Purchase : purchase'[q].fulfilled = purchase[q].fulfilled
  OBVIOUS
<1>4. LocksKept(v)  BY <1>3 DEF LocksKept
<1>5. PurchasesInv'  BY <1>1, <1>2, <1>4, PurchasesInvKept
<1>6. PlansInv'  BY <1>1, <1>3, PlansInvKept
<1> QED  BY <1>1, <1>5, <1>6, PlanInvPartsNext

\* The requests of clients only become fewer.
LEMMA AsksShrink ==
  /\ \A r : Ask(r) => asks' \subseteq asks
  /\ NoFault => asks' \subseteq asks
  /\ Fault => asks' \subseteq asks
BY DEF Ask, NoFault, Fault, bounds

\* The request that creates a purchase after the reservation, Razorpay and the webhook:
\* the late answer keeps a payment that was recorded (SaveLink, MarkLinkUnknown).
LEMMA BuyerStepInv ==
  ASSUME PlanTypeOK, PlanTypeOK', PlanInv, NEW o \in Purchase,
         \/ PostLink(o) \/ ReceiveLink(o) \/ LoseLinkAnswer(o)
         \/ SaveLink(o) \/ MarkLinkUnknown(o) \/ BuyerDies(o)
         \/ OpenLink(o) \/ CloseLink(o) \/ PayLink(o) \/ CapturePayment(o) \/ WakeUp(o)
  PROVE  PlanInv' /\ ReceiptsLast
<1> USE DEF requests, links
<1>1. /\ purchase \in [Purchase -> PurchaseState] /\ purchase[o] \in PurchaseState
      /\ buyer[o] # "off" \/ link[o] # "none" => purchase[o].status # "none"
      /\ Free \notin Verifier
  BY PlanAssumption DEF PlanTypeOK, PlanInv, UncreatedIsUnknown
<1>2. asks' \subseteq asks
  BY AsksShrink DEF PostLink, ReceiveLink, LoseLinkAnswer, SaveLink, MarkLinkUnknown, BuyerDies,
                    OpenLink, CloseLink, PayLink, CapturePayment, WakeUp, OnlyLink
<1>3. /\ UNCHANGED <<plan, assigned, charged, extension, suspended, rowLock, verifier>>
      /\ purchase[o].status # "none"
      /\ \A q \in Purchase : captured[q] => captured'[q]
      /\ \A q \in Purchase : q # o => buyer'[q] = buyer[q] /\ link'[q] = link[q]
  <2>1. CASE PostLink(o) \/ ReceiveLink(o) \/ LoseLinkAnswer(o) \/ BuyerDies(o)
    BY <1>1, <2>1 DEF PostLink, ReceiveLink, LoseLinkAnswer, BuyerDies, OnlyBuyer, PlanTypeOK
  <2>2. CASE SaveLink(o) \/ MarkLinkUnknown(o)
    BY <1>1, <2>2 DEF SaveLink, MarkLinkUnknown, OnlyBuyer, PlanTypeOK
  <2>3. CASE OpenLink(o) \/ CloseLink(o) \/ PayLink(o) \/ CapturePayment(o) \/ WakeUp(o)
    BY <1>1, <2>3 DEF OpenLink, CloseLink, PayLink, CapturePayment, WakeUp, OnlyLink, PlanTypeOK
  <2> QED  BY <2>1, <2>2, <2>3
<1>4. /\ purchase'[o].status # "none"
      /\ purchase[o].status = "paid" => purchase'[o].status = "paid"
      /\ purchase'[o].fulfilled = purchase[o].fulfilled
      /\ \A q \in Purchase : q # o => purchase'[q] = purchase[q]
  <2>1. CASE UNCHANGED purchase  BY <1>3, <2>1
  <2>2. CASE SaveLink(o)
    <3> DEFINE l == IF purchase[o].linkStatus = "none" THEN "open" ELSE purchase[o].linkStatus
               n == [purchase[o] EXCEPT !.link = TRUE, !.status = KeptStatus(o), !.linkStatus = l]
    <3>1. purchase' = [purchase EXCEPT ![o] = n]  BY <1>1, <2>2 DEF SaveLink
    <3>2. n.status = KeptStatus(o) /\ n.fulfilled = purchase[o].fulfilled
      BY <1>1 DEF PurchaseState
    <3> HIDE DEF n
    <3> QED  BY <1>1, <3>1, <3>2 DEF KeptStatus
  <2>3. CASE MarkLinkUnknown(o) /\ purchase[o].status = "creating"
    <3> DEFINE n == [purchase[o] EXCEPT !.status = "creation_unknown"]
    <3>1. purchase' = [purchase EXCEPT ![o] = n]  BY <1>1, <2>3 DEF MarkLinkUnknown
    <3>2. n.status = "creation_unknown" /\ n.fulfilled = purchase[o].fulfilled
      BY <1>1 DEF PurchaseState
    <3> HIDE DEF n
    <3> QED  BY <1>1, <2>3, <3>1, <3>2
  <2>4. CASE WakeUp(o)
    <3> DEFINE n == [purchase[o] EXCEPT !.next = Due]
    <3>1. purchase' = [purchase EXCEPT ![o] = n]  BY <1>1, <2>4 DEF WakeUp
    <3>2. n.status = purchase[o].status /\ n.fulfilled = purchase[o].fulfilled
      BY <1>1 DEF PurchaseState
    <3> HIDE DEF n
    <3> QED  BY <1>1, <1>3, <3>1, <3>2
  <2> QED
    BY <2>1, <2>2, <2>3, <2>4 DEF PostLink, ReceiveLink, LoseLinkAnswer, MarkLinkUnknown,
       BuyerDies, OpenLink, CloseLink, PayLink, CapturePayment
<1> QED  BY <1>1, <1>2, <1>3, <1>4, QuietRow

\* Where a purchase's row is rescheduled, or left, nothing it says of the payment changes.
LEMMA RowRescheduled ==
  ASSUME PlanTypeOK, PlanInv, NEW o \in Purchase, purchase[o].status # "none",
         UNCHANGED purchase \/ TryAgain(o)
           \/ \E n : purchase' = [purchase EXCEPT ![o] = [purchase[o] EXCEPT !.next = n]]
  PROVE  /\ purchase'[o].status = purchase[o].status
         /\ purchase'[o].fulfilled = purchase[o].fulfilled
         /\ \A q \in Purchase : q # o => purchase'[q] = purchase[q]
<1>1. purchase \in [Purchase -> PurchaseState] /\ purchase[o] \in PurchaseState
  BY DEF PlanTypeOK
<1>2. UNCHANGED purchase \/ \E n : purchase' = [purchase EXCEPT ![o] = [purchase[o] EXCEPT !.next = n]]
  BY <1>1 DEF TryAgain
<1>3. ASSUME NEW n, purchase' = [purchase EXCEPT ![o] = [purchase[o] EXCEPT !.next = n]]
      PROVE  /\ purchase'[o].status = purchase[o].status
             /\ purchase'[o].fulfilled = purchase[o].fulfilled
             /\ \A q \in Purchase : q # o => purchase'[q] = purchase[q]
  BY <1>1, <1>3 DEF PurchaseState
<1> QED  BY <1>2, <1>3

\* The steps of a verification but its activation: what it has seen of the payment still
\* holds whoever acts in between, as nothing takes a receipt or a capture back.
LEMMA VerifierStepInv ==
  ASSUME PlanTypeOK, PlanTypeOK', PlanInv, NEW v \in Verifier,
         \/ FetchLink(v) \/ RecordReceipt(v) \/ CheckCapture(v) \/ LockPurchase(v)
         \/ RefuseActivation(v) \/ ScheduleRetry(v) \/ Release(v)
         \/ VerifierFails(v) \/ VerifierDies(v)
  PROVE  PlanInv' /\ ReceiptsLast
<1> DEFINE o == verifier[v].purchase
<1> USE DEF requests, links, OnlyVerifier
<1>1. /\ purchase \in [Purchase -> PurchaseState]
      /\ rowLock \in [Purchase -> Verifier \cup {Free}] /\ Free \notin Verifier
      /\ verifier[v].at # "idle" /\ o \in Purchase /\ purchase[o].status # "none"
      /\ purchase[o] \in PurchaseState /\ VerifierKnows(v)
  <2>1. verifier[v].at # "idle"
    BY DEF FetchLink, RecordReceipt, CheckCapture, LockPurchase, RefuseActivation,
           ScheduleRetry, Release, VerifierFails, VerifierDies
  <2> QED  BY <2>1, PlanAssumption DEF PlanTypeOK, PlanInv, UncreatedIsUnknown
<1>2. /\ asks' \subseteq asks
      /\ UNCHANGED <<plan, assigned, charged, extension, suspended, buyer, link, captured>>
  BY AsksShrink DEF FetchLink, RecordReceipt, CheckCapture, LockPurchase, RefuseActivation,
                    ScheduleRetry, Release, VerifierFails, VerifierDies
<1> HIDE DEF o
\* what is left to show of each step
<1> DEFINE RowKept == /\ purchase'[o].status = "paid" \/ purchase'[o].status = purchase[o].status
                                                      \/ purchase[o].status # "paid"
                      /\ purchase'[o].status # "none"
                      /\ purchase'[o].fulfilled = purchase[o].fulfilled
                      /\ \A q \in Purchase : q # o => purchase'[q] = purchase[q]
           Knows == /\ \A u \in Verifier : u # v => verifier'[u] = verifier[u]
                    /\ verifier'[v].at # "idle" => verifier'[v].purchase = o
                    /\ VerifierKnows(v)'
           LocksLeft == \A q \in Purchase : rowLock[q] \in Verifier \ {v} => rowLock'[q] = rowLock[q]
<1>3. RowKept /\ Knows /\ LocksLeft => PlanInv' /\ ReceiptsLast
  BY <1>1, <1>2, QuietRow
<1>4. UNCHANGED purchase \/ TryAgain(o)
        \/ (\E n : purchase' = [purchase EXCEPT ![o] = [purchase[o] EXCEPT !.next = n]])
      => RowKept
  BY <1>1, RowRescheduled
<1>5. \A p \in VerifierPlace \ {"capture", "lock", "fulfil"} : StepsTo(v, p) => Knows
  BY DEF StepsTo, VerifierKnows, o
<1>6. Answered(v) => Knows
  <2> SUFFICES ASSUME Answered(v) PROVE Knows
    OBVIOUS
  <2>1. \E p \in {"idle", "release"} : StepsTo(v, p)  BY <1>1, VerifierAnswered
  <2> QED  BY <1>5, <2>1 DEF VerifierPlace
<1>7. \A p \in VerifierPlace : Moved(v, p) => StepsTo(v, p)
  BY <1>1, VerifierMoved
<1>8. UNCHANGED rowLock \/ rowLock' = Unlocked(v) => LocksLeft
  BY <1>1 DEF Unlocked
<1>9. CASE FetchLink(v)
  <2>1. UNCHANGED <<purchase, rowLock>>  BY <1>9 DEF FetchLink
  <2>2. link[o] \in LinkStatus \/ link[o] = "requested"
    BY <1>1 DEF PlanTypeOK, LinkStatus
  <2>3. Answered(v) \/ (link[o] \in LinkStatus
                        /\ verifier' = [verifier EXCEPT ![v].at = "receipt", ![v].link = link[o]])
    BY <1>9, <2>2 DEF FetchLink, o
  <2>4. Answered(v) \/ StepsTo(v, "receipt")
    BY <1>1, <2>3, VerifierMoved DEF VerifierPlace
  <2>5. Knows  BY <1>5, <1>6, <2>4 DEF VerifierPlace
  <2> QED  BY <1>3, <1>4, <1>8, <2>1, <2>5
<1>10. CASE RecordReceipt(v)
  <2> DEFINE l == verifier[v].link
             st == IF l = "paid" THEN "paid" ELSE "pending"
             nx == IF l = "cancelled" THEN Unscheduled ELSE Due
             n == [purchase[o] EXCEPT !.link = TRUE, !.linkStatus = l, !.status = st, !.next = nx]
  <2>1. n.status = st /\ n.fulfilled = purchase[o].fulfilled
    BY <1>1 DEF PurchaseState
  <2>2. /\ purchase[o].status = "paid" => purchase' = purchase
        /\ purchase[o].status # "paid" => purchase' = [purchase EXCEPT ![o] = n]
    BY <1>1, <1>10 DEF RecordReceipt, o
  <2> HIDE DEF n
  <2>3. /\ purchase'[o].status = "paid" \/ (l # "paid" /\ purchase'[o].status = "pending")
        /\ purchase'[o].fulfilled = purchase[o].fulfilled
        /\ \A q \in Purchase : q # o => purchase'[q] = purchase[q]
        /\ purchase[o].status = "paid" => purchase'[o].status = "paid"
    BY <1>1, <2>1, <2>2
  <2>4. RowKept  BY <1>1, <2>3
  <2>5. CASE l = "paid"
    <3>1. Moved(v, "capture")  BY <1>10, <2>5 DEF RecordReceipt
    <3>2. StepsTo(v, "capture")  BY <1>7, <3>1 DEF VerifierPlace
    <3>3. Knows  BY <2>3, <2>5, <3>2 DEF StepsTo, VerifierKnows, o
    <3> QED  BY <1>3, <1>8, <1>10, <2>4, <3>3 DEF RecordReceipt
  <2>6. CASE l # "paid"
    <3>1. Knows  BY <1>6, <1>10, <2>6 DEF RecordReceipt
    <3> QED  BY <1>3, <1>8, <1>10, <2>4, <3>1 DEF RecordReceipt
  <2> QED  BY <2>5, <2>6
<1>11. CASE CheckCapture(v)
  <2>1. verifier[v].at = "capture" /\ UNCHANGED rowLock  BY <1>11 DEF CheckCapture
  <2>2. CASE captured[o] /\ Moved(v, "lock") /\ UNCHANGED purchase
    <3>1. StepsTo(v, "lock")  BY <1>7, <2>2 DEF VerifierPlace
    <3>2. Knows  BY <1>1, <1>2, <2>1, <2>2, <3>1 DEF StepsTo, VerifierKnows, o
    <3> QED  BY <1>3, <1>4, <1>8, <2>1, <2>2, <3>2
  <2>3. CASE TryAgain(o) /\ Answered(v)
    BY <1>3, <1>4, <1>6, <1>8, <2>1, <2>3
  <2> QED  BY <1>11, <2>2, <2>3 DEF CheckCapture, HasCaptured, o
<1>12. CASE LockPurchase(v)
  <2>1. verifier[v].at = "lock" /\ rowLock[o] = Free  BY <1>12 DEF LockPurchase, o
  <2>2. CASE purchase[o].fulfilled
    <3>1. /\ purchase' = [purchase EXCEPT ![o] = [purchase[o] EXCEPT !.next = Unscheduled]]
          /\ Answered(v) /\ UNCHANGED rowLock
      BY <1>1, <1>12, <2>2 DEF LockPurchase, o
    <3> QED  BY <1>3, <1>4, <1>6, <1>8, <3>1
  <2>3. CASE ~purchase[o].fulfilled
    <3> DEFINE b == (plan[o].status = "pending" /\ ~plan[o].active)
    <3>1. /\ verifier' = [verifier EXCEPT ![v].at = "fulfil", ![v].pending = b]
          /\ rowLock' = [rowLock EXCEPT ![o] = v] /\ UNCHANGED purchase
      BY <1>12, <2>3 DEF LockPurchase, o
    <3>2. b \in BOOLEAN  OBVIOUS
    <3> HIDE DEF b
    <3>3. StepsTo(v, "fulfil")  BY <1>1, <3>1, <3>2, VerifierMoved DEF VerifierPlace
    <3>4. rowLock'[o] = v /\ LocksLeft  BY <1>1, <2>1, <3>1
    <3>5. Knows  BY <1>1, <1>2, <2>1, <2>3, <3>1, <3>3, <3>4 DEF StepsTo, VerifierKnows, o
    <3> QED  BY <1>3, <1>4, <3>1, <3>4, <3>5
  <2> QED  BY <2>2, <2>3
<1>13. CASE RefuseActivation(v)
  <2>1. /\ verifier[v].at = "fulfil" /\ Moved(v, "retry") /\ UNCHANGED purchase
        /\ rowLock' = [rowLock EXCEPT ![o] = Free]
    BY <1>13 DEF RefuseActivation, o
  <2>2. rowLock[o] = v  BY <1>1, <2>1 DEF VerifierKnows, o
  <2>3. LocksLeft  BY <1>1, <2>1, <2>2
  <2>4. Knows  BY <1>5, <1>7, <2>1 DEF VerifierPlace
  <2> QED  BY <1>3, <1>4, <2>1, <2>3, <2>4
<1>14. CASE ScheduleRetry(v)
  BY <1>3, <1>4, <1>6, <1>8, <1>14 DEF ScheduleRetry, o
<1>15. CASE Release(v)
  <2>1. verifier' = [verifier EXCEPT ![v] = Resting] /\ UNCHANGED rowLock
    BY <1>15 DEF Release
  <2>2. StepsTo(v, "idle")  BY <1>1, <2>1, VerifierBegins DEF VerifierPlace
  <2>3. Knows  BY <1>5, <2>2 DEF VerifierPlace
  <2> DEFINE nx == IF purchase[o].fulfilled \/ purchase[o].linkStatus = "cancelled"
                     THEN Unscheduled ELSE Due
  <2>4. UNCHANGED purchase \/ purchase' = [purchase EXCEPT ![o] = [purchase[o] EXCEPT !.next = nx]]
    BY <1>1, <1>15 DEF Release, o
  <2> HIDE DEF nx
  <2> QED  BY <1>3, <1>4, <1>8, <2>1, <2>3, <2>4
<1>16. CASE VerifierFails(v)
  <2>1. UNCHANGED purchase /\ rowLock' = Unlocked(v)  BY <1>16 DEF VerifierFails
  <2>2. Knows
    <3>1. Answered(v) \/ Moved(v, "retry")  BY <1>16 DEF VerifierFails
    <3> QED  BY <1>5, <1>6, <1>7, <3>1 DEF VerifierPlace
  <2> QED  BY <1>3, <1>4, <1>8, <2>1, <2>2
<1>17. CASE VerifierDies(v)
  <2>1. /\ verifier' = [verifier EXCEPT ![v] = Resting]
        /\ UNCHANGED purchase /\ rowLock' = Unlocked(v)
    BY <1>17 DEF VerifierDies
  <2>2. StepsTo(v, "idle")  BY <1>1, <2>1, VerifierBegins DEF VerifierPlace
  <2>3. Knows  BY <1>5, <2>2 DEF VerifierPlace
  <2> QED  BY <1>3, <1>4, <1>8, <2>1, <2>3
<1> QED
  BY <1>9, <1>10, <1>11, <1>12, <1>13, <1>14, <1>15, <1>16, <1>17

\* A verification begins with what anybody may know of a purchase that was created.
LEMMA VerificationBegins ==
  ASSUME PlanTypeOK, PlanTypeOK', PlanInv, NEW o \in Purchase, NEW v \in Verifier,
         StartVerify(v, o) \/ (v \in Sweeper /\ Claim(v, o))
  PROVE  PlanInv' /\ ReceiptsLast
<1> USE DEF requests, links, OnlyVerifier
<1>1. /\ asks' \subseteq asks
      /\ UNCHANGED <<plan, assigned, charged, extension, suspended, buyer, link, captured, rowLock>>
  BY AsksShrink DEF StartVerify, Claim
<1>2. purchase[o].status # "none" /\ purchase[o] \in PurchaseState
  BY DEF StartVerify, Claim, Claimable, PlanInv, UncreatedIsUnknown, PlanTypeOK
<1>3. UNCHANGED purchase
        \/ \E n : purchase' = [purchase EXCEPT ![o] = [purchase[o] EXCEPT !.next = n]]
  BY DEF StartVerify, Claim, PlanTypeOK
<1>4. PICK p \in {"fetch", "release"} :
        verifier' \in { [verifier EXCEPT ![v] = [Resting EXCEPT !.at = p, !.purchase = o]],
                        [verifier EXCEPT ![v] = [Resting EXCEPT !.purchase = o, !.at = p]] }
  <2>1. CASE StartVerify(v, o)  BY <2>1 DEF StartVerify
  <2>2. CASE Claim(v, o)
    <3>1. verifier' = [verifier EXCEPT ![v] = [Resting EXCEPT !.purchase = o,
                         !.at = IF Completed(o) THEN "release" ELSE "fetch"]]
      BY <2>2 DEF Claim
    <3> QED  BY <3>1
  <2> QED  BY <2>1, <2>2
<1>5. /\ verifier'[v].at = p /\ verifier'[v].purchase = o
      /\ \A u \in Verifier : u # v => verifier'[u] = verifier[u]
  BY <1>4, VerifierBegins DEF VerifierPlace
<1>6. VerifierKnows(v)'  BY <1>5 DEF VerifierKnows
<1> QED  BY <1>1, <1>2, <1>3, <1>5, <1>6, RowRescheduled, QuietRow

\* The reservation: nothing is debited for a plan that is only pending.
LEMMA CreatePurchaseInv ==
  ASSUME PlanTypeOK, PlanTypeOK', PlanInv, NEW o \in Purchase, CreatePurchase(o)
  PROVE  PlanInv' /\ ReceiptsLast
<1> USE DEF requests, links
<1> DEFINE p == [plan[o] EXCEPT !.status = "pending", !.fee = fee]
           n == [purchase[o] EXCEPT !.status = "creating", !.next = Due]
<1>1. /\ plan \in [Plan -> PlanState] /\ purchase \in [Purchase -> PurchaseState]
      /\ plan[o] \in PlanState /\ purchase[o] \in PurchaseState
      /\ o \in Plan /\ o \notin Manual
  BY PlanAssumption DEF PlanTypeOK, Plan
<1>2. /\ plan' = [plan EXCEPT ![o] = p] /\ purchase' = [purchase EXCEPT ![o] = n]
      /\ buyer' = [buyer EXCEPT ![o] = "post"]
  BY <1>1 DEF CreatePurchase
<1>3. /\ p.status = "pending" /\ p.active = plan[o].active /\ p.days = plan[o].days
      /\ p.extensionFee = plan[o].extensionFee
      /\ n.status = "creating" /\ n.fulfilled = purchase[o].fulfilled
  BY <1>1 DEF PlanState, PurchaseState
<1>4. o \in asks /\ asks' = asks \ {o}
      /\ UNCHANGED <<assigned, charged, rowLock, link, captured, verifier, extension, suspended>>
  BY DEF CreatePurchase, Ask
<1> HIDE DEF p, n
<1>5. PurchasesInv /\ PlansInv  BY PlanInvParts
<1>6. purchase[o].status = "none" /\ ~purchase[o].fulfilled /\ ~plan[o].active
  BY <1>4, <1>5 DEF PurchasesInv, PlansInv, FulfilledIsPaid
<1>7. /\ plan'[o].status = "pending" /\ ~plan'[o].active /\ plan'[o].days = plan[o].days
      /\ plan'[o].extensionFee = plan[o].extensionFee
      /\ purchase'[o].status = "creating" /\ ~purchase'[o].fulfilled
      /\ \A q \in Plan : q # o => plan'[q] = plan[q]
      /\ \A q \in Purchase : q # o => purchase'[q] = purchase[q] /\ buyer'[q] = buyer[q]
  BY <1>1, <1>2, <1>3, <1>6 DEF PlanTypeOK
<1>8. /\ \A q \in Plan : plan'[q].active = plan[q].active /\ plan'[q].days = plan[q].days
                         /\ plan'[q].extensionFee = plan[q].extensionFee
      /\ \A q \in Purchase : purchase'[q].fulfilled = purchase[q].fulfilled
  <2>1. plan'[o].active = plan[o].active /\ purchase'[o].fulfilled = purchase[o].fulfilled
    BY <1>1, <1>2, <1>3
  <2> QED  BY <1>7, <2>1
<1>9. ReceiptsLast
  <2>1. ASSUME NEW q \in Purchase, purchase[q].status = "paid" PROVE purchase'[q].status = "paid"
    <3>1. q # o  BY <1>6, <2>1
    <3> QED  BY <1>7, <2>1, <3>1
  <2> QED  BY <1>4, <1>8, <2>1 DEF ReceiptsLast
<1>10. PurchasesInv'
  <2>1. \A q \in Purchase : q \in asks' => purchase'[q].status = "none"
    BY <1>4, <1>5, <1>7 DEF PurchasesInv
  <2>2. UncreatedIsUnknown'
    <3>1. \A q \in Purchase : purchase'[q].status = "none" =>
            buyer'[q] = "off" /\ link'[q] = "none" /\ purchase'[q].next = Unscheduled
      BY <1>4, <1>5, <1>7 DEF PurchasesInv, UncreatedIsUnknown
    <3>2. \A u \in Verifier : verifier'[u].at # "idle" =>
            purchase'[verifier'[u].purchase].status # "none"
      BY <1>4, <1>5, <1>7, PlanFields DEF PurchasesInv, UncreatedIsUnknown
    <3> QED  BY <3>1, <3>2 DEF UncreatedIsUnknown
  <2>3. ASSUME NEW u \in Verifier PROVE VerifierKnows(u)'
    <3>1. VerifierKnows(u) /\ (verifier[u].at # "idle" => verifier[u].purchase \in Purchase)
      BY <1>5, PlanFields DEF PurchasesInv
    <3> QED  BY <1>4, <1>8, <1>9, <3>1 DEF VerifierKnows, ReceiptsLast
  <2> QED  BY <2>1, <2>2, <2>3 DEF PurchasesInv
<1>11. PlansInv'
  <2>1. ActivePlanIsAssigned' /\ FulfilledIsPaid'
    <3>1. ActivePlanIsAssigned'  BY <1>4, <1>5, <1>8 DEF PlansInv, ActivePlanIsAssigned
    <3>2. \A q \in Purchase : q \in Plan  BY DEF Plan
    <3>3. FulfilledIsPaid'
      BY <1>4, <1>5, <1>8, <1>9, <3>2 DEF PlansInv, FulfilledIsPaid, ReceiptsLast
    <3> QED  BY <3>1, <3>3
  <2>2. ChargedAsQuoted'
    <3> SUFFICES ASSUME NEW q \in Plan
                 PROVE  charged[q] = (IF HasBegun(q)' THEN plan'[q].fee ELSE 0)
                          + (IF plan'[q].extensionFee = NoFee THEN 0 ELSE plan'[q].extensionFee)
      BY <1>4 DEF ChargedAsQuoted
    <3>1. charged[q] = (IF HasBegun(q) THEN plan[q].fee ELSE 0)
                        + (IF plan[q].extensionFee = NoFee THEN 0 ELSE plan[q].extensionFee)
      BY <1>5 DEF PlansInv, ChargedAsQuoted
    <3>2. CASE q = o  BY <1>6, <1>7, <1>8, <3>1, <3>2 DEF HasBegun
    <3>3. CASE q # o  BY <1>7, <1>8, <3>1, <3>3 DEF HasBegun
    <3> QED  BY <3>2, <3>3
  <2>3. ExtensionsKeepPolicy'  BY <1>4, <1>5, <1>8 DEF PlansInv, ExtensionsKeepPolicy
  <2>4. \A m \in Manual : m \in asks' => plan'[m].status = "none"
    BY <1>1, <1>4, <1>5, <1>7 DEF PlansInv, Plan
  <2>5. PlansAreGranted'
    <3>1. \A q \in Plan : plan'[q].status = "none" => plan'[q].days = 0 /\ plan'[q].extensionFee = NoFee
      BY <1>5, <1>7 DEF PlansInv, PlansAreGranted
    <3>2. \A q \in Plan : plan'[q].active => plan'[q].status = "COMPLETED"
      BY <1>5, <1>7 DEF PlansInv, PlansAreGranted
    <3>3. \A q \in Purchase : plan'[q].status = "COMPLETED" => purchase'[q].fulfilled
      BY <1>5, <1>7 DEF PlansInv, PlansAreGranted, Plan
    <3> QED  BY <3>1, <3>2, <3>3 DEF PlansAreGranted
  <2>6. RequestsAreOfPlans'
    <3>1. \A q \in Plan : plan[q].status # "none" => plan'[q].status # "none"
      BY <1>7
    <3>2. \A k \in Edit : suspended[k] # NoPlan => suspended[k] \in Plan
      BY DEF PlanTypeOK
    <3>3. \A x \in Extension : extension[x].at # "none" => extension[x].plan \in Plan
      BY DEF PlanTypeOK
    <3>4. \A k \in Edit : suspended'[k] # NoPlan => plan'[suspended'[k]].status # "none"
      BY <1>4, <1>5, <3>1, <3>2 DEF PlansInv, RequestsAreOfPlans
    <3>5. \A x \in Extension : extension'[x].at # "none" =>
            /\ plan'[extension'[x].plan].status # "none"
            /\ extension'[x].days > 0
            /\ extension'[x].at = "quoted" /\ ~extension'[x].mayCost => extension'[x].price = 0
            /\ extension'[x].at = "extended" => plan'[extension'[x].plan].days > extension'[x].seen
      BY <1>4, <1>5, <1>8, <3>1, <3>3 DEF PlansInv, RequestsAreOfPlans
    <3> QED  BY <3>4, <3>5 DEF RequestsAreOfPlans
  <2> QED  BY <2>1, <2>2, <2>3, <2>4, <2>5, <2>6 DEF PlansInv
<1> QED  BY <1>9, <1>10, <1>11, PlanInvPartsNext

\* Steps of administrators and clients that leave purchases and ledger alone: a plan may
\* end or be resumed, but none is granted, and one that is active is the assigned one.
LEMMA StandingChanged ==
  ASSUME PlanTypeOK, PlanTypeOK', PlanInv, asks' \subseteq asks,
         UNCHANGED <<charged, purchase, rowLock, buyer, links, verifier>>,
         \A q \in Plan :
           /\ plan'[q].fee = plan[q].fee /\ plan'[q].days = plan[q].days
           /\ plan'[q].extensionFee = plan[q].extensionFee
           /\ plan'[q].status = "none" <=> plan[q].status = "none"
           /\ plan'[q].active => plan'[q].status = "COMPLETED" /\ assigned' = q
           /\ plan'[q].status = "COMPLETED" => plan[q].status = "COMPLETED",
         ExtensionsKeepPolicy', RequestsAreOfPlans'
  PROVE  PlanInv' /\ ReceiptsLast
<1> USE DEF links
<1>1. PurchasesInv' /\ ReceiptsLast  BY PurchasesUntouched
<1>2. PlansInv  BY PlanInvParts
<1>3. ActivePlanIsAssigned'  BY DEF ActivePlanIsAssigned
<1>4. PlansAreGranted'  BY <1>2, PlanFields DEF PlansInv, PlansAreGranted
<1>5. FulfilledIsPaid'
  BY <1>2, <1>4, PlanFields DEF PlansInv, FulfilledIsPaid, PlansAreGranted
<1>6. ChargedAsQuoted'
  <2>1. \A q \in Plan : HasBegun(q)' = HasBegun(q)
    BY PlanFields DEF HasBegun, Plan
  <2> QED  BY <1>2, <2>1 DEF PlansInv, ChargedAsQuoted
<1>7. \A m \in Manual : m \in asks' => plan'[m].status = "none"
  BY <1>2, PlanFields DEF PlansInv
<1>8. PlansInv'  BY <1>3, <1>4, <1>5, <1>6, <1>7 DEF PlansInv
<1> QED  BY <1>1, <1>8, PlanInvPartsNext

\* While plans keep their days and fees and extensions are left alone.
LEMMA ExtensionsKept ==
  ASSUME PlanTypeOK, PlanInv, UNCHANGED extension,
         \A q \in Plan :
           /\ plan'[q].days = plan[q].days /\ plan'[q].extensionFee = plan[q].extensionFee
           /\ plan[q].status # "none" => plan'[q].status # "none",
         \A k \in Edit : suspended'[k] # NoPlan =>
           suspended'[k] \in Plan /\ plan[suspended'[k]].status # "none"
  PROVE  ExtensionsKeepPolicy' /\ RequestsAreOfPlans'
<1>1. ExtensionsKeepPolicy /\ RequestsAreOfPlans
      /\ \A x \in Extension : extension[x].at # "none" => extension[x].plan \in Plan
  BY PlanFields DEF PlanInv
<1>2. ExtensionsKeepPolicy'  BY <1>1 DEF ExtensionsKeepPolicy
<1>3. \A k \in Edit : suspended'[k] # NoPlan => plan'[suspended'[k]].status # "none"
  OBVIOUS
<1>4. \A x \in Extension : extension'[x].at # "none" =>
        /\ plan'[extension'[x].plan].status # "none"
        /\ extension'[x].days > 0
        /\ extension'[x].at = "quoted" /\ ~extension'[x].mayCost => extension'[x].price = 0
        /\ extension'[x].at = "extended" => plan'[extension'[x].plan].days > extension'[x].seen
  BY <1>1 DEF RequestsAreOfPlans
<1> QED  BY <1>2, <1>3, <1>4 DEF RequestsAreOfPlans

\* Cancellation, suspension, resumption and repricing.
LEMMA AdminStepInv ==
  ASSUME PlanTypeOK, PlanTypeOK', PlanInv, NEW k \in Edit,
         \/ \E p \in Plan : CancelPlan(k, p) \/ ChangeStatus(k, p)
         \/ ReadForSuspension(k) \/ SuspendPlan(k) \/ Reprice(k)
  PROVE  PlanInv' /\ ReceiptsLast
<1> USE DEF requests, links, OnlyPlans
<1>1. /\ plan \in [Plan -> PlanState] /\ suspended \in [Edit -> Plan \cup {NoPlan}]
      /\ \A p \in Plan : plan[p] \in PlanState /\ plan[p].active \in BOOLEAN
      /\ \A p \in Plan : plan[p].active => plan[p].status = "COMPLETED" /\ assigned = p
      /\ \A j \in Edit : suspended[j] # NoPlan =>
           suspended[j] \in Plan /\ plan[suspended[j]].status # "none"
  BY PlanFields DEF PlanTypeOK, PlanInv, PlansAreGranted, ActivePlanIsAssigned, RequestsAreOfPlans
<1>2. \A p \in Plan, st \in {"CANCELLED", "EXPIRED"}, a \in BOOLEAN :
        /\ [plan[p] EXCEPT !.status = st, !.active = FALSE].status = st
        /\ ~[plan[p] EXCEPT !.status = st, !.active = FALSE].active
        /\ [plan[p] EXCEPT !.status = st, !.active = FALSE].fee = plan[p].fee
        /\ [plan[p] EXCEPT !.status = st, !.active = FALSE].days = plan[p].days
        /\ [plan[p] EXCEPT !.status = st, !.active = FALSE].extensionFee = plan[p].extensionFee
        /\ [plan[p] EXCEPT !.active = a].status = plan[p].status
        /\ [plan[p] EXCEPT !.active = a].active = a
        /\ [plan[p] EXCEPT !.active = a].fee = plan[p].fee
        /\ [plan[p] EXCEPT !.active = a].days = plan[p].days
        /\ [plan[p] EXCEPT !.active = a].extensionFee = plan[p].extensionFee
  BY <1>1 DEF PlanState
<1>3. ASSUME NEW p \in Plan, NEW n, plan' = [plan EXCEPT ![p] = n],
             n.fee = plan[p].fee, n.days = plan[p].days, n.extensionFee = plan[p].extensionFee,
             n.status = plan[p].status \/ n.status \in {"CANCELLED", "EXPIRED"},
             plan[p].status # "none",
             n.active => n.status = "COMPLETED" /\ assigned' = p,
             \A q \in Plan : q # p /\ plan[q].active => assigned' = q,
             \A j \in Edit : suspended'[j] = suspended[j] \/ suspended'[j] = NoPlan,
             asks' \subseteq asks,
             UNCHANGED <<charged, purchase, rowLock, buyer, links, verifier, extension>>
      PROVE  PlanInv' /\ ReceiptsLast
  <2>1. plan'[p] = n /\ \A q \in Plan : q # p => plan'[q] = plan[q]
    BY <1>1, <1>3
  <2>2. \A q \in Plan :
          /\ plan'[q].fee = plan[q].fee /\ plan'[q].days = plan[q].days
          /\ plan'[q].extensionFee = plan[q].extensionFee
          /\ plan'[q].status = "none" <=> plan[q].status = "none"
          /\ plan'[q].active => plan'[q].status = "COMPLETED" /\ assigned' = q
          /\ plan'[q].status = "COMPLETED" => plan[q].status = "COMPLETED"
    <3> SUFFICES ASSUME NEW q \in Plan
                 PROVE  /\ plan'[q].fee = plan[q].fee /\ plan'[q].days = plan[q].days
                        /\ plan'[q].extensionFee = plan[q].extensionFee
                        /\ plan'[q].status = "none" <=> plan[q].status = "none"
                        /\ plan'[q].active => plan'[q].status = "COMPLETED" /\ assigned' = q
                        /\ plan'[q].status = "COMPLETED" => plan[q].status = "COMPLETED"
      OBVIOUS
    <3>1. CASE q = p  BY <1>3, <2>1, <3>1
    <3>2. CASE q # p  BY <1>1, <1>3, <2>1, <3>2
    <3> QED  BY <3>1, <3>2
  <2>3. \A j \in Edit : suspended'[j] # NoPlan =>
          suspended'[j] \in Plan /\ plan[suspended'[j]].status # "none"
    BY <1>1, <1>3
  <2>4. ExtensionsKeepPolicy' /\ RequestsAreOfPlans'
    BY <1>3, <2>2, <2>3, ExtensionsKept
  <2> QED  BY <1>3, <2>2, <2>4, StandingChanged
<1>4. ASSUME NEW p \in Plan, CancelPlan(k, p) PROVE PlanInv' /\ ReceiptsLast
  <2> DEFINE n == [plan[p] EXCEPT !.status = "CANCELLED", !.active = FALSE]
  <2>1. plan' = [plan EXCEPT ![p] = n]  BY <1>1, <1>4 DEF CancelPlan
  <2>2. n.status = "CANCELLED" /\ ~n.active /\ n.fee = plan[p].fee /\ n.days = plan[p].days
        /\ n.extensionFee = plan[p].extensionFee
    BY <1>2
  <2> HIDE DEF n
  <2> QED  BY <1>1, <1>3, <1>4, <2>1, <2>2, AsksShrink DEF CancelPlan
<1>5. ASSUME NEW p \in Plan, ChangeStatus(k, p) PROVE PlanInv' /\ ReceiptsLast
  <2>1. PICK a \in BOOLEAN :
          /\ plan' = [plan EXCEPT ![p].active = a]
          /\ \/ ~a /\ UNCHANGED assigned
             \/ a /\ MayResume(p) /\ assigned' = p
    BY <1>5 DEF ChangeStatus
  <2> DEFINE n == [plan[p] EXCEPT !.active = a]
  <2>2. plan' = [plan EXCEPT ![p] = n]  BY <1>1, <2>1
  <2>3. n.status = plan[p].status /\ n.active = a /\ n.fee = plan[p].fee /\ n.days = plan[p].days
        /\ n.extensionFee = plan[p].extensionFee
    BY <1>2
  <2> HIDE DEF n
  <2>4. n.active => n.status = "COMPLETED" /\ assigned' = p
    BY <2>1, <2>3 DEF MayResume
  <2>5. \A q \in Plan : q # p /\ plan[q].active => assigned' = q
    BY <1>1, <2>1 DEF MayResume, ActivePlans
  <2> QED  BY <1>1, <1>3, <1>5, <2>2, <2>3, <2>4, <2>5, AsksShrink DEF ChangeStatus
<1>6. CASE SuspendPlan(k)
  <2> DEFINE p == suspended[k]
             n == [plan[p] EXCEPT !.status = "EXPIRED", !.active = FALSE]
  <2>1. p \in Plan /\ plan[p].status # "none"  BY <1>1, <1>6 DEF SuspendPlan
  <2>2. plan' = [plan EXCEPT ![p] = n]  BY <1>1, <1>6, <2>1 DEF SuspendPlan
  <2>3. n.status = "EXPIRED" /\ ~n.active /\ n.fee = plan[p].fee /\ n.days = plan[p].days
        /\ n.extensionFee = plan[p].extensionFee
    BY <1>2, <2>1
  <2>4. \A j \in Edit : suspended'[j] = suspended[j] \/ suspended'[j] = NoPlan
    BY <1>1, <1>6 DEF SuspendPlan
  <2> HIDE DEF n, p
  <2> QED  BY <1>1, <1>3, <1>6, <2>1, <2>2, <2>3, <2>4, AsksShrink DEF SuspendPlan
<1>7. CASE ReadForSuspension(k) \/ Reprice(k)
  <2>1. /\ UNCHANGED <<plan, assigned, charged, extension>> /\ asks' \subseteq asks
        /\ UNCHANGED <<purchase, rowLock, buyer, links, verifier>>
    BY <1>7, AsksShrink DEF ReadForSuspension, Reprice
  <2>2. \A j \in Edit : suspended'[j] # NoPlan =>
          suspended'[j] \in Plan /\ plan[suspended'[j]].status # "none"
    BY <1>1, <1>7 DEF ReadForSuspension, Reprice, ActivePlans
  <2>3. ExtensionsKeepPolicy' /\ RequestsAreOfPlans'  BY <2>1, <2>2, ExtensionsKept
  <2> QED  BY <1>1, <2>1, <2>3, StandingChanged
<1> QED  BY <1>4, <1>5, <1>6, <1>7

LEMMA BuyAddonInv ==
  ASSUME PlanTypeOK, PlanTypeOK', PlanInv, NEW a \in Addon, BuyAddon(a)
  PROVE  PlanInv' /\ ReceiptsLast
<1>1. /\ UNCHANGED <<plan, assigned, charged, extension, suspended>> /\ asks' \subseteq asks
      /\ UNCHANGED <<purchase, rowLock, buyer, links, verifier>>
  BY AsksShrink DEF BuyAddon, OnlyPlans
<1>2. \A p \in Plan : plan[p].active => plan[p].status = "COMPLETED" /\ assigned = p
  BY DEF PlanInv, PlansAreGranted, ActivePlanIsAssigned
<1>3. ExtensionsKeepPolicy' /\ RequestsAreOfPlans'
  BY <1>1, ExtensionsKept DEF PlanInv, RequestsAreOfPlans, PlanTypeOK
<1> QED  BY <1>1, <1>2, <1>3, StandingChanged

\* A plan becomes the user's, once: the ledger gets its fee as it begins, and the one it
\* replaces is active no more.
LEMMA ReplaceInv ==
  ASSUME PlanTypeOK, PlanTypeOK', PlanInv, ReceiptsLast, asks' \subseteq asks,
         NEW p \in Plan, NEW n \in PlanState, Replace(p, n),
         n.status = "COMPLETED", n.active, n.days = plan[p].days,
         n.extensionFee = plan[p].extensionFee,
         ~HasBegun(p), charged' = [charged EXCEPT ![p] = @ + n.fee],
         p \in Purchase => purchase'[p].fulfilled /\ purchase'[p].status = "paid" /\ captured'[p],
         \A q \in Purchase : q # p => purchase'[q].fulfilled = purchase[q].fulfilled,
         p \in Manual => p \notin asks',
         UNCHANGED <<extension, suspended>>
  PROVE  PlansInv'
<1>1. /\ assigned' = p /\ plan'[p] = n
      /\ \A q \in Plan : q # p =>
           /\ ~plan'[q].active
           /\ plan'[q].fee = plan[q].fee /\ plan'[q].days = plan[q].days
           /\ plan'[q].extensionFee = plan[q].extensionFee
           /\ plan[q].active => plan'[q].status \in {"CANCELLED", "EXPIRED"}
           /\ ~plan[q].active => plan'[q] = plan[q]
  BY ReplaceTyped
<1>2. PlansInv /\ PurchasesInv  BY PlanInvParts
<1>3. \A q \in Plan :
        /\ plan'[q].days = plan[q].days /\ plan'[q].extensionFee = plan[q].extensionFee
        /\ plan[q].status # "none" => plan'[q].status # "none"
        /\ plan'[q].active <=> q = p
        /\ q # p /\ plan[q].status = "none" => plan'[q].status = "none"
        /\ plan'[q].status = "COMPLETED" => q = p \/ plan[q].status = "COMPLETED"
  <2> SUFFICES ASSUME NEW q \in Plan
               PROVE  /\ plan'[q].days = plan[q].days
                      /\ plan'[q].extensionFee = plan[q].extensionFee
                      /\ plan[q].status # "none" => plan'[q].status # "none"
                      /\ plan'[q].active <=> q = p
                      /\ q # p /\ plan[q].status = "none" => plan'[q].status = "none"
                      /\ plan'[q].status = "COMPLETED" => q = p \/ plan[q].status = "COMPLETED"
    OBVIOUS
  <2>1. CASE q = p  BY <1>1, <2>1
  <2>2. CASE q # p /\ plan[q].active
    <3>1. plan[q].status = "COMPLETED"  BY <1>2, <2>2 DEF PlansInv, PlansAreGranted
    <3> QED  BY <1>1, <2>2, <3>1
  <2>3. CASE q # p /\ ~plan[q].active  BY <1>1, <2>3
  <2> QED  BY <2>1, <2>2, <2>3
<1>4. ActivePlanIsAssigned'  BY <1>1, <1>3 DEF ActivePlanIsAssigned
<1>5. FulfilledIsPaid'
  <2> SUFFICES ASSUME NEW o \in Purchase
               PROVE  /\ purchase'[o].fulfilled => purchase'[o].status = "paid" /\ captured'[o]
                      /\ plan'[o].active => purchase'[o].fulfilled
    BY DEF FulfilledIsPaid
  <2>1. CASE o = p  BY <2>1
  <2>2. CASE o # p
    <3>1. ~plan'[o].active  BY <1>3, <2>2 DEF Plan
    <3>2. purchase'[o].fulfilled => purchase[o].fulfilled  BY <2>2
    <3> QED  BY <1>2, <3>1, <3>2 DEF PlansInv, FulfilledIsPaid, ReceiptsLast
  <2> QED  BY <2>1, <2>2
<1>6. ChargedAsQuoted'
  <2> SUFFICES ASSUME NEW q \in Plan
               PROVE  charged'[q] = (IF HasBegun(q)' THEN plan'[q].fee ELSE 0)
                        + (IF plan'[q].extensionFee = NoFee THEN 0 ELSE plan'[q].extensionFee)
    BY DEF ChargedAsQuoted
  <2>1. charged[q] = (IF HasBegun(q) THEN plan[q].fee ELSE 0)
                      + (IF plan[q].extensionFee = NoFee THEN 0 ELSE plan[q].extensionFee)
    BY <1>2 DEF PlansInv, ChargedAsQuoted
  <2>2. CASE q = p
    <3>1. HasBegun(q)'  BY <1>1, <2>2 DEF HasBegun
    <3>2. charged'[p] = charged[p] + n.fee  BY DEF PlanTypeOK
    <3>3. n.fee \in Nat /\ charged[p] \in Nat /\ plan[p].extensionFee \in Nat \cup {NoFee}
      BY PlanFields DEF PlanState
    <3> QED  BY <1>1, <2>1, <2>2, <3>1, <3>2, <3>3
  <2>3. CASE q # p
    <3>1. HasBegun(q)' <=> HasBegun(q)
      <4>1. CASE q \in Purchase  BY <2>3, <4>1 DEF HasBegun
      <4>2. CASE q \notin Purchase  BY <1>3, <2>3, <4>2 DEF HasBegun
      <4> QED  BY <4>1, <4>2
    <3>2. charged'[q] = charged[q] /\ plan'[q].fee = plan[q].fee
      BY <1>1, <2>3 DEF PlanTypeOK
    <3> QED  BY <1>3, <2>1, <3>1, <3>2
  <2> QED  BY <2>2, <2>3
<1>7. ExtensionsKeepPolicy' /\ RequestsAreOfPlans'
  <2>1. \A k \in Edit : suspended'[k] # NoPlan =>
          suspended'[k] \in Plan /\ plan[suspended'[k]].status # "none"
    BY DEF PlanInv, RequestsAreOfPlans, PlanTypeOK
  <2> QED  BY <1>3, <2>1, ExtensionsKept
<1>8. \A m \in Manual : m \in asks' => plan'[m].status = "none"
  BY <1>2, <1>3 DEF PlansInv, Plan
<1>9. PlansAreGranted'
  <2>1. \A q \in Plan : plan'[q].status = "none" => plan'[q].days = 0 /\ plan'[q].extensionFee = NoFee
    BY <1>2, <1>3 DEF PlansInv, PlansAreGranted
  <2>2. \A q \in Plan : plan'[q].active => plan'[q].status = "COMPLETED"
    BY <1>1, <1>3
  <2>3. ASSUME NEW o \in Purchase, plan'[o].status = "COMPLETED" PROVE purchase'[o].fulfilled
    <3>1. CASE o = p  BY <3>1
    <3>2. CASE o # p
      <4>1. plan[o].status = "COMPLETED"  BY <1>3, <2>3, <3>2 DEF Plan
      <4> QED  BY <1>2, <4>1 DEF PlansInv, PlansAreGranted, ReceiptsLast
    <3> QED  BY <3>1, <3>2
  <2> QED  BY <2>1, <2>2, <2>3 DEF PlansAreGranted
<1> QED  BY <1>4, <1>5, <1>6, <1>7, <1>8, <1>9 DEF PlansInv

\* A manual assignment charges the fee of the day.
LEMMA AssignInv ==
  ASSUME PlanTypeOK, PlanTypeOK', PlanInv, NEW m \in Manual, Assign(m)
  PROVE  PlanInv' /\ ReceiptsLast
<1> USE DEF requests, OnlyPlans
<1> DEFINE n == [NoPlanYet EXCEPT !.status = "COMPLETED", !.active = TRUE, !.fee = fee]
<1>1. /\ m \in Plan /\ m \notin Purchase /\ fee \in Nat /\ NoPlanYet \in PlanState
  BY PlanAssumption, PlanFields DEF PlanTypeOK, NoPlanYet, PlanState
<1>2. n \in PlanState  BY <1>1, PlanUpdated DEF PlanStatus
<1>3. /\ n.status = "COMPLETED" /\ n.active /\ n.days = 0 /\ n.extensionFee = NoFee
      /\ n.fee = fee
  BY DEF NoPlanYet
<1>4. /\ Replace(m, n) /\ asks' \subseteq asks /\ m \in asks /\ m \notin asks'
      /\ charged' = [charged EXCEPT ![m] = @ + fee]
      /\ UNCHANGED <<extension, suspended>>
      /\ UNCHANGED <<purchase, rowLock, buyer, links, verifier>>
  BY DEF Assign, Ask
<1> HIDE DEF n
<1>5. plan[m].status = "none" /\ plan[m].days = 0 /\ plan[m].extensionFee = NoFee
  BY <1>1, <1>4 DEF PlanInv, NewRequestsAreFresh, PlansAreGranted
<1>6. ~HasBegun(m)  BY <1>1, <1>5 DEF HasBegun
<1>7. PurchasesInv' /\ ReceiptsLast  BY <1>4, PurchasesUntouched
<1>8. PlansInv'  BY <1>1, <1>2, <1>3, <1>4, <1>5, <1>6, <1>7, ReplaceInv
<1> QED  BY <1>7, <1>8, PlanInvPartsNext

\* The activation, under the lock of the purchase: the payment is recorded and captured,
\* the purchase is not fulfilled yet, and it is charged the fee it was quoted.
LEMMA ActivateInv ==
  ASSUME PlanTypeOK, PlanTypeOK', PlanInv, NEW v \in Verifier, Activate(v)
  PROVE  PlanInv' /\ ReceiptsLast
<1> USE DEF requests, links
<1> DEFINE o == verifier[v].purchase
           p == [plan[o] EXCEPT !.status = "COMPLETED", !.active = TRUE]
           n == [purchase[o] EXCEPT !.fulfilled = TRUE, !.next = Unscheduled]
<1>1. /\ verifier[v].at = "fulfil" /\ o \in Purchase /\ o \in Plan /\ o \notin Manual
      /\ plan[o] \in PlanState /\ purchase[o] \in PurchaseState
      /\ purchase \in [Purchase -> PurchaseState]
      /\ rowLock \in [Purchase -> Verifier \cup {Free}]
  BY PlanFields, PlanAssumption DEF Activate, PlanTypeOK
<1>2. /\ purchase[o].status = "paid" /\ captured[o] /\ rowLock[o] = v /\ ~purchase[o].fulfilled
  BY <1>1 DEF PlanInv, VerifierKnows
<1>3. p \in PlanState  BY <1>1, PlanUpdated DEF PlanStatus
<1>4. /\ p.status = "COMPLETED" /\ p.active /\ p.days = plan[o].days
      /\ p.extensionFee = plan[o].extensionFee /\ p.fee = plan[o].fee
      /\ n.status = purchase[o].status /\ n.fulfilled
  BY <1>1 DEF PlanState, PurchaseState
<1>5. /\ Replace(o, p) /\ purchase' = [purchase EXCEPT ![o] = n]
      /\ charged' = [charged EXCEPT ![o] = @ + plan[o].fee]
      /\ rowLock' = [rowLock EXCEPT ![o] = Free]
  BY <1>1 DEF Activate, QuotedFee
<1>6. /\ Answered(v) /\ asks' \subseteq asks
      /\ UNCHANGED <<buyer, link, captured, extension, suspended>>
  BY AsksShrink DEF Activate
<1> HIDE DEF o, p, n
<1>7. /\ purchase'[o].status = "paid" /\ purchase'[o].fulfilled
      /\ \A q \in Purchase : q # o => purchase'[q] = purchase[q] /\ rowLock'[q] = rowLock[q]
  BY <1>1, <1>2, <1>4, <1>5
<1>8. ReceiptsLast  BY <1>6, <1>7 DEF ReceiptsLast
<1>9. CreatedKept
  <2>1. \A q \in Purchase : purchase'[q].status = "none" <=> purchase[q].status = "none"
    BY <1>2, <1>7
  <2>2. \A q \in Purchase : purchase[q].status = "none" => purchase'[q].next = purchase[q].next
    BY <1>2, <1>7
  <2> QED  BY <1>6, <2>1, <2>2 DEF CreatedKept
<1>10. LocksKept(v)  BY <1>2, <1>7 DEF LocksKept
<1>11. PICK place \in {"idle", "release"} : StepsTo(v, place)
  BY <1>1, <1>6, VerifierAnswered
<1>12. VerifierKnows(v)'  BY <1>11 DEF VerifierKnows, StepsTo
<1>13. verifier'[v].at # "idle" => purchase'[verifier'[v].purchase].status # "none"
  BY <1>7, <1>11 DEF StepsTo, o
<1>14. PurchasesInv'
  BY <1>6, <1>8, <1>9, <1>10, <1>11, <1>12, <1>13, PurchasesInvKept DEF StepsTo
<1>15. PlansInv'
  <2>1. ~HasBegun(o)  BY <1>1, <1>2 DEF HasBegun
  <2>2. charged' = [charged EXCEPT ![o] = @ + p.fee]  BY <1>4, <1>5
  <2> QED
    BY <1>1, <1>2, <1>3, <1>4, <1>5, <1>6, <1>7, <1>8, <2>1, <2>2, ReplaceInv
<1> QED  BY <1>8, <1>14, <1>15, PlanInvPartsNext

\* A request for an extension is seen, quoted or refused.
LEMMA ExtensionOnly ==
  ASSUME PlanTypeOK, PlanTypeOK', PlanInv, asks' \subseteq asks,
         UNCHANGED <<plan, assigned, charged, suspended>>,
         UNCHANGED <<purchase, rowLock, buyer, links, verifier>>,
         NEW x \in Extension, NEW e \in ExtensionState, extension' = [extension EXCEPT ![x] = e],
         e.at \in {"viewed", "quoted", "refused"}, e.plan \in Plan,
         plan[e.plan].status # "none", e.days > 0,
         e.at = "quoted" /\ ~e.mayCost => e.price = 0
  PROVE  PlanInv' /\ ReceiptsLast
<1>1. /\ extension'[x] = e
      /\ \A y \in Extension : y # x => extension'[y] = extension[y]
  BY DEF PlanTypeOK
<1>2. /\ ExtensionsKeepPolicy /\ RequestsAreOfPlans
      /\ \A p \in Plan : plan[p].active => plan[p].status = "COMPLETED" /\ assigned = p
  BY DEF PlanInv, PlansAreGranted, ActivePlanIsAssigned
<1>3. ExtensionsKeepPolicy'
  <2>1. \A y \in Extension : extension'[y].at = "extended" =>
          extension'[y] = extension[y] /\ extension[y].at = "extended"
    BY <1>1
  <2> QED  BY <1>2, <2>1 DEF ExtensionsKeepPolicy
<1>4. RequestsAreOfPlans'
  <2>1. \A k \in Edit : suspended'[k] # NoPlan => plan'[suspended'[k]].status # "none"
    BY <1>2 DEF RequestsAreOfPlans
  <2>2. ASSUME NEW y \in Extension, extension'[y].at # "none"
        PROVE  /\ plan'[extension'[y].plan].status # "none"
               /\ extension'[y].days > 0
               /\ extension'[y].at = "quoted" /\ ~extension'[y].mayCost => extension'[y].price = 0
               /\ extension'[y].at = "extended" => plan'[extension'[y].plan].days > extension'[y].seen
    <3>1. CASE y = x  BY <1>1, <3>1
    <3>2. CASE y # x  BY <1>1, <1>2, <2>2, <3>2 DEF RequestsAreOfPlans
    <3> QED  BY <3>1, <3>2
  <2> QED  BY <2>1, <2>2 DEF RequestsAreOfPlans
<1> QED  BY <1>2, <1>3, <1>4, StandingChanged

\* extend, under its locks: the client's view and its quote must still hold, so the plan
\* gets days that fit the policy and pays for them at most once.
LEMMA ExtendInv ==
  ASSUME PlanTypeOK, PlanTypeOK', PlanInv, NEW x \in Extension, Extend(x)
  PROVE  PlanInv' /\ ReceiptsLast
<1> USE DEF OnlyExtension, OnlyPlans
<1> DEFINE p == extension[x].plan
           d == extension[x].days
           cost == extension[x].price
           may == extension[x].mayCost
           f == IF may THEN cost ELSE plan[p].extensionFee
           n == [plan[p] EXCEPT !.days = plan[p].days + d, !.extensionFee = f]
           e == [extension[x] EXCEPT !.at = "extended"]
<1>1. /\ extension[x].at = "quoted" /\ extension[x] \in ExtensionState
      /\ p \in Plan /\ plan[p] \in PlanState /\ plan[p].days \in 0..MaxDays
      /\ plan[p].extensionFee \in Nat \cup {NoFee} /\ plan[p].fee \in Nat
      /\ d \in Nat /\ cost \in Nat /\ may \in BOOLEAN /\ charged[p] \in Nat
      /\ FreeDays \in Nat /\ MaxDays \in Nat /\ NoFee \notin Nat
      /\ plan \in [Plan -> PlanState] /\ charged \in [Plan -> Nat]
      /\ extension \in [Extension -> ExtensionState]
  BY PlanFields, FeeAssumption, PolicyAssumption DEF Extend, PlanTypeOK
<1>2. /\ plan[p].status = "COMPLETED" /\ plan[p].days = extension[x].seen
      /\ plan[p].days + d <= MaxDays
      /\ may <=> (plan[p].days + d > FreeDays /\ plan[p].extensionFee = NoFee)
  BY <1>1 DEF Extend, Extendable, SameEnd, StartsToCost
<1>3. /\ plan' = [plan EXCEPT ![p] = n] /\ extension' = [extension EXCEPT ![x] = e]
      /\ charged' = [charged EXCEPT ![p] = @ + cost]
  BY <1>1 DEF Extend
<1>4. /\ n.days = plan[p].days + d /\ n.extensionFee = f /\ n.status = plan[p].status
      /\ n.active = plan[p].active /\ n.fee = plan[p].fee
      /\ e.at = "extended" /\ e.plan = p /\ e.seen = extension[x].seen /\ e.days = d
  BY <1>1 DEF PlanState, ExtensionState
<1>5. /\ asks' \subseteq asks /\ UNCHANGED <<assigned, suspended>>
      /\ UNCHANGED <<purchase, rowLock, buyer, links, verifier>>
  BY AsksShrink DEF Extend
<1>6. /\ PlansInv /\ PurchasesInv /\ d > 0 /\ (~may => cost = 0)
      /\ plan[p].days > FreeDays <=> plan[p].extensionFee # NoFee
  BY <1>1, PlanInvParts DEF PlansInv, RequestsAreOfPlans, ExtensionsKeepPolicy
<1> HIDE DEF n, e, p, d, cost, may
<1>7. PurchasesInv' /\ ReceiptsLast  BY <1>5, PurchasesUntouched
<1>8. /\ plan'[p] = n /\ charged'[p] = charged[p] + cost /\ extension'[x] = e
      /\ \A q \in Plan : q # p => plan'[q] = plan[q] /\ charged'[q] = charged[q]
      /\ \A y \in Extension : y # x => extension'[y] = extension[y]
  BY <1>1, <1>3
<1>9. \A q \in Plan : /\ plan'[q].status = plan[q].status /\ plan'[q].fee = plan[q].fee
                      /\ plan'[q].active = plan[q].active /\ plan'[q].days >= plan[q].days
                      /\ plan'[q].days \in Int /\ plan[q].days \in Int
  <2>1. \A q \in Plan : plan[q].days \in Int  BY PlanFields
  <2> QED  BY <1>1, <1>4, <1>8, <2>1
<1>10. ActivePlanIsAssigned' /\ FulfilledIsPaid'
  <2>1. ActivePlanIsAssigned'  BY <1>5, <1>6, <1>9 DEF PlansInv, ActivePlanIsAssigned
  <2>2. FulfilledIsPaid'  BY <1>5, <1>6, <1>9 DEF PlansInv, FulfilledIsPaid, Plan, links
  <2> QED  BY <2>1, <2>2
<1>11. ChargedAsQuoted'
  <2> SUFFICES ASSUME NEW q \in Plan
               PROVE  charged'[q] = (IF HasBegun(q)' THEN plan'[q].fee ELSE 0)
                        + (IF plan'[q].extensionFee = NoFee THEN 0 ELSE plan'[q].extensionFee)
    BY DEF ChargedAsQuoted
  <2>1. charged[q] = (IF HasBegun(q) THEN plan[q].fee ELSE 0)
                      + (IF plan[q].extensionFee = NoFee THEN 0 ELSE plan[q].extensionFee)
    BY <1>6 DEF PlansInv, ChargedAsQuoted
  <2>2. HasBegun(q)' <=> HasBegun(q)  BY <1>5, <1>9 DEF HasBegun
  <2>3. CASE q # p  BY <1>8, <2>1, <2>2, <2>3
  <2>4. CASE q = p
    <3>1. CASE may  BY <1>1, <1>2, <1>4, <1>8, <2>1, <2>2, <2>4, <3>1
    <3>2. CASE ~may  BY <1>1, <1>4, <1>6, <1>8, <2>1, <2>2, <2>4, <3>2
    <3> QED  BY <3>1, <3>2
  <2> QED  BY <2>3, <2>4
<1>12. ExtensionsKeepPolicy'
  <2>1. ASSUME NEW q \in Plan
        PROVE  plan'[q].days <= MaxDays /\ (plan'[q].days > FreeDays <=> plan'[q].extensionFee # NoFee)
    <3>1. CASE q # p  BY <1>6, <1>8, <3>1 DEF PlansInv, ExtensionsKeepPolicy
    <3>2. CASE q = p
      <4>1. plan'[q].days <= MaxDays  BY <1>2, <1>4, <1>8, <3>2
      <4>2. CASE may  BY <1>1, <1>2, <1>4, <1>8, <3>2, <4>2
      <4>3. CASE ~may
        <5>1. f = plan[p].extensionFee  BY <4>3
        <5> QED  BY <1>1, <1>2, <1>4, <1>6, <1>8, <3>2, <4>3, <5>1
      <4> QED  BY <4>1, <4>2, <4>3
    <3> QED  BY <3>1, <3>2
  <2>2. ASSUME NEW y \in Extension, y # x, extension[y].at = "extended", extension[y].plan = p
        PROVE  extension[y].seen # extension[x].seen
    <3>1. plan[p].days > extension[y].seen
      BY <1>6, <2>2 DEF PlansInv, RequestsAreOfPlans
    <3>2. extension[y].seen \in Int  BY PlanFields
    <3> QED  BY <1>1, <1>2, <3>1, <3>2
  <2>3. ASSUME NEW y \in Extension, NEW z \in Extension,
               extension'[y].at = "extended", extension'[z].at = "extended",
               extension'[y].plan = extension'[z].plan, extension'[y].seen = extension'[z].seen
        PROVE  y = z
    <3>1. CASE y = x /\ z # x  BY <1>4, <1>8, <2>2, <2>3, <3>1
    <3>2. CASE z = x /\ y # x  BY <1>4, <1>8, <2>2, <2>3, <3>2
    <3>3. CASE y # x /\ z # x  BY <1>6, <1>8, <2>3, <3>3 DEF PlansInv, ExtensionsKeepPolicy
    <3> QED  BY <3>1, <3>2, <3>3
  <2> QED  BY <2>1, <2>3 DEF ExtensionsKeepPolicy
<1>13. \A m \in Manual : m \in asks' => plan'[m].status = "none"
  BY <1>5, <1>6, <1>9 DEF PlansInv, Plan
<1>14. PlansAreGranted'
  <2>1. \A q \in Plan : plan'[q].status = "none" => q # p /\ plan'[q] = plan[q]
    BY <1>2, <1>8, <1>9
  <2>2. \A q \in Plan : plan'[q].status = "none" => plan'[q].days = 0 /\ plan'[q].extensionFee = NoFee
    BY <1>6, <2>1 DEF PlansInv, PlansAreGranted
  <2>3. \A q \in Plan : plan'[q].active => plan'[q].status = "COMPLETED"
    BY <1>6, <1>9 DEF PlansInv, PlansAreGranted
  <2>4. \A o \in Purchase : plan'[o].status = "COMPLETED" => purchase'[o].fulfilled
    BY <1>5, <1>6, <1>9 DEF PlansInv, PlansAreGranted, Plan
  <2> QED  BY <2>2, <2>3, <2>4 DEF PlansAreGranted
<1>15. RequestsAreOfPlans'
  <2>1. \A k \in Edit : suspended[k] # NoPlan => suspended[k] \in Plan
    BY DEF PlanTypeOK
  <2>2. \A k \in Edit : suspended'[k] # NoPlan => plan'[suspended'[k]].status # "none"
    BY <1>5, <1>6, <1>9, <2>1 DEF PlansInv, RequestsAreOfPlans
  <2>3. ASSUME NEW y \in Extension, extension'[y].at # "none"
        PROVE  /\ plan'[extension'[y].plan].status # "none"
               /\ extension'[y].days > 0
               /\ extension'[y].at = "quoted" /\ ~extension'[y].mayCost => extension'[y].price = 0
               /\ extension'[y].at = "extended" => plan'[extension'[y].plan].days > extension'[y].seen
    <3>1. CASE y = x
      BY <1>1, <1>2, <1>4, <1>6, <1>8, <3>1
    <3>2. CASE y # x
      <4>1. extension'[y] = extension[y] /\ extension[y].at # "none" /\ extension[y].plan \in Plan
            /\ extension[y].seen \in Int
        BY <1>8, <2>3, <3>2, PlanFields
      <4>2. /\ plan[extension[y].plan].status # "none"
            /\ extension[y].days > 0
            /\ extension[y].at = "quoted" /\ ~extension[y].mayCost => extension[y].price = 0
            /\ extension[y].at = "extended" => plan[extension[y].plan].days > extension[y].seen
        BY <1>6, <4>1 DEF PlansInv, RequestsAreOfPlans
      <4> QED  BY <1>9, <4>1, <4>2
    <3> QED  BY <3>1, <3>2
  <2> QED  BY <2>2, <2>3 DEF RequestsAreOfPlans
<1>16. PlansInv'  BY <1>10, <1>11, <1>12, <1>13, <1>14, <1>15 DEF PlansInv
<1> QED  BY <1>7, <1>16, PlanInvPartsNext

LEMMA ExtensionStepInv ==
  ASSUME PlanTypeOK, PlanTypeOK', PlanInv, NEW x \in Extension,
         RequestExtension(x) \/ QuoteExtension(x) \/ Extend(x) \/ RefuseExtension(x)
  PROVE  PlanInv' /\ ReceiptsLast
<1> USE DEF OnlyExtension, OnlyPlans
<1>1. /\ extension \in [Extension -> ExtensionState] /\ extension[x] \in ExtensionState
      /\ extension[x].at # "none" => /\ extension[x].plan \in Plan /\ extension[x].days > 0
                                     /\ plan[extension[x].plan].status # "none"
      /\ \A p \in Plan : plan[p].active => plan[p].status = "COMPLETED"
  BY PlanFields DEF PlanInv, PlansAreGranted, RequestsAreOfPlans, PlanTypeOK
<1>2. ~Extend(x) => /\ asks' \subseteq asks /\ UNCHANGED <<plan, assigned, charged, suspended>>
                    /\ UNCHANGED <<purchase, rowLock, buyer, links, verifier>>
  BY AsksShrink DEF RequestExtension, QuoteExtension, RefuseExtension
<1>3. CASE RequestExtension(x) /\ ~Extend(x)
  <2>1. PICK p \in ActivePlans, d \in Days :
          extension' = [extension EXCEPT ![x].at = "viewed", ![x].plan = p,
                                         ![x].seen = plan[p].days, ![x].days = d]
    BY <1>3 DEF RequestExtension
  <2>2. /\ p \in Plan /\ plan[p].status # "none" /\ plan[p].days \in 0..MaxDays
        /\ d \in Nat /\ d > 0
    BY <1>1, PlanFields, PolicyAssumption DEF ActivePlans
  <2> DEFINE e == [extension[x] EXCEPT !.at = "viewed", !.plan = p, !.seen = plan[p].days, !.days = d]
  <2>3. e \in ExtensionState  BY <1>1, <2>2, ExtensionUpdated
  <2>4. e.at = "viewed" /\ e.plan = p /\ e.days = d /\ extension' = [extension EXCEPT ![x] = e]
    BY <1>1, <2>1 DEF ExtensionState
  <2> HIDE DEF e
  <2> QED  BY <1>2, <1>3, <2>2, <2>3, <2>4, ExtensionOnly
<1>4. CASE QuoteExtension(x) /\ ~Extend(x)
  <2> DEFINE p == extension[x].plan
             may == plan[p].days + extension[x].days <= MaxDays /\ StartsToCost(p, extension[x].days)
             price == IF may THEN fee ELSE 0
             e == [extension[x] EXCEPT !.at = "quoted", !.mayCost = may, !.price = price]
  <2>1. extension[x].at # "none" /\ fee \in Nat  BY <1>4 DEF QuoteExtension, PlanTypeOK
  <2>2. extension' = [extension EXCEPT ![x].at = "quoted", ![x].mayCost = may, ![x].price = price]
    BY <1>4 DEF QuoteExtension
  <2>3. may \in BOOLEAN /\ price \in Nat /\ (~may => price = 0)  BY <2>1
  <2> HIDE DEF may, price
  <2>4. e \in ExtensionState  BY <1>1, <2>3, ExtensionUpdated
  <2>5. e.plan = p /\ e.at = "quoted" /\ e.days = extension[x].days /\ e.mayCost = may
        /\ e.price = price /\ extension' = [extension EXCEPT ![x] = e]
    BY <1>1, <2>2 DEF ExtensionState
  <2> HIDE DEF e
  <2>6. e.at = "quoted" /\ ~e.mayCost => e.price = 0  BY <2>3, <2>5
  <2> QED  BY <1>1, <1>2, <1>4, <2>1, <2>4, <2>5, <2>6, ExtensionOnly
<1>5. CASE RefuseExtension(x) /\ ~Extend(x)
  <2> DEFINE e == [extension[x] EXCEPT !.at = "refused"]
  <2>1. extension[x].at # "none"  BY <1>5 DEF RefuseExtension
  <2>2. e \in ExtensionState  BY <1>1, ExtensionUpdated
  <2>3. e.plan = extension[x].plan /\ e.at = "refused" /\ e.days = extension[x].days
        /\ extension' = [extension EXCEPT ![x] = e]
    BY <1>1, <1>5 DEF RefuseExtension, ExtensionState
  <2> HIDE DEF e
  <2> QED  BY <1>1, <1>2, <1>5, <2>1, <2>2, <2>3, ExtensionOnly
<1> QED  BY <1>3, <1>4, <1>5, ExtendInv

LEMMA PlanStepInv ==
  ASSUME PlanTypeOK, PlanTypeOK', PlanInv, PlanNext
  PROVE  PlanInv' /\ ReceiptsLast
<1>0. Call \subseteq Verifier /\ Sweeper \subseteq Verifier  BY PlanFields
<1>1. ASSUME NEW o \in Purchase,
             \/ CreatePurchase(o) \/ PostLink(o) \/ ReceiveLink(o) \/ LoseLinkAnswer(o)
             \/ SaveLink(o) \/ MarkLinkUnknown(o) \/ BuyerDies(o)
             \/ OpenLink(o) \/ CloseLink(o) \/ PayLink(o) \/ CapturePayment(o) \/ WakeUp(o)
      PROVE  PlanInv' /\ ReceiptsLast
  BY <1>1, CreatePurchaseInv, BuyerStepInv
<1>2. ASSUME NEW o \in Purchase, NEW v \in Verifier,
             StartVerify(v, o) \/ (v \in Sweeper /\ Claim(v, o))
      PROVE  PlanInv' /\ ReceiptsLast
  BY <1>2, VerificationBegins
<1>3. ASSUME NEW v \in Verifier, VerifyLinkStep(v) \/ VerifierFails(v) \/ VerifierDies(v)
      PROVE  PlanInv' /\ ReceiptsLast
  BY <1>3, VerifierStepInv, ActivateInv DEF VerifyLinkStep
<1>4. ASSUME NEW m \in Manual, Assign(m) PROVE PlanInv' /\ ReceiptsLast
  BY <1>4, AssignInv
<1>5. ASSUME NEW k \in Edit,
             \/ \E p \in Plan : CancelPlan(k, p) \/ ChangeStatus(k, p)
             \/ ReadForSuspension(k) \/ SuspendPlan(k) \/ Reprice(k)
      PROVE  PlanInv' /\ ReceiptsLast
  BY <1>5, AdminStepInv
<1>6. ASSUME NEW a \in Addon, BuyAddon(a) PROVE PlanInv' /\ ReceiptsLast
  BY <1>6, BuyAddonInv
<1>7. ASSUME NEW x \in Extension,
             RequestExtension(x) \/ QuoteExtension(x) \/ Extend(x) \/ RefuseExtension(x)
      PROVE  PlanInv' /\ ReceiptsLast
  BY <1>7, ExtensionStepInv
<1> QED  BY <1>0, <1>1, <1>2, <1>3, <1>4, <1>5, <1>6, <1>7 DEF PlanNext

\* The inductive invariant of the plans holds whatever the top-ups do.
THEOREM PlanInvariance == Spec => []PlanInv
<1>1. Init => PlanInv
  <2> SUFFICES ASSUME Init PROVE PlanInv
    OBVIOUS
  <2>1. /\ \A p \in Plan : /\ plan[p].status = "none" /\ ~plan[p].active /\ plan[p].days = 0
                           /\ plan[p].extensionFee = NoFee /\ charged[p] = 0
        /\ \A o \in Purchase : /\ o \in Plan
                               /\ purchase[o].status = "none" /\ ~purchase[o].fulfilled
                               /\ purchase[o].next = Unscheduled
                               /\ buyer[o] = "off" /\ link[o] = "none"
        /\ \A m \in Manual : m \in Plan
        /\ \A v \in Verifier : verifier[v].at = "idle"
        /\ \A x \in Extension : extension[x].at = "none"
        /\ \A k \in Edit : suspended[k] = NoPlan
    BY DEF Init, PlanInit, NoPlanYet, Resting, Plan
  <2>2. ActivePlanIsAssigned /\ FulfilledIsPaid /\ PlansAreGranted /\ NewRequestsAreFresh
    BY <2>1 DEF ActivePlanIsAssigned, FulfilledIsPaid, PlansAreGranted, NewRequestsAreFresh
  <2>3. ChargedAsQuoted  BY <2>1 DEF ChargedAsQuoted, HasBegun
  <2>4. ExtensionsKeepPolicy  BY <2>1, PolicyAssumption DEF ExtensionsKeepPolicy
  <2>5. UncreatedIsUnknown /\ RequestsAreOfPlans /\ \A v \in Verifier : VerifierKnows(v)
    BY <2>1 DEF UncreatedIsUnknown, RequestsAreOfPlans, VerifierKnows
  <2> QED  BY <2>2, <2>3, <2>4, <2>5 DEF PlanInv
<1>2. TypeOK /\ TypeOK' /\ PlanInv /\ [Next]_vars => PlanInv'
  <2> SUFFICES ASSUME TypeOK, TypeOK', PlanInv, [Next]_vars PROVE PlanInv'
    OBVIOUS
  <2>1. CASE PlanNext  BY <2>1, PlanStepInv DEF TypeOK
  <2>2. CASE UNCHANGED planVars /\ asks' \subseteq asks
    <3>1. PurchasesInv'  BY <2>2, PurchasesUntouched DEF TypeOK, planVars
    <3>2. PlansInv'
      <4>1. ReceiptsLast  BY <2>2 DEF ReceiptsLast, planVars, links
      <4> QED  BY <2>2, <4>1, PlansInvKept DEF TypeOK, planVars, requests
    <3> QED  BY <3>1, <3>2, PlanInvPartsNext
  <2>3. TopupNext => asks' \subseteq asks
    BY AsksShrink DEF TopupNext, CreateTopup, PostQr, ReceiveQr, LoseQrAnswer, SaveQr,
       MarkCreationUnknown, CreatorDies, OpenQr, CloseQr, Pay, Return, OnlyCreator, OnlyRazorpay,
       Verify, Deliver, VerifyStep, FetchQr, MarkQr, ListPayments, Reread, FetchPayment, Settle,
       RecordEvent, ListTooEarly, HandlerFails, OnlyHandler, bounds
  <2>4. \A g \in Grant : AddCredit(g) => asks' \subseteq asks  BY DEF AddCredit, bounds
  <2>5. UNCHANGED vars => UNCHANGED planVars /\ asks' \subseteq asks  BY DEF vars, bounds
  <2> QED  BY <2>1, <2>2, <2>3, <2>4, <2>5 DEF Next
<1> QED  BY <1>1, <1>2, TypeCorrect, PTL DEF Spec

\* At most one plan is active and users.assigned_plan points to it, whatever purchases,
\* assignments, suspensions and resumptions race (planAssignment, paymentPlan.fulfill,
\* superAdminUserPlan.changeStatus).
THEOREM OneActivePlan == Spec => []ActivePlanIsAssigned
BY PlanInvariance, PTL DEF PlanInv

\* A purchase is fulfilled only for a captured payment that is recorded, and no plan that
\* was bought over a link is active before (companyPayment.service, paymentPlan.service).
THEOREM FulfilmentIsPaid == Spec => []FulfilledIsPaid
BY PlanInvariance, PTL DEF PlanInv

\* The ledger of a plan holds its quoted fee once and its extension fee once, for any
\* number of verifications, retries and price changes.
THEOREM PlansChargedOnce == Spec => []ChargedAsQuoted
BY PlanInvariance, PTL DEF PlanInv

\* EXTENSION_POLICY holds of every plan, and a view of a plan is extended once.
THEOREM ExtensionPolicyHolds == Spec => []ExtensionsKeepPolicy
BY PlanInvariance, PTL DEF PlanInv

\* No step takes a recorded payment or a fulfilment back: neither the late answer of the
\* request that made the link (SaveLink, MarkLinkUnknown) nor a verification that saw it unpaid.
THEOREM ReceiptsAreFinal == Spec => ReceiptIsFinal
<1> DEFINE A == \A o \in Purchase : /\ purchase[o].status = "paid" => purchase'[o].status = "paid"
                                    /\ purchase[o].fulfilled => purchase'[o].fulfilled
<1>1. TypeOK /\ TypeOK' /\ PlanInv /\ [Next]_vars => [A]_planVars
  <2> SUFFICES ASSUME TypeOK, TypeOK', PlanInv, [Next]_vars, ~UNCHANGED planVars PROVE A
    OBVIOUS
  <2>1. PlanNext  BY DEF Next, vars
  <2>2. ReceiptsLast  BY <2>1, PlanStepInv DEF TypeOK
  <2> QED  BY <2>2 DEF ReceiptsLast
<1>2. ReceiptIsFinal <=> [][A]_planVars  BY DEF ReceiptIsFinal
<1> QED  BY <1>1, <1>2, TypeCorrect, PlanInvariance, PTL DEF Spec
-----------------------------------------------------------------------------
(***************************************************************************)
(* The money: the wallets hold what the ledgers say, and the ledgers say   *)
(* what the business rows do.                                              *)
(***************************************************************************)
AddonsBought == {a \in Addon : bought[a] # NoPlan}

LedgersBalance ==
  /\ balance = (Opening + GrantAmount * Cardinality(granted) + SumOver(booked, Topup)) - platform
  /\ platform = SumOver(charged, Plan) + AddonFee * Cardinality(AddonsBought)

LEMMA FiniteSetsOfMoney ==
  /\ IsFiniteSet(Topup) /\ IsFiniteSet(Plan) /\ IsFiniteSet(Addon) /\ IsFiniteSet(Grant)
BY FiniteAssumption, FS_Union DEF Plan

\* One more of something costs its price once more.
LEMMA OneMore == \A price, n \in Nat : price * (n + 1) = price * n + price
OBVIOUS

LEMMA LedgersBalanceStep ==
  ASSUME TypeOK, TypeOK', LedgersBalance, MoneyMoves
  PROVE  LedgersBalance'
<1> DEFINE G == GrantAmount * Cardinality(granted)
           B == SumOver(booked, Topup)
           C == SumOver(charged, Plan)
           A == AddonFee * Cardinality(AddonsBought)
<1>1. /\ balance \in Int /\ platform \in Int /\ granted \subseteq Grant
      /\ booked \in [Topup -> Int] /\ booked' \in [Topup -> Int]
      /\ charged \in [Plan -> Int] /\ charged' \in [Plan -> Int]
      /\ bought \in [Addon -> Plan \cup {NoPlan}]
  BY DEF TypeOK, WalletTypeOK, TopupTypeOK, PlanTypeOK
<1>2. /\ IsFiniteSet(granted) /\ IsFiniteSet(AddonsBought)
      /\ Cardinality(granted) \in Nat /\ Cardinality(AddonsBought) \in Nat
      /\ G \in Int /\ A \in Int /\ B \in Int /\ C \in Int
  <2>1. IsFiniteSet(granted) /\ IsFiniteSet(AddonsBought)
    BY <1>1, FiniteSetsOfMoney, FS_Subset DEF AddonsBought
  <2>2. Cardinality(granted) \in Nat /\ Cardinality(AddonsBought) \in Nat
    BY <2>1, FS_CardinalityType
  <2>3. B \in Int /\ C \in Int  BY <1>1, FiniteSetsOfMoney, SumIsInteger
  <2> HIDE DEF B, C
  <2> QED  BY <2>1, <2>2, <2>3
<1>3. balance = (Opening + G + B) - platform /\ platform = C + A
  BY DEF LedgersBalance
<1>4. UNCHANGED bought => UNCHANGED AddonsBought  BY DEF AddonsBought
<1> DEFINE Goal == /\ balance' = (Opening + G' + B') - platform'
                   /\ platform' = C' + A'
<1>5. Goal => LedgersBalance'  BY DEF LedgersBalance
<1>6. CASE UNCHANGED ledgers
  <2>1. UNCHANGED <<G, B, C, A, balance, platform>>  BY <1>4, <1>6 DEF ledgers
  <2> HIDE DEF G, B, C, A
  <2> QED  BY <1>3, <1>5, <2>1
<1>7. ASSUME NEW t \in Topup, NEW n \in Int, TopupBooked(t, n) PROVE Goal
  <2>1. booked'[t] = booked[t] + n /\ \A q \in Topup : q # t => booked'[q] = booked[q]
    BY <1>1, <1>7 DEF TopupBooked
  <2>2. B \in Int /\ B' = B + n  BY <1>1, <2>1, FiniteSetsOfMoney, SumMoves
  <2>3. UNCHANGED <<G, C, A, platform>> /\ balance' = balance + n
    BY <1>4, <1>7 DEF TopupBooked
  <2> HIDE DEF G, B, C, A
  <2> QED  BY <1>1, <1>2, <1>3, <2>2, <2>3
<1>8. ASSUME NEW p \in Plan, NEW n \in Nat, PlanPaid(p, n) PROVE Goal
  <2>1. charged'[p] = charged[p] + n /\ \A q \in Plan : q # p => charged'[q] = charged[q]
    BY <1>1, <1>8 DEF PlanPaid
  <2>2. C \in Int /\ C' = C + n  BY <1>1, <2>1, FiniteSetsOfMoney, SumMoves
  <2>3. UNCHANGED <<G, B, A>> /\ balance' = balance - n /\ platform' = platform + n
    BY <1>4, <1>8 DEF PlanPaid
  <2> HIDE DEF G, B, C, A
  <2> QED  BY <1>1, <1>2, <1>3, <2>2, <2>3
<1>9. ASSUME NEW a \in Addon, NEW p \in Plan, AddonPaid(a, p) PROVE Goal
  <2>1. AddonsBought' = AddonsBought \cup {a} /\ a \notin AddonsBought
    BY <1>1, <1>9 DEF AddonPaid, AddonsBought
  <2>2. Cardinality(AddonsBought') = Cardinality(AddonsBought) + 1
    BY <1>2, <2>1, FS_AddElement
  <2>3. A' = A + AddonFee  BY <1>2, <2>2, OneMore
  <2>4. /\ UNCHANGED <<G, B, C>>
        /\ balance' = balance - AddonFee /\ platform' = platform + AddonFee
    BY <1>9 DEF AddonPaid
  <2> HIDE DEF G, B, C, A
  <2> QED  BY <1>1, <1>2, <1>3, <2>3, <2>4
<1>10. ASSUME NEW g \in Grant, CreditGranted(g) PROVE Goal
  <2>1. granted' = granted \cup {g} /\ g \notin granted
    BY <1>10 DEF CreditGranted
  <2>2. Cardinality(granted') = Cardinality(granted) + 1
    BY <1>2, <2>1, FS_AddElement
  <2>3. G' = G + GrantAmount  BY <1>2, <2>2, OneMore
  <2>4. UNCHANGED <<B, C, A, platform>> /\ balance' = balance + GrantAmount
    BY <1>4, <1>10 DEF CreditGranted
  <2> HIDE DEF G, B, C, A
  <2> QED  BY <1>1, <1>2, <1>3, <2>3, <2>4
<1> HIDE DEF Goal
<1> QED  BY <1>5, <1>6, <1>7, <1>8, <1>9, <1>10 DEF MoneyMoves

\* The sums of the property are those of the ledgers wherever the invariants hold.
LEMMA CreditsAreBooked ==
  ASSUME TopupInv
  PROVE  MapThenSumSet(CreditsOf, Topup) = SumOver(booked, Topup)
<1> DEFINE it == CHOOSE it : it = [s \in SUBSET Topup |-> IF s = {} THEN 0
                    ELSE CreditsOf(CHOOSE x \in s : TRUE) + it[s \ {CHOOSE x \in s : TRUE}]]
<1>1. \A t \in Topup : CreditsOf(t) = booked[t]
  BY DEF TopupInv, CreditsFollowPayments, CreditsOf
<1>2. PICK h : Adds(h, booked, Topup) /\ SumOver(booked, Topup) = h[Topup]
  BY FiniteSetsOfMoney, SumAdds
<1>3. \A k : Adds(k, booked, Topup) <=>
         k = [s \in SUBSET Topup |-> IF s = {} THEN 0
                ELSE CreditsOf(CHOOSE x \in s : TRUE) + k[s \ {CHOOSE x \in s : TRUE}]]
  <2> SUFFICES ASSUME NEW k
               PROVE  Adds(k, booked, Topup) <=>
                        k = [s \in SUBSET Topup |-> IF s = {} THEN 0
                               ELSE CreditsOf(CHOOSE x \in s : TRUE) + k[s \ {CHOOSE x \in s : TRUE}]]
    OBVIOUS
  <2> DEFINE L(s) == IF s = {} THEN 0 ELSE booked[Pick(s)] + k[s \ {Pick(s)}]
             M(s) == IF s = {} THEN 0 ELSE CreditsOf(Pick(s)) + k[s \ {Pick(s)}]
  <2>1. \A s \in SUBSET Topup : L(s) = M(s)  BY <1>1, PickIsMember
  <2>2. Adds(k, booked, Topup) <=> k = [s \in SUBSET Topup |-> L(s)]  BY DEF Adds
  <2> HIDE DEF L, M
  <2>3. Adds(k, booked, Topup) <=> k = [s \in SUBSET Topup |-> M(s)]  BY <2>1, <2>2
  <2> QED  BY <2>3 DEF M, Pick
<1>4. Adds(it, booked, Topup)  BY <1>2, <1>3
<1>5. MapThenSumSet(CreditsOf, Topup) = it[Topup]  BY DEF MapThenSumSet, MapThenFoldSet
<1> HIDE DEF it
<1>6. it[Topup] = h[Topup]
  <2>1. Topup \in SUBSET Topup  OBVIOUS
  <2> QED  BY <1>2, <1>4, <2>1, FiniteSetsOfMoney, SameSum
<1> QED  BY <1>2, <1>5, <1>6

LEMMA CostsAreCharged ==
  ASSUME PlanInv
  PROVE  MapThenSumSet(CostOf, Plan) = SumOver(charged, Plan)
<1> DEFINE it == CHOOSE it : it = [s \in SUBSET Plan |-> IF s = {} THEN 0
                    ELSE CostOf(CHOOSE x \in s : TRUE) + it[s \ {CHOOSE x \in s : TRUE}]]
<1>1. \A p \in Plan : CostOf(p) = charged[p]
  BY DEF PlanInv, ChargedAsQuoted, CostOf
<1>2. PICK h : Adds(h, charged, Plan) /\ SumOver(charged, Plan) = h[Plan]
  BY FiniteSetsOfMoney, SumAdds
<1>3. \A k : Adds(k, charged, Plan) <=>
         k = [s \in SUBSET Plan |-> IF s = {} THEN 0
                ELSE CostOf(CHOOSE x \in s : TRUE) + k[s \ {CHOOSE x \in s : TRUE}]]
  <2> SUFFICES ASSUME NEW k
               PROVE  Adds(k, charged, Plan) <=>
                        k = [s \in SUBSET Plan |-> IF s = {} THEN 0
                               ELSE CostOf(CHOOSE x \in s : TRUE) + k[s \ {CHOOSE x \in s : TRUE}]]
    OBVIOUS
  <2> DEFINE L(s) == IF s = {} THEN 0 ELSE charged[Pick(s)] + k[s \ {Pick(s)}]
             M(s) == IF s = {} THEN 0 ELSE CostOf(Pick(s)) + k[s \ {Pick(s)}]
  <2>1. \A s \in SUBSET Plan : L(s) = M(s)  BY <1>1, PickIsMember
  <2>2. Adds(k, charged, Plan) <=> k = [s \in SUBSET Plan |-> L(s)]  BY DEF Adds
  <2> HIDE DEF L, M
  <2>3. Adds(k, charged, Plan) <=> k = [s \in SUBSET Plan |-> M(s)]  BY <2>1, <2>2
  <2> QED  BY <2>3 DEF M, Pick
<1>4. Adds(it, charged, Plan)  BY <1>2, <1>3
<1>5. MapThenSumSet(CostOf, Plan) = it[Plan]  BY DEF MapThenSumSet, MapThenFoldSet
<1> HIDE DEF it
<1>6. it[Plan] = h[Plan]
  <2>1. Plan \in SUBSET Plan  OBVIOUS
  <2> QED  BY <1>2, <1>4, <2>1, FiniteSetsOfMoney, SameSum
<1> QED  BY <1>2, <1>5, <1>6

\* Every rupee is where the business rows say.
THEOREM MoneyIsAccounted == Spec => []AllMoneyAccounted
<1>1. Init => LedgersBalance
  <2> SUFFICES ASSUME Init PROVE LedgersBalance
    OBVIOUS
  <2>1. /\ balance = Opening /\ platform = 0 /\ granted = {} /\ AddonsBought = {}
        /\ \A t \in Topup : booked[t] = 0
        /\ \A p \in Plan : charged[p] = 0
    BY DEF Init, WalletInit, TopupInit, PlanInit, AddonsBought
  <2>2. Cardinality(granted) = 0 /\ Cardinality(AddonsBought) = 0
    BY <2>1, FS_EmptySet
  <2>3. SumOver(booked, Topup) = 0 /\ SumOver(charged, Plan) = 0
    BY <2>1, FiniteSetsOfMoney, SumOfZeros
  <2> QED  BY <2>1, <2>2, <2>3 DEF LedgersBalance
<1>2. TypeOK /\ TypeOK' /\ LedgersBalance /\ [Next]_vars => LedgersBalance'
  BY MoneyStep, LedgersBalanceStep
<1>3. TypeOK /\ TopupInv /\ PlanInv /\ LedgersBalance => AllMoneyAccounted
  <2> SUFFICES ASSUME TypeOK, TopupInv, PlanInv, LedgersBalance PROVE AllMoneyAccounted
    OBVIOUS
  <2>1. /\ Received = Opening + GrantAmount * Cardinality(granted) + SumOver(booked, Topup)
        /\ Spent = SumOver(charged, Plan) + AddonFee * Cardinality(AddonsBought)
    BY CreditsAreBooked, CostsAreCharged DEF Received, Spent, AddonsBought
  <2>2. balance = Received - platform  BY <2>1 DEF LedgersBalance
  <2>3. platform = Spent  BY <2>1 DEF LedgersBalance
  <2> QED  BY <2>2, <2>3 DEF AllMoneyAccounted
<1> QED
  BY <1>1, <1>2, <1>3, TypeCorrect, TopupInvariance, PlanInvariance, PTL DEF Spec
=============================================================================
