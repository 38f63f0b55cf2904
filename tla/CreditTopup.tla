---------------------------- MODULE CreditTopup ----------------------------
(***************************************************************************)
(* Credit purchases of a company (services/creditTopup.service.ts): the    *)
(* order row, the single-use UPI QR code at Razorpay, and the two ways a   *)
(* payment is confirmed, the verify request of a browser and the webhooks  *)
(* qr_code.credited and refund.processed.  Both go through verifyOrder and *)
(* settle; what they know of Razorpay they ask Razorpay, one request at a  *)
(* time, while other verifications, payments and refunds happen.           *)
(***************************************************************************)
EXTENDS Wallet

CONSTANTS
  Topup,   \* credit_topup_orders rows
  Amount,  \* amount_paise of every one of them
  Hook,    \* requests that deliver a webhook
  Check,   \* requests that verify a purchase
  NoTopup, NoEvent

ASSUME TopupAssumption ==
  /\ Amount \in Nat \ {0}
  /\ NoTopup \notin Topup
  /\ Hook \cap Check = {}

Handler == Hook \cup Check

\* Events are told apart by their total: 0 for qr_code.credited, and what has been
\* returned so far for refund.processed.
Event == [topup : Topup, total : 0..Amount]

ASSUME EventAssumption == NoEvent \notin Event

VARIABLES
  order,   \* credit_topup_orders
  booked,  \* net amount of a purchase's credit_transactions
  creator, \* where the request that creates a purchase is
  qr,      \* the QR code at Razorpay
  paid,    \* the payment is captured
  returned,\* payment.amount_refunded
  sent,    \* webhook events Razorpay has to deliver
  acked,   \* events answered with success, no longer retried
  seen,    \* credit_topup_webhook_events
  job      \* what each handler is doing

razorpay == <<qr, paid, returned, sent>>
topupVars == <<order, booked, creator, qr, paid, returned, sent, acked, seen, job>>

OrderState == [status : {"none", "creating", "creation_unknown", "pending", "closed",
                         "expired", "credited", "partially_refunded", "refunded"},
               qr : BOOLEAN,        \* provider_qr_id and qr_image_url are saved
               credited : BOOLEAN,  \* ledger_transaction_id and provider_payment_id are
               refunded : 0..Amount]
Place == {"idle", "qr", "mark", "list", "reread", "payment", "settle", "record"}
JobState == [at : Place, topup : Topup \cup {NoTopup}, event : Event \cup {NoEvent},
             closed : BOOLEAN, returned : 0..Amount]
Idle == [at |-> "idle", topup |-> NoTopup, event |-> NoEvent, closed |-> FALSE, returned |-> 0]

TopupTypeOK ==
  /\ order \in [Topup -> OrderState]
  /\ booked \in [Topup -> Int]
  /\ creator \in [Topup -> {"off", "post", "waiting", "save", "unknown", "done"}]
  /\ qr \in [Topup -> {"none", "requested", "open", "closed"}]
  /\ paid \in [Topup -> BOOLEAN]
  /\ returned \in [Topup -> 0..Amount]
  /\ sent \subseteq Event /\ acked \subseteq Event /\ seen \subseteq Event
  /\ job \in [Handler -> JobState]
  /\ \A h \in Handler : job[h].at # "idle" => job[h].topup \in Topup
  /\ \A h \in Handler : job[h].at = "record" => job[h].event \in Event

TopupInit ==
  /\ order = [t \in Topup |-> [status |-> "none", qr |-> FALSE, credited |-> FALSE,
                               refunded |-> 0]]
  /\ booked = [t \in Topup |-> 0]
  /\ creator = [t \in Topup |-> "off"]
  /\ qr = [t \in Topup |-> "none"]
  /\ paid = [t \in Topup |-> FALSE]
  /\ returned = [t \in Topup |-> 0]
  /\ sent = {} /\ acked = {} /\ seen = {}
  /\ job = [h \in Handler |-> Idle]
-----------------------------------------------------------------------------
(***************************************************************************)
(* The request that creates a purchase (CreditTopupService.create).        *)
(***************************************************************************)
CreateTopup(t) ==
  /\ Ask(t)
  /\ order' = [order EXCEPT ![t].status = "creating"]
  /\ creator' = [creator EXCEPT ![t] = "post"]
  /\ UNCHANGED <<walletVars, booked, razorpay, acked, seen, job>>

\* What one step of the creating request leaves alone.
OnlyCreator == UNCHANGED <<walletVars, booked, paid, returned, sent, acked, seen, job>>

PostQr(t) ==
  /\ creator[t] = "post"
  /\ creator' = [creator EXCEPT ![t] = "waiting"]
  /\ qr' = [qr EXCEPT ![t] = "requested"]
  /\ UNCHANGED order /\ OnlyCreator /\ NoFault

ReceiveQr(t) ==
  /\ creator[t] = "waiting"
  /\ qr[t] \in {"open", "closed"}
  /\ creator' = [creator EXCEPT ![t] = "save"]
  /\ UNCHANGED <<order, qr>> /\ OnlyCreator /\ NoFault

\* A timeout, a refusal or a database error ends in the catch block.
LoseQrAnswer(t) ==
  /\ creator[t] \in {"post", "waiting", "save"}
  /\ creator' = [creator EXCEPT ![t] = "unknown"]
  /\ UNCHANGED <<order, qr>> /\ OnlyCreator /\ Fault

SaveQr(t) ==
  /\ creator[t] = "save"
  /\ creator' = [creator EXCEPT ![t] = "done"]
  /\ order' = IF order[t].status = "creating"
                THEN [order EXCEPT ![t].status = "pending", ![t].qr = TRUE]
                ELSE order
  /\ UNCHANGED qr /\ OnlyCreator /\ NoFault

MarkCreationUnknown(t) ==
  /\ creator[t] = "unknown"
  /\ creator' = [creator EXCEPT ![t] = "done"]
  /\ order' = IF order[t].status = "creating"
                THEN [order EXCEPT ![t].status = "creation_unknown"]
                ELSE order
  /\ UNCHANGED qr /\ OnlyCreator /\ NoFault

CreatorDies(t) ==
  /\ creator[t] \in {"post", "waiting", "save", "unknown"}
  /\ creator' = [creator EXCEPT ![t] = "done"]
  /\ UNCHANGED <<order, qr>> /\ OnlyCreator /\ Fault
-----------------------------------------------------------------------------
(***************************************************************************)
(* Razorpay and the customer.                                              *)
(***************************************************************************)
OnlyRazorpay == UNCHANGED <<walletVars, order, booked, creator, acked, seen, job>> /\ NoFault

\* A request may take effect long after its answer was given up.
OpenQr(t) ==
  /\ qr[t] = "requested"
  /\ qr' = [qr EXCEPT ![t] = "open"]
  /\ UNCHANGED <<paid, returned, sent>> /\ OnlyRazorpay

CloseQr(t) ==
  /\ qr[t] = "open"
  /\ qr' = [qr EXCEPT ![t] = "closed"]
  /\ UNCHANGED <<paid, returned, sent>> /\ OnlyRazorpay

\* The customer scans the image the dashboard shows; the code is single-use.
Pay(t) ==
  /\ qr[t] = "open"
  /\ order[t].qr
  /\ qr' = [qr EXCEPT ![t] = "closed"]
  /\ paid' = [paid EXCEPT ![t] = TRUE]
  /\ sent' = sent \cup {[topup |-> t, total |-> 0]}
  /\ UNCHANGED returned /\ OnlyRazorpay

Return(t, total) ==
  /\ paid[t]
  /\ total \in (returned[t] + 1)..Amount
  /\ returned' = [returned EXCEPT ![t] = total]
  /\ sent' = sent \cup {[topup |-> t, total |-> total]}
  /\ UNCHANGED <<qr, paid>> /\ OnlyRazorpay
-----------------------------------------------------------------------------
(***************************************************************************)
(* verifyOrder, in a verify request or a webhook.                          *)
(***************************************************************************)
OnlyHandler == UNCHANGED <<walletVars, creator, razorpay>>

Goto(h, place) == job' = [job EXCEPT ![h].at = place]
Leave(h) == job' = [job EXCEPT ![h] = Idle]

\* The order as it was looked up decides whether to ask for the QR or the payment.
Begin(h, t, e) ==
  job' = [job EXCEPT ![h] = [Idle EXCEPT !.at = IF order[t].credited THEN "payment" ELSE "qr",
                                         !.topup = t, !.event = e]]

Verify(c, t) ==
  /\ Ask(c)
  /\ order[t].status # "none"
  /\ Begin(c, t, NoEvent)
  /\ UNCHANGED <<order, booked, acked, seen>> /\ OnlyHandler

\* The order an event is about: by the QR code, or by the payment once that is known.
Found(e) == IF e.total = 0 THEN order[e.topup].qr ELSE order[e.topup].credited

\* Razorpay waits for the answer to an event before it repeats it, unless it gives up.
InHand(e) == \E h \in Hook : job[h].at # "idle" /\ job[h].event = e

\* An event that was processed before is acknowledged again; one whose order is not
\* found is acknowledged as somebody else's; any other is verified.
Deliver(h, e) ==
  /\ job[h].at = "idle"
  /\ e \in sent
  /\ IF e \in acked \/ InHand(e) THEN Fault ELSE NoFault
  /\ IF e \notin seen /\ Found(e)
       THEN Begin(h, e.topup, e) /\ UNCHANGED acked
       ELSE acked' = acked \cup {e} /\ UNCHANGED job
  /\ UNCHANGED <<order, booked, seen>> /\ OnlyHandler

\* Without a QR at Razorpay there is nothing to verify; a webhook is answered 503.
FetchQr(h) ==
  /\ job[h].at = "qr"
  /\ IF qr[job[h].topup] \in {"open", "closed"}
       THEN job' = [job EXCEPT ![h].at = "mark",
                               ![h].closed = (qr[job[h].topup] = "closed")]
       ELSE Leave(h)
  /\ UNCHANGED <<order, booked, acked, seen>> /\ OnlyHandler /\ NoFault

Unsettled(t) == ~order[t].credited

MarkQr(h) ==
  /\ job[h].at = "mark"
  /\ LET t == job[h].topup IN
       IF Unsettled(t)
         THEN \E s \in IF job[h].closed THEN {"closed", "expired"} ELSE {"pending"} :
                order' = [order EXCEPT ![t].status = s, ![t].qr = TRUE]
         ELSE order' = order
  /\ Goto(h, "list")
  /\ UNCHANGED <<booked, acked, seen>> /\ OnlyHandler /\ NoFault

ListPayments(h) ==
  /\ job[h].at = "list"
  /\ Goto(h, IF paid[job[h].topup] THEN "payment" ELSE "reread")
  /\ UNCHANGED <<order, booked, acked, seen>> /\ OnlyHandler /\ NoFault

\* "Captured payment is not visible yet": the collection lags behind the payment.
ListTooEarly(h) ==
  /\ job[h].at = "list"
  /\ paid[job[h].topup]
  /\ Goto(h, "reread")
  /\ UNCHANGED <<order, booked, acked, seen>> /\ OnlyHandler /\ Fault

\* Mutant of Reread: an event without a credited purchase is accepted, not answered 503.
RereadAccepts(h) ==
  /\ job[h].at = "reread"
  /\ IF job[h].event # NoEvent THEN Goto(h, "record") ELSE Leave(h)
  /\ UNCHANGED <<order, booked, acked, seen>> /\ OnlyHandler /\ NoFault

\* Nothing captured: a webhook whose order somebody else credited is processed after
\* all, any other is answered 503 and will be delivered again.
Reread(h) ==
  /\ job[h].at = "reread"
  /\ IF order[job[h].topup].credited /\ job[h].event # NoEvent
       THEN Goto(h, "record")
       ELSE Leave(h)
  /\ UNCHANGED <<order, booked, acked, seen>> /\ OnlyHandler /\ NoFault

FetchPayment(h) ==
  /\ job[h].at = "payment"
  /\ job' = [job EXCEPT ![h].at = "settle", ![h].returned = returned[job[h].topup]]
  /\ UNCHANGED <<order, booked, acked, seen>> /\ OnlyHandler /\ NoFault

\* Mutants of NewlyCredited and TotalRefunded: crediting whatever the locked row says,
\* taking the payment's total for the last word, and taking totals for increments.
CreditedAgain(t) == Amount
LatestTotal(t, total) == total
RefundsAdded(t, total) == order[t].refunded + total

\* What settle adds to the wallet, and the refund total it saves: a total it has seen
\* does not shrink, whatever order the answers of Razorpay come in.
NewlyCredited(t) == IF order[t].credited THEN 0 ELSE Amount
TotalRefunded(t, total) == IF total > order[t].refunded THEN total ELSE order[t].refunded

StatusOf(refunded) == CASE refunded = Amount -> "refunded"
                        [] refunded \in 1..(Amount - 1) -> "partially_refunded"
                        [] OTHER -> "credited"

\* settle: one transaction under the locks of the order and the company.
Settle(h) ==
  /\ job[h].at = "settle"
  /\ LET t == job[h].topup
         refunded == TotalRefunded(t, job[h].returned)
         amount == NewlyCredited(t) - (refunded - order[t].refunded)
     IN /\ Credit(amount)
        /\ booked' = [booked EXCEPT ![t] = @ + amount]
        /\ order' = [order EXCEPT ![t].status = StatusOf(refunded), ![t].credited = TRUE,
                                  ![t].refunded = refunded]
  /\ IF job[h].event = NoEvent THEN Leave(h) ELSE Goto(h, "record")
  /\ UNCHANGED <<platform, granted, creator, razorpay, acked, seen>> /\ NoFault

RecordEvent(h) ==
  /\ job[h].at = "record"
  /\ seen' = seen \cup {job[h].event}
  /\ acked' = acked \cup {job[h].event}
  /\ Leave(h)
  /\ UNCHANGED <<order, booked>> /\ OnlyHandler /\ NoFault

\* Razorpay, the database or the process fails; the transaction rolls back.
HandlerFails(h) ==
  /\ job[h].at # "idle"
  /\ Leave(h)
  /\ UNCHANGED <<order, booked, acked, seen>> /\ OnlyHandler /\ Fault

VerifyStep(h) ==
  \/ FetchQr(h) \/ MarkQr(h) \/ ListPayments(h) \/ Reread(h) \/ FetchPayment(h)
  \/ Settle(h) \/ RecordEvent(h)

TopupNext ==
  \/ \E t \in Topup :
       \/ CreateTopup(t) \/ PostQr(t) \/ ReceiveQr(t) \/ LoseQrAnswer(t) \/ SaveQr(t)
       \/ MarkCreationUnknown(t) \/ CreatorDies(t)
       \/ OpenQr(t) \/ CloseQr(t) \/ Pay(t) \/ \E total \in 1..Amount : Return(t, total)
  \/ \E c \in Check, t \in Topup : Verify(c, t)
  \/ \E h \in Hook, e \in Event : Deliver(h, e)
  \/ \E h \in Handler : VerifyStep(h) \/ ListTooEarly(h) \/ HandlerFails(h)
-----------------------------------------------------------------------------
(***************************************************************************)
(* Properties.                                                             *)
(***************************************************************************)

\* The wallet holds exactly what was captured and not yet known to be returned:
\* one credit per purchase, every returned rupee debited once, nothing for a payment
\* that was not captured (settle against duplicated, concurrent and late verifications).
CreditsFollowPayments ==
  \A t \in Topup :
    /\ booked[t] = IF order[t].credited THEN Amount - order[t].refunded ELSE 0
    /\ order[t].credited => paid[t]
    /\ order[t].refunded <= returned[t]

\* A refund.processed event that is recorded as processed has reached the wallet:
\* the record is written after the settlement that includes the refund.
ProcessedRefundIsDebited ==
  \A e \in seen : order[e.topup].credited /\ order[e.topup].refunded >= e.total

\* What docs/credit-topups-api.md promises of refunds: an acknowledged refund.processed
\* leaves no spendable credits for the money that was returned.
AcknowledgedRefundIsDebited ==
  \A e \in acked : order[e.topup].credited => order[e.topup].refunded >= e.total

\* A captured payment reaches the wallet although the browser is gone, notifications
\* are lost or repeated and handlers fail: Razorpay repeats an event until it is accepted.
CapturedIsCredited ==
  \A t \in Topup : paid[t] ~> order[t].credited
=============================================================================
