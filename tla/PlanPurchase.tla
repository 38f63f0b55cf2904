---------------------------- MODULE PlanPurchase ----------------------------
(***************************************************************************)
(* The plans of one user of a company and the ways they change:            *)
(*   - purchases over a payment link (companyPayment.service.ts), verified *)
(*     by requests, by the webhook's wake-up and by the reconciler         *)
(*     (companyPaymentLinkScheduler), and fulfilled by paymentPlan.service;*)
(*   - manual assignment, extension, add-ons, cancellation, suspension.    *)
(* Every fee goes from the wallet of the company to that of the platform.  *)
(*                                                                         *)
(* Dates are abstracted: whether a plan's period is over is left open, and *)
(* as each extension moves the end of a plan, its extension_days stand for *)
(* the expected_end_date a request quotes.                                 *)
(***************************************************************************)
EXTENDS Wallet

CONSTANTS
  Purchase,  \* company_payment_orders with payment_flow 'link', and their user_plans
  Manual,    \* plans assigned by an administrator
  Call,      \* requests that verify a purchase
  Sweeper,   \* API instances running the reconciler
  Extension, \* requests to extend a plan
  Addon,     \* add-on purchases (Idempotency-Key)
  Edit,      \* administrators' requests to cancel, suspend, resume or reprice
  Fees,      \* the platform fees an administrator may set
  AddonFee,  \* amount_paise of an add-on
  Days, FreeDays, MaxDays, \* EXTENSION_POLICY and the days that are asked for
  NoPlan, NoFee, Free, Due, Unscheduled

Plan == Purchase \cup Manual
Verifier == Call \cup Sweeper

ASSUME PlanAssumption ==
  /\ Purchase \cap Manual = {} /\ NoPlan \notin Plan
  /\ Call \cap Sweeper = {} /\ Free \notin Verifier
  /\ Due # Unscheduled /\ {Due, Unscheduled} \cap Sweeper = {}
ASSUME FeeAssumption == Fees \subseteq Nat /\ AddonFee \in Nat /\ NoFee \notin Nat
ASSUME PolicyAssumption == /\ Days \subseteq Nat \ {0}
                           /\ FreeDays \in Nat /\ MaxDays \in Nat /\ FreeDays <= MaxDays

VARIABLES
  plan,     \* user_plans
  assigned, \* users.assigned_plan
  fee,      \* platform_fee_settings: what an assignment costs now
  charged,  \* debits of the company's ledger for a plan: its fee and its extension fee
  purchase, \* company_payment_orders
  rowLock,  \* the transaction that holds a purchase's row across an await
  buyer,    \* where the request that creates a purchase is
  link,     \* the payment link at Razorpay
  captured, \* its payment is captured
  verifier, \* what each verification is doing
  extension,\* where each extension request is
  bought,   \* user_plan_addons: the plan an add-on was bought for
  suspended \* the plan a suspension has read and is about to write

links == <<link, captured>>
requests == <<extension, bought, suspended>>
planVars == <<plan, assigned, fee, charged, purchase, rowLock, buyer, links, verifier, requests>>

PlanState == [status : {"none", "pending", "COMPLETED", "CANCELLED", "EXPIRED"},
              active : BOOLEAN, fee : Nat, days : 0..MaxDays, extensionFee : Nat \cup {NoFee}]
PurchaseState == [status : {"none", "creating", "creation_unknown", "pending", "paid"},
                  link : BOOLEAN, \* provider_payment_link_id is saved
                  linkStatus : {"none", "open", "paid", "cancelled"},
                  next : {Due, Unscheduled} \cup Sweeper, \* next_check_at, or whose lease it is
                  fulfilled : BOOLEAN]
VerifierState == [at : {"idle", "fetch", "receipt", "capture", "lock", "fulfil", "retry", "release"},
                  purchase : Plan \cup {NoPlan},
                  link : {"none", "open", "paid", "cancelled"},
                  pending : BOOLEAN]
ExtensionState == [at : {"none", "viewed", "quoted", "refused", "extended"},
                   plan : Plan \cup {NoPlan}, seen : 0..MaxDays, days : Nat,
                   mayCost : BOOLEAN, price : Nat]

NoPlanYet == [status |-> "none", active |-> FALSE, fee |-> 0, days |-> 0, extensionFee |-> NoFee]
Resting == [at |-> "idle", purchase |-> NoPlan, link |-> "none", pending |-> FALSE]

PlanTypeOK ==
  /\ plan \in [Plan -> PlanState]
  /\ assigned \in Plan \cup {NoPlan}
  /\ fee \in Nat
  /\ charged \in [Plan -> Nat]
  /\ purchase \in [Purchase -> PurchaseState]
  /\ rowLock \in [Purchase -> Verifier \cup {Free}]
  /\ buyer \in [Purchase -> {"off", "post", "waiting", "save", "unknown", "done"}]
  /\ link \in [Purchase -> {"none", "requested", "open", "paid", "cancelled"}]
  /\ captured \in [Purchase -> BOOLEAN]
  /\ verifier \in [Verifier -> VerifierState]
  /\ \A v \in Verifier : verifier[v].at # "idle" => verifier[v].purchase \in Purchase
  /\ extension \in [Extension -> ExtensionState]
  /\ \A x \in Extension : extension[x].at # "none" => extension[x].plan \in Plan
  /\ bought \in [Addon -> Plan \cup {NoPlan}]
  /\ suspended \in [Edit -> Plan \cup {NoPlan}]

PlanInit ==
  /\ plan = [p \in Plan |-> NoPlanYet]
  /\ assigned = NoPlan
  /\ fee \in Fees
  /\ charged = [p \in Plan |-> 0]
  /\ purchase = [o \in Purchase |-> [status |-> "none", link |-> FALSE, linkStatus |-> "none",
                                     next |-> Unscheduled, fulfilled |-> FALSE]]
  /\ rowLock = [o \in Purchase |-> Free]
  /\ buyer = [o \in Purchase |-> "off"]
  /\ link = [o \in Purchase |-> "none"]
  /\ captured = [o \in Purchase |-> FALSE]
  /\ verifier = [v \in Verifier |-> Resting]
  /\ extension = [x \in Extension |-> [at |-> "none", plan |-> NoPlan, seen |-> 0, days |-> 0,
                                       mayCost |-> FALSE, price |-> 0]]
  /\ bought = [a \in Addon |-> NoPlan]
  /\ suspended = [k \in Edit |-> NoPlan]

\* The fee goes from one wallet to the other; the company must have it.
Transfer(amount) ==
  /\ balance >= amount
  /\ balance' = balance - amount
  /\ platform' = platform + amount
  /\ UNCHANGED granted

\* A fee of zero leaves the wallets alone.
TransferFee(amount) == IF amount > 0 THEN Transfer(amount) ELSE UNCHANGED walletVars

ActivePlans == {p \in Plan : plan[p].active}

\* p becomes the user's plan; the one it replaces is CANCELLED, or EXPIRED if over.
Replace(p, new) ==
  /\ Cardinality(ActivePlans) <= 1
  /\ \E s \in {"CANCELLED", "EXPIRED"} :
       plan' = [q \in Plan |-> IF q = p THEN new
                               ELSE IF plan[q].active
                                 THEN [plan[q] EXCEPT !.active = FALSE, !.status = s]
                                 ELSE plan[q]]
  /\ assigned' = p
-----------------------------------------------------------------------------
(***************************************************************************)
(* The request that creates a purchase (CompanyPaymentService.create).     *)
(***************************************************************************)

\* Reservation: eligibility is checked, the fee is quoted, nothing is debited.
CreatePurchase(o) ==
  /\ Ask(o)
  /\ balance >= fee
  /\ plan' = [plan EXCEPT ![o].status = "pending", ![o].fee = fee]
  /\ purchase' = [purchase EXCEPT ![o].status = "creating", ![o].next = Due]
  /\ buyer' = [buyer EXCEPT ![o] = "post"]
  /\ UNCHANGED <<walletVars, assigned, fee, charged, rowLock, links, verifier, requests>>

OnlyBuyer == UNCHANGED <<walletVars, plan, assigned, fee, charged, rowLock, captured,
                         verifier, requests>>

PostLink(o) ==
  /\ buyer[o] = "post"
  /\ buyer' = [buyer EXCEPT ![o] = "waiting"]
  /\ link' = [link EXCEPT ![o] = "requested"]
  /\ UNCHANGED purchase /\ OnlyBuyer /\ NoFault

ReceiveLink(o) ==
  /\ buyer[o] = "waiting"
  /\ link[o] # "requested"
  /\ buyer' = [buyer EXCEPT ![o] = "save"]
  /\ UNCHANGED <<purchase, link>> /\ OnlyBuyer /\ NoFault

LoseLinkAnswer(o) ==
  /\ buyer[o] \in {"post", "waiting", "save"}
  /\ buyer' = [buyer EXCEPT ![o] = "unknown"]
  /\ UNCHANGED <<purchase, link>> /\ OnlyBuyer /\ Fault

\* Mutant of KeptStatus: the answer of the provider makes any purchase pending.
PendingStatus(o) == "pending"

\* A verification may have recorded the payment before the answer is saved.
KeptStatus(o) == IF purchase[o].status = "paid" THEN "paid" ELSE "pending"

SaveLink(o) ==
  /\ buyer[o] = "save"
  /\ rowLock[o] = Free
  /\ buyer' = [buyer EXCEPT ![o] = "done"]
  /\ purchase' = [purchase EXCEPT ![o].link = TRUE, ![o].status = KeptStatus(o),
                    ![o].linkStatus = IF @ = "none" THEN "open" ELSE @]
  /\ UNCHANGED link /\ OnlyBuyer /\ NoFault

MarkLinkUnknown(o) ==
  /\ buyer[o] = "unknown"
  /\ rowLock[o] = Free
  /\ buyer' = [buyer EXCEPT ![o] = "done"]
  /\ purchase' = IF purchase[o].status = "creating"
                   THEN [purchase EXCEPT ![o].status = "creation_unknown"]
                   ELSE purchase
  /\ UNCHANGED link /\ OnlyBuyer /\ NoFault

BuyerDies(o) ==
  /\ buyer[o] \in {"post", "waiting", "save", "unknown"}
  /\ buyer' = [buyer EXCEPT ![o] = "done"]
  /\ UNCHANGED <<purchase, link>> /\ OnlyBuyer /\ Fault
-----------------------------------------------------------------------------
(***************************************************************************)
(* Razorpay, the customer and the webhook.                                 *)
(***************************************************************************)
OnlyLink == UNCHANGED <<walletVars, plan, assigned, fee, charged, rowLock, buyer, verifier,
                        requests>> /\ NoFault

OpenLink(o) ==
  /\ link[o] = "requested"
  /\ link' = [link EXCEPT ![o] = "open"]
  /\ UNCHANGED <<purchase, captured>> /\ OnlyLink

\* The link expires, or the merchant cancels it.
CloseLink(o) ==
  /\ link[o] = "open"
  /\ link' = [link EXCEPT ![o] = "cancelled"]
  /\ UNCHANGED <<purchase, captured>> /\ OnlyLink

\* The customer opens the payment_url of the saved checkout.
PayLink(o) ==
  /\ link[o] = "open"
  /\ purchase[o].link
  /\ link' = [link EXCEPT ![o] = "paid"]
  /\ UNCHANGED <<purchase, captured>> /\ OnlyLink

CapturePayment(o) ==
  /\ link[o] = "paid"
  /\ ~captured[o]
  /\ captured' = [captured EXCEPT ![o] = TRUE]
  /\ UNCHANGED <<purchase, link>> /\ OnlyLink

\* The webhook only wakes the reconciler; events may come twice, late or never.
WakeUp(o) ==
  /\ link[o] \in {"paid", "cancelled"}
  /\ ~purchase[o].fulfilled
  /\ rowLock[o] = Free
  /\ purchase' = [purchase EXCEPT ![o].next = Due]
  /\ UNCHANGED links /\ OnlyLink
-----------------------------------------------------------------------------
(***************************************************************************)
(* Verification of a link (verifyPaymentLink), by a request or by the      *)
(* reconciler, which claims a due purchase under a lease.                  *)
(***************************************************************************)
OnlyVerifier == UNCHANGED <<walletVars, plan, assigned, fee, charged, buyer, links, requests>>

Moved(v, place) == verifier' = [verifier EXCEPT ![v].at = place]

\* The request is answered; the reconciler goes on to release its lease.
Answered(v) == verifier' = [verifier EXCEPT ![v] =
                              IF v \in Sweeper THEN [@ EXCEPT !.at = "release"] ELSE Resting]

Completed(o) == purchase[o].status = "paid" /\ purchase[o].fulfilled

StartVerify(v, o) ==
  /\ Ask(v)
  /\ purchase[o].status # "none"
  /\ ~Completed(o)
  /\ verifier' = [verifier EXCEPT ![v] = [Resting EXCEPT !.at = "fetch", !.purchase = o]]
  /\ UNCHANGED <<purchase, rowLock>> /\ OnlyVerifier

\* Mutant of Claimable: the lease of an instance that died never runs out.
NeverLapses(o) == purchase[o].next = Due

\* A lease only keeps others away while it lasts: the claim of a dead instance, or of
\* one that takes longer, is due again.
Claimable(o) == purchase[o].next # Unscheduled

Claim(v, o) ==
  /\ verifier[v].at = "idle"
  /\ Claimable(o)
  /\ rowLock[o] = Free
  /\ purchase' = [purchase EXCEPT ![o].next = v]
  /\ verifier' = [verifier EXCEPT ![v] = [Resting EXCEPT !.purchase = o,
                    !.at = IF Completed(o) THEN "release" ELSE "fetch"]]
  /\ UNCHANGED rowLock /\ OnlyVerifier /\ NoFault

\* fetchGatewayPaymentLink: by the saved id, or by the purchase's reference.
FetchLink(v) ==
  /\ verifier[v].at = "fetch"
  /\ LET now == link[verifier[v].purchase] IN
       IF now \in {"none", "requested"}
         THEN Answered(v)
         ELSE verifier' = [verifier EXCEPT ![v].at = "receipt", ![v].link = now]
  /\ UNCHANGED <<purchase, rowLock>> /\ OnlyVerifier /\ NoFault

RecordReceipt(v) ==
  /\ verifier[v].at = "receipt"
  /\ LET o == verifier[v].purchase
         seen == verifier[v].link
     IN /\ rowLock[o] = Free
        /\ purchase' =
             IF purchase[o].status = "paid" THEN purchase
             ELSE [purchase EXCEPT
                     ![o].link = TRUE, ![o].linkStatus = seen,
                     ![o].status = IF seen = "paid" THEN "paid" ELSE "pending",
                     ![o].next = IF seen = "cancelled" THEN Unscheduled ELSE Due]
        /\ IF seen = "paid" THEN Moved(v, "capture") ELSE Answered(v)
  /\ UNCHANGED rowLock /\ OnlyVerifier /\ NoFault

\* PAYMENT_CAPTURE_REVIEW_REQUIRED and PLAN_ACTIVATION_PENDING: try again later.
TryAgain(o) == purchase' = IF purchase[o].fulfilled THEN purchase
                           ELSE [purchase EXCEPT ![o].next = Due]

\* Mutant of HasCaptured: a paid link is taken for a captured payment.
PaidWillDo(o) == TRUE

\* paymentLinkHasCapturedPayment.
HasCaptured(o) == captured[o]

CheckCapture(v) ==
  /\ verifier[v].at = "capture"
  /\ LET o == verifier[v].purchase IN
       \/ /\ HasCaptured(o)
          /\ Moved(v, "lock")
          /\ UNCHANGED purchase
       \/ /\ ~HasCaptured(o)
          /\ rowLock[o] = Free
          /\ TryAgain(o)
          /\ Answered(v)
  /\ UNCHANGED rowLock /\ OnlyVerifier /\ NoFault

\* fulfill, first half: under the lock of the purchase, the plan is read without one.
LockPurchase(v) ==
  /\ verifier[v].at = "lock"
  /\ LET o == verifier[v].purchase IN
       /\ rowLock[o] = Free
       /\ IF purchase[o].fulfilled
            THEN /\ purchase' = [purchase EXCEPT ![o].next = Unscheduled]
                 /\ Answered(v)
                 /\ UNCHANGED rowLock
            ELSE /\ rowLock' = [rowLock EXCEPT ![o] = v]
                 /\ verifier' = [verifier EXCEPT ![v].at = "fulfil",
                      ![v].pending = (plan[o].status = "pending" /\ ~plan[o].active)]
                 /\ UNCHANGED purchase
  /\ OnlyVerifier /\ NoFault

\* Mutant of QuotedFee: the fee of today instead of the one the plan was quoted.
CurrentFee(o) == fee

QuotedFee(o) == plan[o].fee

\* fulfill, second half, under the locks of the user, the active plan and the company.
Activate(v) ==
  /\ verifier[v].at = "fulfil"
  /\ verifier[v].pending
  /\ LET o == verifier[v].purchase IN
       /\ Transfer(QuotedFee(o))
       /\ charged' = [charged EXCEPT ![o] = @ + QuotedFee(o)]
       /\ Replace(o, [plan[o] EXCEPT !.status = "COMPLETED", !.active = TRUE])
       /\ purchase' = [purchase EXCEPT ![o].fulfilled = TRUE, ![o].next = Unscheduled]
       /\ rowLock' = [rowLock EXCEPT ![o] = Free]
  /\ Answered(v)
  /\ UNCHANGED <<fee, buyer, links, requests>> /\ NoFault

\* "Purchased plan is no longer pending", "Not enough credits", several active plans.
RefuseActivation(v) ==
  /\ verifier[v].at = "fulfil"
  /\ \/ ~verifier[v].pending
     \/ balance < QuotedFee(verifier[v].purchase)
     \/ Cardinality(ActivePlans) > 1
  /\ Moved(v, "retry")
  /\ rowLock' = [rowLock EXCEPT ![verifier[v].purchase] = Free]
  /\ UNCHANGED purchase /\ OnlyVerifier /\ NoFault

ScheduleRetry(v) ==
  /\ verifier[v].at = "retry"
  /\ rowLock[verifier[v].purchase] = Free
  /\ TryAgain(verifier[v].purchase)
  /\ Answered(v)
  /\ UNCHANGED rowLock /\ OnlyVerifier /\ NoFault

\* The reconciler reads the purchase again and releases only its own unchanged lease.
Release(v) ==
  /\ verifier[v].at = "release"
  /\ LET o == verifier[v].purchase IN
       /\ rowLock[o] = Free
       /\ purchase' = IF purchase[o].next # v THEN purchase
                      ELSE [purchase EXCEPT ![o].next =
                              IF purchase[o].fulfilled \/ purchase[o].linkStatus = "cancelled"
                                THEN Unscheduled ELSE Due]
  /\ verifier' = [verifier EXCEPT ![v] = Resting]
  /\ UNCHANGED rowLock /\ OnlyVerifier /\ NoFault

Unlocked(v) == [o \in Purchase |-> IF rowLock[o] = v THEN Free ELSE rowLock[o]]

\* Razorpay or the database fails: before the receipt the verification ends, after it
\* the catch block schedules a retry.  A transaction rolls back.
VerifierFails(v) ==
  /\ \/ verifier[v].at \in {"fetch", "receipt"} /\ Answered(v)
     \/ verifier[v].at \in {"capture", "lock", "fulfil"} /\ Moved(v, "retry")
  /\ rowLock' = Unlocked(v)
  /\ UNCHANGED purchase /\ OnlyVerifier /\ Fault

VerifierDies(v) ==
  /\ verifier[v].at # "idle"
  /\ verifier' = [verifier EXCEPT ![v] = Resting]
  /\ rowLock' = Unlocked(v)
  /\ UNCHANGED purchase /\ OnlyVerifier /\ Fault

VerifyLinkStep(v) ==
  \/ FetchLink(v) \/ RecordReceipt(v) \/ CheckCapture(v) \/ LockPurchase(v)
  \/ Activate(v) \/ RefuseActivation(v) \/ ScheduleRetry(v) \/ Release(v)
-----------------------------------------------------------------------------
(***************************************************************************)
(* Administrators.                                                         *)
(***************************************************************************)
OnlyPlans == UNCHANGED <<purchase, rowLock, buyer, links, verifier>>

\* planAssignment.updateUser: a paid plan, charged and active at once.
Assign(m) ==
  /\ Ask(m)
  /\ TransferFee(fee)
  /\ charged' = [charged EXCEPT ![m] = @ + fee]
  /\ Replace(m, [NoPlanYet EXCEPT !.status = "COMPLETED", !.active = TRUE, !.fee = fee])
  /\ UNCHANGED <<fee, requests>> /\ OnlyPlans

\* cancelSubscriptionPlan: one update by id that takes no other lock.
CancelPlan(k, p) ==
  /\ Ask(k)
  /\ plan[p].status # "none"
  /\ plan' = [plan EXCEPT ![p].status = "CANCELLED", ![p].active = FALSE]
  /\ UNCHANGED <<walletVars, assigned, fee, charged, requests>> /\ OnlyPlans

\* suspendUserPlan: the active plan is read, and written by id later.
ReadForSuspension(k) ==
  /\ Ask(k)
  /\ \E p \in ActivePlans : suspended' = [suspended EXCEPT ![k] = p]
  /\ UNCHANGED <<walletVars, plan, assigned, fee, charged, extension, bought>> /\ OnlyPlans

SuspendPlan(k) ==
  /\ suspended[k] # NoPlan
  /\ plan' = [plan EXCEPT ![suspended[k]].status = "EXPIRED", ![suspended[k]].active = FALSE]
  /\ suspended' = [suspended EXCEPT ![k] = NoPlan]
  /\ UNCHANGED <<walletVars, assigned, fee, charged, extension, bought>> /\ OnlyPlans /\ NoFault

\* Mutant of MayResume: whatever else is active.
MayResumeBeside(p) == plan[p].status = "COMPLETED"

MayResume(p) == plan[p].status = "COMPLETED" /\ ActivePlans \subseteq {p}

\* superAdminUserPlan.changeStatus: suspension keeps the status so that the plan can be
\* resumed, unless another one is active by then.
ChangeStatus(k, p) ==
  /\ Ask(k)
  /\ plan[p].status # "none"
  /\ \/ /\ plan' = [plan EXCEPT ![p].active = FALSE]
        /\ UNCHANGED assigned
     \/ /\ MayResume(p)
        /\ plan' = [plan EXCEPT ![p].active = TRUE]
        /\ assigned' = p
  /\ UNCHANGED <<walletVars, fee, charged, requests>> /\ OnlyPlans

\* platformPricing.update.
Reprice(k) ==
  /\ Ask(k)
  /\ fee' \in Fees \ {fee}
  /\ UNCHANGED <<walletVars, plan, assigned, charged, requests>> /\ OnlyPlans

\* planAddon: under the locks of the user, the plan and the company; a known key is
\* answered from the saved purchase.
BuyAddon(a) ==
  /\ Ask(a)
  /\ bought[a] = NoPlan
  /\ Transfer(AddonFee)
  /\ \E p \in ActivePlans : bought' = [bought EXCEPT ![a] = p]
  /\ UNCHANGED <<plan, assigned, fee, charged, extension, suspended>> /\ OnlyPlans
-----------------------------------------------------------------------------
(***************************************************************************)
(* Extension of a plan (planExtension.service.ts).                         *)
(***************************************************************************)
OnlyExtension == UNCHANGED <<fee, bought, suspended>> /\ OnlyPlans

\* The client sees the plan and its end (policy), and asks for more days.
RequestExtension(x) ==
  /\ Ask(x)
  /\ \E p \in ActivePlans, d \in Days :
       extension' = [extension EXCEPT ![x].at = "viewed", ![x].plan = p,
                                      ![x].seen = plan[p].days, ![x].days = d]
  /\ UNCHANGED <<walletVars, plan, assigned, charged>> /\ OnlyExtension

\* Whether d more days of p start to cost: past the free days, once per plan.
StartsToCost(p, d) == plan[p].days + d > FreeDays /\ plan[p].extensionFee = NoFee

\* The fee is quoted from a read that takes no lock.
QuoteExtension(x) ==
  /\ extension[x].at = "viewed"
  /\ LET p == extension[x].plan
         may == plan[p].days + extension[x].days <= MaxDays /\ StartsToCost(p, extension[x].days)
     IN extension' = [extension EXCEPT ![x].at = "quoted", ![x].mayCost = may,
                                       ![x].price = IF may THEN fee ELSE 0]
  /\ UNCHANGED <<walletVars, plan, assigned, charged>> /\ OnlyExtension /\ NoFault

\* Mutant of SameEnd: expected_end_date is not compared.
AnyEnd(x) == TRUE

SameEnd(x) == plan[extension[x].plan].days = extension[x].seen

\* What extend demands once it holds the locks of the user and the plan.
Extendable(x) ==
  LET p == extension[x].plan IN
    /\ assigned = p
    /\ plan[p].status = "COMPLETED"
    /\ ActivePlans = {p}
    /\ SameEnd(x)
    /\ plan[p].days + extension[x].days <= MaxDays
    /\ extension[x].mayCost = StartsToCost(p, extension[x].days)

Extend(x) ==
  /\ extension[x].at = "quoted"
  /\ Extendable(x)
  /\ LET p == extension[x].plan IN
       /\ TransferFee(extension[x].price)
       /\ charged' = [charged EXCEPT ![p] = @ + extension[x].price]
       /\ plan' = [plan EXCEPT ![p].days = @ + extension[x].days,
                     ![p].extensionFee = IF extension[x].mayCost THEN extension[x].price ELSE @]
  /\ extension' = [extension EXCEPT ![x].at = "extended"]
  /\ UNCHANGED assigned /\ OnlyExtension /\ NoFault

RefuseExtension(x) ==
  /\ extension[x].at = "quoted"
  /\ ~Extendable(x) \/ (extension[x].price > 0 /\ balance < extension[x].price)
  /\ extension' = [extension EXCEPT ![x].at = "refused"]
  /\ UNCHANGED <<walletVars, plan, assigned, charged>> /\ OnlyExtension /\ NoFault
-----------------------------------------------------------------------------
PlanNext ==
  \/ \E o \in Purchase :
       \/ CreatePurchase(o) \/ PostLink(o) \/ ReceiveLink(o) \/ LoseLinkAnswer(o)
       \/ SaveLink(o) \/ MarkLinkUnknown(o) \/ BuyerDies(o)
       \/ OpenLink(o) \/ CloseLink(o) \/ PayLink(o) \/ CapturePayment(o) \/ WakeUp(o)
       \/ \E v \in Call : StartVerify(v, o)
       \/ \E v \in Sweeper : Claim(v, o)
  \/ \E v \in Verifier : VerifyLinkStep(v) \/ VerifierFails(v) \/ VerifierDies(v)
  \/ \E m \in Manual : Assign(m)
  \/ \E k \in Edit :
       \/ \E p \in Plan : CancelPlan(k, p) \/ ChangeStatus(k, p)
       \/ ReadForSuspension(k) \/ SuspendPlan(k) \/ Reprice(k)
  \/ \E a \in Addon : BuyAddon(a)
  \/ \E x \in Extension :
       RequestExtension(x) \/ QuoteExtension(x) \/ Extend(x) \/ RefuseExtension(x)
-----------------------------------------------------------------------------
(***************************************************************************)
(* Properties.                                                             *)
(***************************************************************************)

\* Whatever purchases, assignments, resumptions and extensions race, at most one plan is
\* active and it is the one users.assigned_plan points to.
ActivePlanIsAssigned == \A p \in Plan : plan[p].active => assigned = p

\* A purchase grants its plan only for a captured payment that is recorded, and a plan
\* bought over a link is never active without having been fulfilled.
FulfilledIsPaid ==
  \A o \in Purchase :
    /\ purchase[o].fulfilled => purchase[o].status = "paid" /\ captured[o]
    /\ plan[o].active => purchase[o].fulfilled

HasBegun(p) == IF p \in Purchase THEN purchase[p].fulfilled ELSE plan[p].status # "none"

\* The ledger of a plan holds the fee that was quoted for it, once, and the fee of its
\* extensions, however often and by whom a purchase is verified, and although the
\* platform fee changes meanwhile.
ChargedAsQuoted ==
  \A p \in Plan :
    charged[p] = (IF HasBegun(p) THEN plan[p].fee ELSE 0)
                 + (IF plan[p].extensionFee = NoFee THEN 0 ELSE plan[p].extensionFee)

\* A recorded payment and a fulfilment are never taken back: neither the late answer of
\* the request that created the link nor a verification that saw it unpaid does.
ReceiptIsFinal ==
  [][\A o \in Purchase : /\ purchase[o].status = "paid" => purchase'[o].status = "paid"
                         /\ purchase[o].fulfilled => purchase'[o].fulfilled]_planVars

\* EXTENSION_POLICY: a plan gets MaxDays at most and costs once, from the day it passes
\* FreeDays; two requests made from the same view of a plan never both succeed.
ExtensionsKeepPolicy ==
  /\ \A p \in Plan : plan[p].days <= MaxDays
                     /\ (plan[p].days > FreeDays <=> plan[p].extensionFee # NoFee)
  /\ \A x, y \in Extension :
       /\ extension[x].at = "extended" /\ extension[y].at = "extended"
       /\ extension[x].plan = extension[y].plan /\ extension[x].seen = extension[y].seen
       => x = y

\* A paid and captured link activates its plan without the browser and without the
\* webhook, whenever the wallet has the quoted fee and nobody cancelled the plan.
PaidLinkActivates ==
  \A o \in Purchase :
    (link[o] = "paid" /\ captured[o] /\ plan[o].status = "pending" /\ balance >= plan[o].fee)
    ~> (plan[o].status # "pending" \/ balance < plan[o].fee)
=============================================================================
