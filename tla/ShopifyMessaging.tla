-------------------------- MODULE ShopifyMessaging --------------------------
(***************************************************************************)
(* Order messages of one Shopify store.  Webhook deliveries of one order   *)
(* event queue a message job for its customer; schedulers claim and send   *)
(* it while the merchant edits the rule or disconnects the store and       *)
(* Shopify asks to erase the customer.  Every handler runs as one          *)
(* transaction under the store's advisory lock; only a send keeps the lock *)
(* while it writes elsewhere and calls Meta.                               *)
(***************************************************************************)
EXTENDS Integers, FiniteSets, FiniteSetsExt

CONSTANTS
  OrderEvent,       \* webhook deliveries of the one order event
  Consented,        \* those whose payload carries the customer's consent
  ShopScheduler,    \* processes that run the message scheduler
  MaxRevisions,     \* edits of the rule
  MaxReconnects,    \* reconnections of the store
  MaxShopFaults,    \* crashes and recoveries of a job whose sender is only slow
  Nobody

ASSUME ShopifyAssumption ==
  /\ Consented \subseteq OrderEvent /\ IsFiniteSet(OrderEvent)
  /\ MaxRevisions \in Nat /\ MaxReconnects \in Nat /\ MaxShopFaults \in Nat
  /\ Nobody \notin ShopScheduler \union OrderEvent

VARIABLES
  shop,         \* shopify_connections.status of the store
  rule,         \* the shopify_whatsapp_rules row
  received,     \* deliveries stored in shopify_events
  shopJob,      \* shopify_whatsapp_jobs, by the delivery that queued it
  outbound,     \* the messages row of each job
  metaCalls,    \* Meta calls made for each job
  erasure,      \* the customers/redact request of the customer
  storeLock,    \* the sender that holds the store's advisory lock
  turn,         \* what each scheduler does
  reconnects, shopFaults

shopifyVars == <<shop, rule, received, shopJob, outbound, metaCalls, erasure, storeLock, turn,
                 reconnects, shopFaults>>

JobRow == [status : {"none", "queued", "skipped", "sending", "sent", "unknown", "cancelled"},
           revision : 0..MaxRevisions, payload : BOOLEAN, hashed : BOOLEAN]
Turn == [step : {"idle", "claimed", "sending", "calling", "answered", "uncertain", "confirmed"},
         of : OrderEvent \union {Nobody}, revision : 0..MaxRevisions]
NoTurn == [step |-> "idle", of |-> Nobody, revision |-> 0]

ShopifyTypeOK ==
  /\ shop \in {"connected", "disconnected"}
  /\ rule \in [enabled : BOOLEAN, revision : 0..MaxRevisions]
  /\ received \subseteq OrderEvent
  /\ shopJob \in [OrderEvent -> JobRow]
  /\ outbound \in [OrderEvent -> {"none", "unconfirmed", "confirmed"}]
  /\ metaCalls \in [OrderEvent -> 0..2]
  /\ erasure \in {"none", "pending", "completed"}
  /\ storeLock \in ShopScheduler \union {Nobody}
  /\ turn \in [ShopScheduler -> Turn]
  /\ reconnects \in 0..MaxReconnects /\ shopFaults \in 0..MaxShopFaults

ShopifyInit ==
  /\ shop = "connected"
  /\ rule = [enabled |-> TRUE, revision |-> 0]
  /\ received = {}
  /\ shopJob = [d \in OrderEvent |-> [status |-> "none", revision |-> 0, payload |-> FALSE,
                                      hashed |-> FALSE]]
  /\ outbound = [d \in OrderEvent |-> "none"]
  /\ metaCalls = [d \in OrderEvent |-> 0]
  /\ erasure = "none"
  /\ storeLock = Nobody
  /\ turn = [s \in ShopScheduler |-> NoTurn]
  /\ reconnects = 0 /\ shopFaults = 0

Unlocked == storeLock = Nobody

CancelQueued == [d \in OrderEvent |-> IF shopJob[d].status = "queued"
                                      THEN [shopJob[d] EXCEPT !.status = "cancelled", !.payload = FALSE]
                                      ELSE shopJob[d]]
-----------------------------------------------------------------------------
(***************************************************************************)
(* Shopify's webhooks.  A busy store answers 503 and Shopify repeats the   *)
(* delivery, which is stored once.                                         *)
(***************************************************************************)
\* Mutant: the job is keyed by the delivery.
QueuedByDelivery == FALSE

\* The rule and the order event make the key of a job: a second delivery queues none.
AlreadyQueued == \E d \in OrderEvent : shopJob[d].status # "none"

ReceiveOrder(d) ==
  /\ Unlocked
  /\ d \notin received /\ shop = "connected" /\ erasure = "none"
  /\ received' = received \union {d}
  /\ shopJob' = IF rule.enabled /\ ~AlreadyQueued
                THEN [shopJob EXCEPT ![d] =
                        [status |-> IF d \in Consented THEN "queued" ELSE "skipped",
                         revision |-> rule.revision, payload |-> d \in Consented, hashed |-> TRUE]]
                ELSE shopJob
  /\ UNCHANGED <<shop, rule, outbound, metaCalls, erasure, storeLock, turn, reconnects, shopFaults>>

RequestErasure ==
  /\ Unlocked
  /\ erasure = "none"
  /\ erasure' = "pending"
  /\ UNCHANGED <<shop, rule, received, shopJob, outbound, metaCalls, storeLock, turn,
                 reconnects, shopFaults>>

\* Privacy maintenance erases the customer's jobs and the messages sent for them.
MaintainPrivacy ==
  /\ Unlocked
  /\ erasure = "pending"
  /\ erasure' = "completed"
  /\ LET erased == {d \in OrderEvent : shopJob[d].hashed} IN
       /\ outbound' = [d \in OrderEvent |-> IF d \in erased THEN "none" ELSE outbound[d]]
       /\ shopJob' = [d \in OrderEvent |->
                        IF d \in erased THEN [shopJob[d] EXCEPT !.status = "cancelled",
                                                !.payload = FALSE, !.hashed = FALSE]
                        ELSE shopJob[d]]
  /\ UNCHANGED <<shop, rule, received, metaCalls, storeLock, turn, reconnects, shopFaults>>
-----------------------------------------------------------------------------
(***************************************************************************)
(* The merchant.                                                           *)
(***************************************************************************)
SaveRule(enabled) ==
  /\ Unlocked
  /\ enabled => shop = "connected"
  /\ rule.revision < MaxRevisions
  /\ rule' = [enabled |-> enabled, revision |-> rule.revision + 1]
  /\ shopJob' = IF enabled THEN shopJob ELSE CancelQueued
  /\ UNCHANGED <<shop, received, outbound, metaCalls, erasure, storeLock, turn, reconnects, shopFaults>>

\* The merchant disconnects the store or uninstalls the app from it.
Disconnect ==
  /\ Unlocked
  /\ shop = "connected"
  /\ shop' = "disconnected"
  /\ shopJob' = CancelQueued
  /\ UNCHANGED <<rule, received, outbound, metaCalls, erasure, storeLock, turn, reconnects, shopFaults>>

Reconnect ==
  /\ Unlocked
  /\ shop = "disconnected" /\ reconnects < MaxReconnects
  /\ shop' = "connected"
  /\ reconnects' = reconnects + 1
  /\ UNCHANGED <<rule, received, shopJob, outbound, metaCalls, erasure, storeLock, turn, shopFaults>>
-----------------------------------------------------------------------------
(***************************************************************************)
(* The scheduler.                                                          *)
(***************************************************************************)
GoOn(s, step) == turn' = [turn EXCEPT ![s].step = step]

ClaimOrderJob(s, d) ==
  /\ turn[s].step = "idle"
  /\ shopJob[d].status = "queued"
  /\ shopJob' = [shopJob EXCEPT ![d].status = "sending"]
  /\ turn' = [turn EXCEPT ![s] = [step |-> "claimed", of |-> d, revision |-> shopJob[d].revision]]
  /\ UNCHANGED <<shop, rule, received, outbound, metaCalls, erasure, storeLock, reconnects, shopFaults>>

\* Mutant: the erasure requests are not looked up before a send.
PermittedByMerchant(s) ==
  shop = "connected" /\ rule.enabled /\ rule.revision = turn[s].revision

Permitted(s) ==
  /\ shop = "connected"
  /\ rule.enabled /\ rule.revision = turn[s].revision
  /\ erasure = "none"

\* Under the store's lock a job that is no longer being sent is left alone; what the store,
\* the rule or the customer forbids is cancelled, and so is a job that waited too long; a
\* job whose template or recipient is unusable is skipped.
Decline(s) ==
  LET d == turn[s].of IN
  /\ turn[s].step = "claimed" /\ Unlocked
  /\ turn' = [turn EXCEPT ![s] = NoTurn]
  /\ \/ shopJob[d].status # "sending" /\ shopJob' = shopJob
     \/ /\ shopJob[d].status = "sending"
        /\ \E verdict \in {"cancelled"} \union (IF Permitted(s) THEN {"skipped"} ELSE {}) :
             shopJob' = [shopJob EXCEPT ![d].status = verdict, ![d].payload = FALSE]
  /\ UNCHANGED <<shop, rule, received, outbound, metaCalls, erasure, storeLock, reconnects, shopFaults>>

\* The transaction goes on into the send, and keeps the lock.
BeginSend(s) ==
  /\ turn[s].step = "claimed" /\ Unlocked
  /\ shopJob[turn[s].of].status = "sending" /\ outbound[turn[s].of] = "none" /\ Permitted(s)
  /\ storeLock' = s
  /\ GoOn(s, "sending")
  /\ UNCHANGED <<shop, rule, received, shopJob, outbound, metaCalls, erasure, reconnects, shopFaults>>

\* The messages row is committed on a connection of its own; without it there is no call.
InsertMessage(s) ==
  /\ turn[s].step = "sending"
  /\ \/ outbound' = [outbound EXCEPT ![turn[s].of] = "unconfirmed"] /\ GoOn(s, "calling")
     \/ outbound' = outbound /\ GoOn(s, "uncertain")
  /\ UNCHANGED <<shop, rule, received, shopJob, metaCalls, erasure, storeLock, reconnects, shopFaults>>

\* Meta accepts the message, or refuses it, or its answer is lost.
CallMeta(s) ==
  /\ turn[s].step = "calling"
  /\ metaCalls' = [metaCalls EXCEPT ![turn[s].of] = IF @ < 2 THEN @ + 1 ELSE @]
  /\ GoOn(s, "answered") \/ GoOn(s, "uncertain")
  /\ UNCHANGED <<shop, rule, received, shopJob, outbound, erasure, storeLock, reconnects, shopFaults>>

SaveWamid(s) ==
  /\ turn[s].step = "answered"
  /\ \/ outbound' = [outbound EXCEPT ![turn[s].of] = "confirmed"] /\ GoOn(s, "confirmed")
     \/ outbound' = outbound /\ GoOn(s, "uncertain")
  /\ UNCHANGED <<shop, rule, received, shopJob, metaCalls, erasure, storeLock, reconnects, shopFaults>>

FinishJob(s) ==
  /\ turn[s].step \in {"confirmed", "uncertain"}
  /\ shopJob' = [shopJob EXCEPT ![turn[s].of].status =
                   IF turn[s].step = "confirmed" THEN "sent" ELSE "unknown"]
  /\ storeLock' = Nobody
  /\ turn' = [turn EXCEPT ![s] = NoTurn]
  /\ UNCHANGED <<shop, rule, received, outbound, metaCalls, erasure, reconnects, shopFaults>>

\* The transaction of a crashed sender is rolled back and its lock released.
CrashSender(s) ==
  /\ turn[s].step # "idle" /\ shopFaults < MaxShopFaults
  /\ shopFaults' = shopFaults + 1
  /\ turn' = [turn EXCEPT ![s] = NoTurn]
  /\ storeLock' = IF storeLock = s THEN Nobody ELSE storeLock
  /\ UNCHANGED <<shop, rule, received, shopJob, outbound, metaCalls, erasure, reconnects>>

\* A job in "sending" for five minutes: its sender died, or (a fault) only waits.
RecoverStaleJob(d) ==
  /\ Unlocked
  /\ shopJob[d].status = "sending"
  /\ \/ (\A s \in ShopScheduler : turn[s].of # d) /\ shopFaults' = shopFaults
     \/ /\ \E s \in ShopScheduler : turn[s].of = d
        /\ shopFaults < MaxShopFaults /\ shopFaults' = shopFaults + 1
  /\ shopJob' = [shopJob EXCEPT ![d].status =
                   IF outbound[d] = "confirmed" THEN "sent" ELSE "unknown"]
  /\ UNCHANGED <<shop, rule, received, outbound, metaCalls, erasure, storeLock, turn, reconnects>>

SchedulerStep(s) ==
  \/ \E d \in OrderEvent : ClaimOrderJob(s, d)
  \/ Decline(s) \/ BeginSend(s) \/ InsertMessage(s) \/ CallMeta(s) \/ SaveWamid(s) \/ FinishJob(s)

ShopifyNext ==
  \/ \E d \in OrderEvent : ReceiveOrder(d) \/ RecoverStaleJob(d)
  \/ RequestErasure \/ MaintainPrivacy \/ Disconnect \/ Reconnect
  \/ \E enabled \in BOOLEAN : SaveRule(enabled)
  \/ \E s \in ShopScheduler : SchedulerStep(s) \/ CrashSender(s)

ShopifySpec == ShopifyInit /\ [][ShopifyNext]_shopifyVars
-----------------------------------------------------------------------------
(***************************************************************************)
(* Properties.                                                             *)
(***************************************************************************)
\* Meta is called at most once for an order event, however often Shopify delivers it,
\* whichever schedulers crash or are overtaken by the recovery, and whatever the merchant
\* does to the rule and the store meanwhile.
OrderSentOnce == MapThenSumSet(LAMBDA d : metaCalls[d], OrderEvent) <= 1

\* Once Shopify's request to erase the customer is acknowledged no call to Meta is under
\* way or follows, and when it is reported completed neither a job nor a message row
\* keeps anything of the customer.
NothingAfterErasure ==
  /\ erasure # "none" => \A s \in ShopScheduler : turn[s].step \in {"idle", "claimed"}
  /\ erasure = "completed" =>
       \A d \in OrderEvent : ~shopJob[d].payload /\ ~shopJob[d].hashed /\ outbound[d] = "none"
=============================================================================
