# Verification of the Soft7 WhatsApp dashboard

TLA+ models of the backend under `src/src` (Express API, BullMQ workers, PostgreSQL through
Knex, Redis, Meta Graph API), their TLC configurations and TLAPS proofs. The definitions are
translated from the code; `PROJECT.json` maps each of them to its lines.

## 1. The system

The API process serves HTTP and webhooks and runs the cron schedulers; worker processes take
BullMQ jobs. They share PostgreSQL (the truth about campaigns, recipients, messages, money),
Redis (queues, locks, leases, pacing) and Meta (outside). There is no transaction across any
two of them, and no step of a handler is atomic beyond one SQL statement, one SQL transaction
or one Redis script. That is where the hard behaviour is.

| Component | State | Operations | Talks to | Hard behaviour | Correct means |
|---|---|---|---|---|---|
| Campaign recipients (`campaignExecution.processor.ts`, `campaignMessage.model.ts`, `message.service.ts`, `message.model.ts`, `meta.service.ts`) | `campaign_messages`, `messages`, counters, execution lock | select batch, claim, create outbound row, POST, record | Redis lock, Meta, test sends of the API | lock loss, crash between any two awaits, late answers, rows with one number | no number is asked twice; reports are true; attempted rows are never retried |
| Campaign lifecycle (`campaign.service.ts`, `campaign.model.ts`, `campaignScheduler.service.ts`, `campaignRecovery.ts`) | status, `scheduled_at`, BullMQ job, lock | create, start, pause, resume, delete, scheduler tick, reconciliation, execution | queue, worker, database | stale reads before writes, stalls under live workers, restarts | one execution; completion only without pending recipients; every running campaign ends |
| User slots and pacing (`campaignUserSlots.ts`, `campaignPacing.ts`) | Redis sorted set of leases, pacing keys | acquire, refresh, release | executions of all campaigns of an owner | leases outliving or underliving executions | limit per owner |
| Bulk send (`bulkMessageSend.processor.ts`) | job checkpoint | send batch, checkpoint, drain | message service | crash between sends and checkpoint | nothing is replayed |
| Reminders (`reminder.model.ts`, `reminderScheduler.service.ts`, `reminderDelivery.service.ts`) | reminders, attempts, delivery events | claim, send, complete, recover, callback, edit | Meta, message service | recovery against a slow sender, early callbacks | one send per occurrence; the outcome belongs to the attempt |
| Message status and inbound webhooks | `messages`, contacts, opt-outs | status batch, inbound message, keyword | Meta | duplicates, reordering | status never regresses; opt-out is not lost |
| Chatbot (`executeNode.ts`, `chatbotDelay.processor.ts`) | chat sessions, delay tokens | inbound message, delayed node | queue | delayed job racing an inbound message | a session advances once per event |
| Wallet (`credit.service.ts`, `creditTopup.service.ts`) | balance, ledger, top-up orders | credit, debit, refund, settle | Razorpay | unlocked read-modify-write, duplicate webhooks | ledger and balance agree; one credit per payment |
| Plans (`planUsage.service.ts`, `planAssignment.service.ts`, `planAddon.service.ts`, `planExtension.service.ts`, `subscription.service.ts`) | user plans, usage, periods | consume, sync, assign, extend | every creation | check and increment against plan changes | limits hold |
| Company payments and links | orders, links, webhook events | create, verify, expire | Razorpay | retries, replay | one settlement per order |
| Shopify messaging | jobs, rules, redactions | claim, send, recover, erase | Meta, Shopify | erasure against in-flight sends | one send per job; nothing after erasure |
| WABA onboarding | onboarding rows, leases | lease, step, register, finish | Meta | lost lease, uncertain registration | one registration |
| Contact import, contacts | rows, import status, usage | import, create, delete | queue | duplicate jobs, partial batches | each row once |
| Automation flows (`automationFlow.service.ts`, `automationRunner.service.ts`) | flows, receipts, runs and their results | receive, edit, activate, delete, test, claim, execute, recover | Razorpay, Google, Meta, Shopify's privacy maintenance | crash or lost answer around a write, repeated deliveries, edits and erasure under a running worker | no write twice; a run shown as settled is one whose writes are known |
| Database gate, worker drain (`backgroundDatabase.ts`, `drain.ts`) | generation, retry time | check, fail | every background loop | probe overtaken by a failure | no work while closed |
| Media uploads, support chat and sockets, Facebook/Instagram, Google, accounts, templates, HTTP layer | per feature | CRUD, remote calls | Meta, Google | little shared state | not modelled, see section 7 |

## 2. Modules

Five specifications are checked; the other modules are their parts, promises and proofs.

| Module | What it is |
|---|---|
| `AtMostOnceDelivery` | the promise to recipients, with no mention of workers, locks or tables |
| `CampaignSend` | all senders of one campaign, recipient by recipient; implements `AtMostOnceDelivery` |
| `CampaignLifecycle` | one campaign's status, job, executions, requests and scheduler |
| `Billing` | the money of one company: `Wallet` (balance and ledger) shared by `CreditTopup` (Razorpay top-ups) and `PlanPurchase` (payment links, assignments, extensions, add-ons) |
| `BackgroundServices` | `Reminders`, `BulkSend`, `ShopifyMessaging`, `WabaOnboarding`, `ContactImport`, `AutomationFlows`, `DatabaseGate`, side by side |
| `Messaging` | `CampaignSlots`, `Inbox`, `Chatbot`, side by side |
| `CampaignSend_proofs`, `CampaignLifecycle_proofs`, `CampaignSlots_proofs`, `AutomationFlows_proofs`, `Billing_proofs`, `BackgroundServices_proofs`, `Messaging_proofs` | theorems about the module they name; the last three also about the parts it is composed of |
| `FiniteSums` | facts about sums over finite sets, which the money is stated with |
| `MC...` | symmetry sets, workloads, the chatbot's graph and other values for TLC |

The parts of `Billing` change one balance and are interleaved freely. The parts of
`BackgroundServices` and of `Messaging` keep their state in tables and queues of their own and
read nothing of one another, so every behaviour of the system is a shuffle of one behaviour of
each: `service` and `part` name, once and for all, the one whose steps a behaviour shows, and the
others rest in an initial state. That loses no interaction, because there is none, and keeps the
state space a sum instead of a product.

### CampaignSend

`row`, `msg`, `sent_count`, `failed_count` are the database; `lock` is the Redis key;
`exec`, `lockLost`, `batch` are the local variables of `processCampaignExecution`; `phase[s]`
is the program counter of one `sendCampaignMessage` (or test send) and its `MessageService.
sendMessage`; `calls`, `inflight`, `accepted` are what Meta has seen. A send is named by its
caller and its row, and that name is also the id of its `messages` row. Each action ends at
an await; within one await the code's SQL statement or transaction is atomic
(`claimSingleAttempt` is one conditional UPDATE, `createOutbound` holds an advisory lock
around check and insert, `recordSent` is one transaction). A statement may also be committed
while its caller sees an error: those are the two outcomes of `ClaimSingleAttempt`,
`CreateOutbound` and `RecordSent`. `failed_count` and the row are written apart, as in the code.
`DeleteOldMessage` is `CleanupService.cleanupData` as far as messages are concerned.

### CampaignLifecycle

`status`, `due`, `pending` are the campaign row and the number of pending recipients; `job`
and `jobOwner` the BullMQ job whose id is the campaign's; `at[e]`, `ends[e]` the worker's place
and how its job will settle; `op[r]`, `read[r]` a request's next write and the status it read;
`tick`, `tickRead` the scheduler. The scheduler itself calls `startCampaign`, so it is one of
the requesters, as is the request that created the campaign (`Creator`, which adds the job
after its commit). Reads and writes of a request are separate steps, so every write may be
stale. BullMQ is external: an added job with an existing id is ignored, an active job cannot be
removed, only the holder of a job settles or delays it, `maxStalledCount: 0` fails a stalled job
at once. `faults` says how many faults a behaviour may still see and of which kinds.

### CampaignSlots

The Redis sorted set of `campaignUserSlots.ts` for one owner and all his campaigns: `slots` and
`expired` (members whose lease has run out, still in the set until somebody cleans it),
`executionLock` and `campaignJob` per campaign, `run[e]` one execution of
`processCampaignExecution` as far as its lock, its slot and the two heartbeats matter.
`AcquireUserSlot` is the Lua script: it removes expired members, and takes or renews a slot when
there is room. A slot is kept when the job only waits for recipients and released otherwise.

### Wallet, CreditTopup, PlanPurchase, Billing

`Wallet` is `companies.credit_balance`, the balance of the platform and the grants of a super
administrator, which are keyed by a request id. In `CreditTopup` an `order` is created locally,
posted to Razorpay (`qr`), shown and paid; a `verify` request of the browser and the webhooks go
through the same `verifyOrder`: ask for the QR code, list payments, ask for the payment, `Settle`
under the locks of order and company. `job[h]` is the place of such a handler and what it has
read. Webhook events are delivered again until acknowledged. In `PlanPurchase` a `purchase` of a
plan waits for a payment link; the browser, the webhook (which only makes the row due) and the
leased sweeper verify it: `FetchLink`, `RecordReceipt`, `CheckCapture`, `LockPurchase`,
`Activate`. Beside it administrators assign, cancel, suspend, resume and reprice, and users buy
extensions and add-ons from quotes they took earlier. Each transaction is one action with all the
locks it takes; reads outside it are actions of their own.

### Reminders, BulkSend, ShopifyMessaging, WabaOnboarding, ContactImport, AutomationFlows, DatabaseGate

* `Reminders`: rows, attempts, messages and delivery events; `sender[a]` is the process that
  claimed an attempt; a status callback does its three writes (message, event, attempt) one by one
  in any order with the sender's; the owner edits, pauses, resumes and cancels; `RecoverStaleClaim`
  may take the claim of a late sender (a fault) or of a dead one.
* `BulkSend`: the job's checkpoint, each worker's batch and chunk, drains, crashes, lost locks
  and lost databases; a send is accepted, fails at Meta, or is refused before Meta is called
  (`RefuseSend`: an unknown or inactive sender, an invalid number), which the job counts
  as failed and passes over.
* `ShopifyMessaging`: deliveries of one order event, the rule with its revision, jobs, the
  message row, erasure. Every handler is one transaction under the store's advisory lock, except
  a send, which keeps the lock over several awaits.
* `WabaOnboarding`: onboardings as durable rows with a lease, an account that knows its current
  onboarding, the phone at Meta; every Meta call follows a renewal of the lease.
* `ContactImport`: one job, possibly in two executions, the plan's allowance under the owner's
  lock, creations by the API, and by inbound messages, which do not count. The result counts all
  failed rows and names the first of them (`MaxErrors`); the `errors` column, the last hundred while
  the import goes on, is not modelled.
* `AutomationFlows`: `flow` with its trigger, signing secret and actions; a `receipt` of an event
  and the `flowRun` it queues, which keeps the actions of that moment; `runner[w]` is the loop of
  `processNext` with its list of results, which is written to the row at the places of the code,
  whatever the row's status has become. `written` is what the provider did. Erasure by Shopify's
  privacy maintenance is the one thing another service does to it; it takes the receipt and its
  runs, and the module has it as an action of its own.
* `DatabaseGate`: the gate's generation, its timer and probe, the pausing of the BullMQ worker
  and its loop, which may break. The database decides on a probe when its query reaches it
  (`AnswerProbe`); the answer, good or bad, arrives later, when things may have changed.

### Inbox, Chatbot

* `Inbox`: one customer of one number. His messages (`commands`: STOP, START, other) reach the
  webhook at least once, in any order and in any process (`notice`); contacts are found, created,
  deleted; the owner may change the preference; campaigns exclude him when they are created and
  check again before they send; status reports arrive repeated and reordered, with seconds as their
  only order, and some before the wamid is saved.
* `Chatbot`: messages of one customer walk a graph concurrently. An `actor` is an inbound handler
  or the job of a delay token; it holds the conversation it once read (`chat`, `node`, `token`) and
  updates the row by id without a lock. The graph is a constant; the instance has a node of each
  kind.

## 3. Runs

| Run | Instance | Shows |
|---|---|---|
| `CampaignSend_lease` | 2 workers, 2 rows of 1 number, locks may lapse | at most one Meta request per number; reports are true; refinement of `AtMostOnceDelivery` |
| `CampaignSend_healthy` | 2 workers, 2 rows, 1 test send to one of them, chunks of 2, cleanup | counters against rows and final `sent` rows while live workers keep the lock |
| `CampaignSend_cleanup` | 1 worker, 1 row, 1 test send, cleanup | violation, see section 5 |
| `CampaignLifecycle_safety` | 2 recipients; any request and a fault in 2 slots, or a start with a stalled job and a lapsed lock in 1 | completed means nothing pending; one execution |
| `CampaignLifecycle_ends` | 1 slot, 1 recipient; two requests and no fault, or no request and two faults | every running or scheduled campaign ends or is stopped; one with nothing pending is finalized by reconciliation alone |
| `CampaignLifecycle_stopped`, `_reconcile` | 1 fault, 0 or 1 request | violations, see section 5 |
| `Billing_wallet` | 1 top-up, 1 link purchase, 2 manual plans, 2 extensions, 1 add-on, 2 edits, 1 grant, by workload | money is credited, debited and charged once and as quoted; one active plan; a fulfilled purchase is paid; captured payments are honoured in the end |
| `Billing_refund` | 1 top-up, no fault | violation, see section 5 |
| `BackgroundServices_all` | the seven services, see below | their promises under crashes, stalls, lost locks and repeated deliveries |
| `Messaging_all` | slots, inbox and chatbot, see below | limit per owner and its repair; preferences; receipts; a delay is resumed once |
| `Messaging_optout` | 1 command, 1 deletion | violation, see section 5 |

Bounds. Two workers, two rows and one or two numbers are enough for every race of the sender:
a lost lock needs two executions, a shared number two rows, a crash and its successor two
executions of one row. `BatchSize` and `MessageConcurrency` 1 or 2 give both a chunk of rows
in parallel and a batch left over. The sender's own loop is not bounded: crashes and lock
losses may repeat for ever, the claim keeps the state space finite. In `CampaignLifecycle`,
`MaxFaults` bounds crashes, deferrals, failures, stalls and lapses together, `Workloads` says which
clients ask, how many worker slots there are and which faults happen in a behaviour, `Asks` what a
request may be, and a client asks once. One fault already reaches a stalled job under a live worker
that is then restarted; two (the stall and the lapse of its lock) a failed campaign whose last
recipient was claimed after it was marked failed. Two executions that really run side by side, a
lapse with two slots, have 4 million states; there `CompletionIsFinal` (section 6) speaks for them.

`Billing_wallet`: amount 2 makes a partial and a full refund different; fees {1, 2} make a repriced
fee different from the quoted one; 10, 15 and 20 days with 10 free and 30 at most reach both limits
of the extension policy with two extensions. `Workloads` (in `MCBilling`) lists who asks in one
behaviour, so that each pair of rivals meets, but not all at once. `BackgroundServices_all`:
1 reminder with 2 attempts, 1 callback at a time and time 0..2 (an occurrence, its year later);
4 recipients in batches of 2, two at a time, 2 workers and 3 troubles (drain, crash, lost lock);
3 deliveries of one order, 2 of them with consent, 2 schedulers, 2 rule revisions, 1 reconnection,
1 fault; 1 signup with a fault and a retry, or 2 that compete, 2 attempts each; 2 rows and 3 phones
with an allowance of 1 and room for 1 error in the result (50 in the code), 2 executions, 1 creating request, 2 starts, 1 fault; a
flow of a write, another action and a write, carried out for an event by 2 workers with 2 faults, or for
an event and a test run by 1 worker; 2 active jobs and 2 outages. `Messaging_all`: 2 campaigns, 2 executions, limit 1, 1 lapse; 2 webhook requests at once,
and two commands, or one command and a deletion, or one send with three reports within 3 seconds;
3 messages, 2 conversations, 2 pauses with 2 job attempts each, 1 fault, over the 9 nodes of
`MCMessaging`, for a default flow and one with keywords.

Deadlock is checked in the campaign runs. `Billing`, `BackgroundServices` and `Messaging` have
`CHECK_DEADLOCK FALSE`: once everything asked has been answered and every payment settled nothing
is left to happen. What must not stop early there is stated as liveness.

Message contents, pacing, template payloads and costs are left out; deferrals for them are choices.

## 4. Fairness

* `CampaignLifecycle!LiveSpec`: weak fairness of each worker slot (a live process goes on and
  BullMQ hands out waiting jobs), each request in progress, the scheduler tick (cron, every 5 s), the
  end of delays, stalled-job detection of dead workers, the expiry of a dead lock (Redis PX 120 s), and
  that a scheduled time arrives. Faults, crashes and clients have no fairness.
* `Billing!LiveSpec`: a handler or verifier goes on once begun; Razorpay repeats an event until it
  is acknowledged, so some delivery meets a free handler (strong); the sweeper's cron claims a due
  purchase in the end (strong, because its rival may hold it again and again). Buyers, payers and
  administrators have none.
* `Reminders`: senders go on, every tick recovers stale claims. `WabaOnboarding`: setup steps go on,
  leases run out, cron claims what is due (strong: two workers share the onboardings).
  `DatabaseGate`: the gate's timer fires, probes are answered, jobs end. `CampaignSlots`: the
  heartbeat timer fires, and an execution that lost its slot reaches its next check.

Limits met while choosing bounds; the properties claim no more than holds:

* With two faults (a worker crash, then an API crash between removing the failed job and writing
  the new status, `campaign.service.ts:491`), or a fault and a `start` of a failed campaign whose old
  job is still active (`:504`), a campaign stays `running` without a job; `campaignRecovery.ts:21`
  preserves it deliberately. A pause by id may also overwrite a completion (`:744`). `EventuallyStops`
  is claimed where `Calm` holds and no wider.
* Status reports: a callback that comes before the wamid is saved is acknowledged and lost
  (`message.service.ts:606`); a `failed` and a `sent` of the same second are not ordered, and a failure
  stamped before the server's own `sent_at` is ignored (`message.model.ts:415`). `ReceiptsDecide`
  states what is left.
* A STOP is lost if the process dies between storing the message and applying it
  (`message.service.ts:739`): the wamid is known, the repeated delivery does nothing. `LastWordHolds` is
  about the commands that were applied, and the customer writes the next one after the earlier ones
  are handled.
* `credit.service.ts:114`: `debit` and `refund` read and write the balance without a lock; nothing
  calls them, so they are not actions of `Wallet`.
* `contactImport.service.ts`: a row may be reported although its contact exists, and a late
  `markAsFailed` may overwrite a completed job. The result names the first 50 errors only
  (`:225`): with more, a row may be in neither the list nor the report, and what an import promises is
  that the rows its list lacks are counted as failed (`ImportKeepsItsWord`).
* Onboarding: a registration whose answer is lost stays uncertain and waits for the user; two
  onboardings of one account may register with different PINs.
* Plans: a refund between the capture check and the activation of a link is not seen; a
  cancellation (`paymentPlan.service.ts:65`) takes no lock and may meet an activation.
* Automation flows: between the last look at the receipt and the call of the provider a write may
  overtake an erasure or a deactivation (`docs/automation-flows.md:482` says so); and a worker that
  only seemed dead overwrites the review its run was given with what it knows.
* Shopify: an advisory lock ends with its database connection; the model ends it only with a crash.
* Chatbot: conversations are not locked. A handler with an older snapshot moves a paused
  conversation (compare `docs/chatbot-default-flow.md:84`); concurrent keywords may leave two active
  sessions; a process that dies in `executeNode.ts:57` leaves a token without a job. `ResumedOnce`
  is about tokens whose job exists; a job that lost its BullMQ lock and runs twice at once is left
  out. When two messages start the flow over at once, the second finds the conversation the first
  one paused and holds its token; if an HTTP node, a condition or the assistant comes before the
  first pause, it writes this token back after the pause is over, and the retried job resumes it
  again (TLC finds this on the graph message, HTTP, delay). `ResumedOnce` therefore speaks of flows
  with a `PlainOpening`: between the start and the first pause or question they send and tag only.

## 5. Disagreements between code and documents

* `CampaignSend_cleanup`: `POST /admin/cleanup` deletes the message history that the permanent
  no-resend rule of `docs/campaign-no-retry.md` depends on.
* `CampaignLifecycle_stopped`: the scheduler works on a snapshot of due campaigns and
  `startCampaign` accepts a failed one, so a stopped campaign continues without the explicit
  start that document asks for.
* `CampaignLifecycle_reconcile`: between `getState` and `markRunningJobFailed` a start request may
  remove the failed job, schedule the campaign and queue a new job, and a worker set the campaign
  running again; it is marked failed while that new job is being executed (`RestartIsPreserved`).
* `Billing_refund`: a refund webhook that arrives between the fetch of a payment and its first
  settlement finds no order, is acknowledged and never repeated; the payment is credited in full
  (`creditTopup.service.ts:222` against `docs/credit-topups-api.md:70`).
* `Messaging_optout`: `isBlocked` and `excluded` look only at contacts that are not deleted
  (`contactOptOut.service.ts:142`), while `docs/contact-opt-out.md:35` and the migration
  `20260928000003` count deleted records as suppressing.

The campaign document also says a connection failure delays the job by five seconds; the code
delays it by 30 (`campaignExecution.processor.ts:195`), as `docs/campaign-worker.md` says.

## 6. Proofs

`CampaignSend_proofs` holds for every set of workers, test senders and numbers, every finite
set of rows, and all batch sizes. `TypeCorrect`, `ClaimsAreExclusive` and
`AttemptsAreNotRetried` need no more; the others assume `~CleanupRuns`, without which they are
false (section 5). The inductive invariant `IInv` has four parts besides the type:

* `ClaimInv`: a send between its claim and its outcome is the only one of its row, and the row
  is not pending and has no message. Without it `RecordSent` could report a row twice.
* `MessageInv`: at most one outbound row per number, present from before the call; a send about
  to call has the number to itself. This carries `AtMostOneCallPerRecipient`, which alone is
  not inductive: a second send in phase `created` would break it.
* `AcceptInv`: Meta decides only requests it was given, once, and a confirmed send was accepted.
* `SentMeansAccepted`, whose counter part needs that `RecordSent` meets a row without message.

Each part has one step per action that can disturb it. `Implementation` uses the invariant to
show that every step is a step of `AtMostOnceDelivery` or leaves its variables alone. That a
reservation precedes its request and that an attempted row stays so are theorems only
(`ReservationPrecedesRequest`, `AttemptsAreNotRetried`).

`CampaignLifecycle_proofs` holds for any number of worker slots, requests, recipients and faults.
`ExecutionsAreExclusive` rests on `LockInv`, an execution past the lock holds it, because
`OneExecution` says nothing of the lock and is not inductive; both speak of behaviours whose faults
do not include `"lapse"`, and `LapsingKept` shows that this is settled by the initial state.
`CompletionIsFinal` is inductive with the type and holds with lapses too: its proof walks through
every write of `status` and `pending`.

`CampaignSlots_proofs` holds for any finite set of campaigns, any set of executions and any limit.
`LimitIsKept` states `RunningWithinLimit`. That formula counts executions and says nothing of
slots, locks or dead leases, so the inductive invariant `SlotsInv` adds, for behaviours without a lapse:
an execution that is not idle holds the lock of its campaign (so two never share a campaign, and the
members of the sorted set, which are campaigns, count executions); a running one has its campaign in
a slot that has not expired; and the live slots are within the limit, which `AcquisitionIsBounded`
derives from the script's own count.

The counters of a campaign (`CountersNeverExceed`, `SentStaysSent`) need that nobody works on rows but
the holder of the lock. That is `LeaseInv`, proved under `~LeaseCanLapse` as `OwnersWorkAlone`: an
execution that is not idle has the lock, and the rows it has not attempted yet are still pending.
`CountInv` then relates `failed_count` to the failed rows whose worker is past the second of its two
writes, since between them the row is ahead of its counter.

`Billing_proofs` holds for any finite sets of top-ups, purchases, plans, add-ons and grants, any
handlers and verifiers, prices and policies. Each money property speaks of rows; what makes it
inductive is what the interrupted handlers know:

* `TopupInv` (`CreditsAreExact`, `ProcessedRefunds`): a handler that is about to settle has seen a
  captured payment, its view of what was returned is not beyond Razorpay's and not behind its own
  event's total, and a refund event is recorded only after a settlement that covers it.
  `KnowledgeGrows` says that what was learned stays true, so the proof looks at one handler at a time.
* `PlanInv` (`OneActivePlan`, `FulfilmentIsPaid`, `PlansChargedOnce`, `ExtensionPolicyHolds`,
  `ReceiptsAreFinal`): a verifier past the receipt, the capture check and the row lock relies on
  each of the three, and only one of them holds the lock; a request that waits remembers a plan that
  exists; what has not been created has no receipt, no fee and no plan.
* `LedgersBalance` (`MoneyIsAccounted`): both balances as sums over the business rows. Every step
  moves at most one term of one sum and the balance with it (`MoneyMoves`); `FiniteSums` has the facts
  about sums that this takes. Induction over sets is out of reach, so they are proved by choosing a
  smallest set for which they would fail.

`BackgroundServices_proofs` and `Messaging_proofs` first show that the composition gives each part
its own specification (`ServicesAreThemselves`, `PartsAreThemselves`), so that what is proved of a part
holds of the whole. They hold for any sets of processes and any bounds; the parts and why they need more
than their property:

* `BulkSend`: "attempted once" says nothing of where a job stands. `BulkInv` says that a job has one
  worker, whose checkpoint and chunk divide the recipients into those attempted once, by a call or by
  a refusal, and those not attempted yet, that its successes are the accepted ones, and that a job waiting again has neither lost nor repeated any: a worker that lost the lock
  never saves.
* `ShopifyMessaging`: `ShopifyInv` has one job per event; a queued job has not been called and has no
  scheduler; a scheduler calls only under the store's lock; jobs keep the customer's hash until the
  erasure, so the erasure finds them.
* `WabaOnboarding`: `RegisterInv` has at most one worker between the saved doubt and the answer of a
  registration, and a request that may have been accepted is recorded as uncertain or accepted, which
  no claim undoes. `AttemptsInv` bounds the attempts by the faults so far, for the type.
* `ContactImport`: `CreationInv` has whoever creates a contact holding the owner's row since there
  was room; `ProgressInv` has every earlier row of an execution in the list or among the errors it collected;
  `FirstErrors` names all of them when there is room.
* `Reminders`: `VerdictInv` has the callback that will still correct a `sent` which a failed delivery
  contradicts, whichever was written first (`Attended`). `OccurrenceUntaken` follows from attempts
  only ever being made at times that have come.
* `AutomationFlows` (`AutomationFlows_proofs`): `TurnInv` has a worker's own list of results
  truthful but for the action under way; runs not yet claimed have written nothing; a settled run has
  no worker that may still write.
* `DatabaseGate`: only its type (`GateInv`).
* `Inbox`: `CustomerInv` (`LastWordIsObeyed`) says that everything but the customer's newest message
  has been stored, so an old delivery ends at the insert and what is applied is the newest; and while
  nothing was deleted all rows carry the same mark, that of `wish`. `ReportInv` (`ReceiptsAreDecided`)
  says that Meta reports kinds and seconds in order, that what was handled was reported, and what a
  row of each status tells of the reports handled so far (`Tells`); the lemma `Handling` goes
  through every status and kind.
* `Chatbot`: `TalkInv` places every actor; `TokenInv` says that a token belongs to one conversation,
  that whoever else holds a copy of it is still in the opening of the flow, where nothing writes it, and
  that after the flow went on no conversation has it. It is proved for any graph with a plain opening, any messages,
  conversations, pauses, jobs and attempts.

The assumptions are the named ones of the modules. Most say that bounds are naturals, that the values
standing for nobody or nothing are not somebody, and that sets that are counted are finite; three say
more. `ChatbotAssumption` says what a flow is: a graph whose edges lead to nodes of it.
`WorkloadsAssumption` and the loads of `AutomationFlows` and `Inbox` give the shape of what a behaviour
may have, and `PhonesAssumption` gives every row a number. TLC evaluates all of them in the runs.

What stays with TLC: every liveness property (`EventuallyStops`, `ExhaustedIsFinalized`,
`CapturedIsCredited`, `PaidLinkActivates`, `ClaimsAreSettled`, `OnboardingRests`, `WorkerResumes`,
`OverLimitIsRepaired`), which is out of the prover's reach, and the five violations. Every safety
property of a passing run is a theorem. The type invariants of `CampaignSend` and `CampaignLifecycle` are
theorems and no run repeats them.

## 7. Not modelled, and the plan

Media uploads, support chat, Facebook, Instagram, Google, accounts, templates and the HTTP layer
are remote I/O or single-transaction CRUD with little to interleave. Of the modelled components
the `components` of `PROJECT.json` say what is missing; the larger gaps are the pacing of a
sender, media and account events of the webhook, saving a flow while it is walked, product
synchronisation of Shopify, and the parts of a plan other than contacts.

Next, in this order:

1. An abstract wallet that `Billing` implements, and the proof of it from `TopupInv` and `PlanInv`;
   the same for one reminder occurrence.
2. Proofs about what is checked only as a limit of section 4, where a weaker promise can be stated.
3. What surrounds an automation flow: subscriptions at the store, the messages and contacts of a
   WhatsApp action.
