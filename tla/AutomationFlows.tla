-------------------------- MODULE AutomationFlows ---------------------------
(***************************************************************************)
(* One automation flow.  A provider's webhook stores a receipt and, while  *)
(* the flow is active, queues a run of its actions; the owner queues test  *)
(* runs on a stored receipt.  The workers claim runs with SKIP LOCKED and  *)
(* carry their actions out one after another, some of them writes at a     *)
(* provider that cannot be undone, while the owner edits, stops or deletes *)
(* the flow, receipts expire and the customer is erased.  Every handler of *)
(* the API is one transaction under the lock of the flow's row.            *)
(***************************************************************************)
EXTENDS Integers, Sequences, FiniteSets, FiniteSetsExt

CONSTANTS
  MaxReceipts,      \* rows that deliveries of the one event at the provider could make
  Request,          \* request ids of test runs
  Script,           \* lists of actions the owner may save, each "read" or "write"
  Runner,           \* worker processes
  FlowLoads,        \* the workers that run, the test runs asked for, and the faults: crashes,
                    \* failed writes to the database, slow workers taken for dead
  NoFlowRun

Receipt == 1..MaxReceipts
FlowRun == Receipt \union Request

ASSUME AutomationAssumption ==
  /\ Script # {} /\ \A s \in Script : s \in Seq({"read", "write"})
  /\ IsFiniteSet(Script) /\ MaxReceipts \in Nat
  /\ \A load \in FlowLoads : load.replicas \subseteq Runner /\ load.tests \subseteq Request
                             /\ load.faults \in Nat
  /\ Receipt \intersect Request = {} /\ NoFlowRun \notin FlowRun

VARIABLES
  flow,          \* the automation_flows row
  receipt,       \* automation_events, in the order of their insertion
  tombstone,     \* the customer is in shopify_redactions
  flowRun,       \* automation_runs: a receipt's own run, and test runs by request id
  written,       \* effects each action of each run has had at the provider
  runner,        \* what each worker process does, and its list of results
  runnerFaults   \* those still to come

automationVars == <<flow, receipt, tombstone, flowRun, written, runner, runnerFaults>>

ActionNo == 1..Max({Len(s) : s \in Script})
Saved == Script \union {<<>>}
Result == {"running", "succeeded", "failed", "requires_review"}
Results == UNION {[1..n -> Result] : n \in {0} \union ActionNo}
NoRow == [status |-> "none", receipt |-> NoFlowRun, actions |-> <<>>, results |-> <<>>]
IdleRunner == [at |-> "idle", of |-> NoFlowRun, results |-> <<>>]

AutomationTypeOK ==
  /\ flow \in [status : {"draft", "active", "inactive"}, deleted : BOOLEAN, trigger : BOOLEAN,
               signed : BOOLEAN, actions : Saved]
  /\ receipt \in [Receipt -> {"none", "held", "expired", "gone"}]
  /\ tombstone \in BOOLEAN
  /\ flowRun \in [FlowRun -> [status : {"unasked", "none", "queued", "running", "succeeded",
                                        "failed", "requires_review", "cancelled", "gone"},
                              receipt : Receipt \union {NoFlowRun}, actions : Saved,
                              results : Results]]
  /\ written \in [FlowRun -> [ActionNo -> 0..2]]
  /\ runner \in [Runner -> [at : {"absent", "idle", "claimed", "ready", "begun", "answered",
                                  "failing", "doubting"},
                            of : FlowRun \union {NoFlowRun}, results : Results]]
  /\ runnerFaults \in Nat

AutomationInit ==
  /\ flow = [status |-> "draft", deleted |-> FALSE, trigger |-> FALSE, signed |-> FALSE,
             actions |-> <<>>]
  /\ receipt = [d \in Receipt |-> "none"]
  /\ tombstone = FALSE
  /\ written = [r \in FlowRun |-> [i \in ActionNo |-> 0]]
  /\ \E load \in FlowLoads :
       /\ flowRun = [r \in FlowRun |-> IF r \in Receipt \union load.tests THEN NoRow
                                       ELSE [NoRow EXCEPT !.status = "unasked"]]
       /\ runner = [w \in Runner |-> IF w \in load.replicas THEN IdleRunner
                                     ELSE [IdleRunner EXCEPT !.at = "absent"]]
       /\ runnerFaults = load.faults
-----------------------------------------------------------------------------
(***************************************************************************)
(* The owner.                                                              *)
(***************************************************************************)
OwnerStops == UNCHANGED <<receipt, tombstone, written, runner, runnerFaults>>

Editable == ~flow.deleted /\ flow.status # "active"

\* A new or replaced trigger loses the signing secret of the old one.
SaveSteps(actions, trigger) ==
  /\ Editable
  /\ \E kept \in BOOLEAN :
       /\ kept => trigger = flow.trigger
       /\ flow' = [flow EXCEPT !.actions = actions, !.trigger = trigger, !.signed = @ /\ kept]
  /\ UNCHANGED flowRun /\ OwnerStops

\* By the owner, or on the way to a subscription at the store.
ConfigureWebhook ==
  /\ Editable /\ flow.trigger
  /\ flow' = [flow EXCEPT !.signed = TRUE]
  /\ UNCHANGED flowRun /\ OwnerStops

UnsubscribeWebhook ==
  /\ Editable /\ flow.trigger
  /\ flow' = [flow EXCEPT !.signed = FALSE]
  /\ UNCHANGED flowRun /\ OwnerStops

Ready == flow.trigger /\ flow.actions # <<>>

SetFlowStatus(status) ==
  /\ ~flow.deleted
  /\ status = "active" => Ready /\ flow.signed
  /\ flow' = [flow EXCEPT !.status = status]
  /\ UNCHANGED flowRun /\ OwnerStops

RemoveFlow ==
  /\ ~flow.deleted
  /\ flow' = [flow EXCEPT !.deleted = TRUE, !.status = "inactive"]
  /\ flowRun' = [r \in FlowRun |-> IF flowRun[r].status = "queued"
                                   THEN [flowRun[r] EXCEPT !.status = "cancelled"] ELSE flowRun[r]]
  /\ OwnerStops

QueueRun(r, d) ==
  flowRun' = [flowRun EXCEPT ![r] = [status |-> "queued", receipt |-> d, actions |-> flow.actions,
                                     results |-> <<>>]]

\* A repeated request finds its run.
TestRun(q, d) ==
  /\ ~flow.deleted /\ Ready
  /\ receipt[d] = "held" /\ flowRun[q].status = "none"
  /\ QueueRun(q, d)
  /\ UNCHANGED flow /\ OwnerStops
-----------------------------------------------------------------------------
(***************************************************************************)
(* Receipts.                                                               *)
(***************************************************************************)
\* Mutant: every delivery is an event of its own.
AlwaysUnseen == TRUE

\* The event's id at the provider is stored once; it is not delivered again after the month
\* a receipt is kept, and not accepted again after the customer was erased.
Unseen == \A d \in Receipt : receipt[d] = "none"

NextReceipt(d) == receipt[d] = "none" /\ \A e \in 1..d - 1 : receipt[e] # "none"

ReceiveWebhook(d) ==
  /\ ~flow.deleted /\ flow.signed /\ flow.trigger /\ ~tombstone
  /\ Unseen /\ NextReceipt(d)
  /\ receipt' = [receipt EXCEPT ![d] = "held"]
  /\ IF flow.status = "active" THEN QueueRun(d, d) ELSE UNCHANGED flowRun
  /\ UNCHANGED <<flow, tombstone, written, runner, runnerFaults>>

ReceiptExpires(d) ==
  /\ receipt[d] = "held"
  /\ receipt' = [receipt EXCEPT ![d] = "expired"]
  /\ UNCHANGED <<flow, tombstone, flowRun, written, runner, runnerFaults>>

\* The runs of a receipt are deleted with it.
DropReceipts(dropped) ==
  /\ receipt' = [d \in Receipt |-> IF d \in dropped THEN "gone" ELSE receipt[d]]
  /\ flowRun' = [r \in FlowRun |-> IF flowRun[r].receipt \in dropped
                                   THEN [flowRun[r] EXCEPT !.status = "gone"] ELSE flowRun[r]]

DeleteExpired ==
  /\ \E d \in Receipt : receipt[d] = "expired"
  /\ DropReceipts({d \in Receipt : receipt[d] = "expired"})
  /\ UNCHANGED <<flow, tombstone, written, runner, runnerFaults>>

\* The store's privacy maintenance.
EraseCustomer ==
  /\ ~tombstone
  /\ tombstone' = TRUE
  /\ DropReceipts({d \in Receipt : receipt[d] \in {"held", "expired"}})
  /\ UNCHANGED <<flow, written, runner, runnerFaults>>
-----------------------------------------------------------------------------
(***************************************************************************)
(* The worker.                                                             *)
(***************************************************************************)
Actions(w) == flowRun[runner[w].of].actions
Begun(w) == Len(runner[w].results)
Writing(w) == Actions(w)[Begun(w)] = "write"

ToStep(w, at) == runner' = [runner EXCEPT ![w].at = at]
Mark(results, result) == [results EXCEPT ![Len(results)] = result]

\* The worker writes by id, whatever became of the row's status, and misses a deleted row.
Persist(r, status, results) ==
  flowRun' = IF flowRun[r].status = "gone" THEN flowRun
             ELSE [flowRun EXCEPT ![r].status = status, ![r].results = results]

PersistProgress(r, results) == Persist(r, flowRun[r].status, results)

FlowTurnOnly == UNCHANGED <<flow, receipt, tombstone, runnerFaults>>

ClaimFlowRun(w, r) ==
  /\ runner[w].at = "idle" /\ flowRun[r].status = "queued"
  /\ flowRun' = [flowRun EXCEPT ![r].status = "running"]
  /\ runner' = [runner EXCEPT ![w] = [at |-> "claimed", of |-> r, results |-> <<>>]]
  /\ UNCHANGED written /\ FlowTurnOnly

\* A deleted flow runs no action; one that is not active only those of test runs.
Dismissed(w) == flow.deleted \/ (runner[w].of \in Receipt /\ flow.status # "active")

More(w) == runner[w].at = "ready" /\ Begun(w) < Len(Actions(w))

Held(w) == receipt[flowRun[runner[w].of].receipt] = "held"

CancelRun(w) ==
  /\ Dismissed(w)
  /\ runner[w].at = "claimed" \/ (More(w) /\ Held(w))
  /\ Persist(runner[w].of, "cancelled", runner[w].results)
  /\ runner' = [runner EXCEPT ![w] = IdleRunner]
  /\ UNCHANGED written /\ FlowTurnOnly

\* Every action is looked over before the first write; an account, a connection or a
\* mapping that is not usable fails the run, with a result for the action concerned.
Preflight(w) ==
  /\ runner[w].at = "claimed" /\ ~Dismissed(w)
  /\ \/ Held(w) /\ ToStep(w, "ready")
     \/ ToStep(w, "failing")
     \/ Held(w) /\ runner' = [runner EXCEPT ![w].at = "failing", ![w].results = <<"failed">>]
  /\ UNCHANGED <<flowRun, written>> /\ FlowTurnOnly

\* The account, the receipt and the flow are looked up again before each action.
BeginAction(w) ==
  LET results == Append(runner[w].results, "running") IN
  /\ More(w)
  /\ \/ /\ ~Dismissed(w) /\ Held(w)
        /\ runner' = [runner EXCEPT ![w].at = "begun", ![w].results = results]
        /\ PersistProgress(runner[w].of, results)
     \/ ToStep(w, "failing") /\ UNCHANGED flowRun
  /\ UNCHANGED written /\ FlowTurnOnly

RefuseAction(w) ==
  /\ runner[w].at = "begun"
  /\ ToStep(w, "failing")
  /\ UNCHANGED <<flowRun, written>> /\ FlowTurnOnly

\* The provider carries a write out or refuses it; an error, a lost answer or one of an
\* unusable form leaves the worker in doubt.
ExecuteAction(w) ==
  LET r == runner[w].of IN
  /\ runner[w].at = "begun"
  /\ IF Writing(w)
     THEN \/ /\ written' = [written EXCEPT ![r][Begun(w)] = IF @ < 2 THEN @ + 1 ELSE @]
             /\ ToStep(w, "answered") \/ ToStep(w, "doubting")
          \/ UNCHANGED written /\ ToStep(w, "doubting")
     ELSE UNCHANGED written /\ (ToStep(w, "answered") \/ ToStep(w, "failing"))
  /\ UNCHANGED flowRun /\ FlowTurnOnly

SaveAnswer(w) ==
  LET results == Mark(runner[w].results, "succeeded") IN
  /\ runner[w].at = "answered"
  /\ runner' = [runner EXCEPT ![w].at = "ready", ![w].results = results]
  /\ PersistProgress(runner[w].of, results)
  /\ UNCHANGED written /\ FlowTurnOnly

FinishRun(w) ==
  /\ runner[w].at = "ready" /\ ~More(w)
  /\ Persist(runner[w].of, "succeeded", runner[w].results)
  /\ runner' = [runner EXCEPT ![w] = IdleRunner]
  /\ UNCHANGED written /\ FlowTurnOnly

\* Mutant: a failed run is failed, whatever was being written.
VerdictOnError(at) == "failed"

Verdict(at) == IF at = "doubting" THEN "requires_review" ELSE "failed"

EndFailedRun(w) ==
  LET results == runner[w].results
      verdict == Verdict(runner[w].at)
      open    == results # <<>> /\ results[Len(results)] = "running" IN
  /\ runner[w].at \in {"failing", "doubting"}
  /\ Persist(runner[w].of, verdict, IF open THEN Mark(results, verdict) ELSE results)
  /\ runner' = [runner EXCEPT ![w] = IdleRunner]
  /\ UNCHANGED written /\ FlowTurnOnly
-----------------------------------------------------------------------------
(***************************************************************************)
(* Faults and recovery.                                                    *)
(***************************************************************************)
RunnerFault == runnerFaults > 0 /\ runnerFaults' = runnerFaults - 1

CrashRunner(w) ==
  /\ runner[w].at \notin {"idle", "absent"} /\ RunnerFault
  /\ runner' = [runner EXCEPT ![w] = IdleRunner]
  /\ UNCHANGED <<flow, receipt, tombstone, flowRun, written>>

\* A write to the run's row fails: before an action or after its answer, as the run is
\* cancelled or ends, in its handler.
LosePersist(w) ==
  /\ RunnerFault
  /\ \/ /\ runner[w].at = "answered"
        /\ runner' = [runner EXCEPT ![w].at = IF Writing(w) THEN "doubting" ELSE "failing",
                                    ![w].results = Mark(@, "succeeded")]
     \/ /\ More(w) /\ Held(w) /\ ~Dismissed(w)
        /\ runner' = [runner EXCEPT ![w].at = "failing", ![w].results = Append(@, "running")]
     \/ /\ runner[w].at = "ready" \/ (runner[w].at = "claimed" /\ Dismissed(w))
        /\ ToStep(w, "failing")
     \/ runner[w].at \in {"failing", "doubting"} /\ runner' = [runner EXCEPT ![w] = IdleRunner]
  /\ UNCHANGED <<flow, receipt, tombstone, flowRun, written>>

\* Mutant: an interrupted run is queued again.
RecoveredToQueue == "queued"

Recovered == "requires_review"

\* A run that made no progress for fifteen minutes, longer than a live worker takes; that
\* a worker is only slow is a fault.
RecoverStaleRun(r) ==
  /\ flowRun[r].status = "running"
  /\ IF \E w \in Runner : runner[w].of = r THEN RunnerFault ELSE UNCHANGED runnerFaults
  /\ flowRun' = [flowRun EXCEPT ![r].status = Recovered]
  /\ UNCHANGED <<flow, receipt, tombstone, written, runner>>
-----------------------------------------------------------------------------
OwnerOfFlow ==
  \/ \E actions \in Script, trigger \in BOOLEAN : SaveSteps(actions, trigger)
  \/ ConfigureWebhook \/ UnsubscribeWebhook \/ RemoveFlow
  \/ \E status \in {"active", "inactive"} : SetFlowStatus(status)
  \/ \E q \in Request, d \in Receipt : TestRun(q, d)

RunnerStep(w) ==
  \/ \E r \in FlowRun : ClaimFlowRun(w, r)
  \/ CancelRun(w) \/ Preflight(w) \/ BeginAction(w) \/ RefuseAction(w) \/ ExecuteAction(w)
  \/ SaveAnswer(w) \/ FinishRun(w) \/ EndFailedRun(w)

AutomationNext ==
  \/ OwnerOfFlow
  \/ \E d \in Receipt : ReceiveWebhook(d) \/ ReceiptExpires(d)
  \/ DeleteExpired \/ EraseCustomer
  \/ \E r \in FlowRun : RecoverStaleRun(r)
  \/ \E w \in Runner : RunnerStep(w) \/ CrashRunner(w) \/ LosePersist(w)

AutomationSpec == AutomationInit /\ [][AutomationNext]_automationVars
-----------------------------------------------------------------------------
(***************************************************************************)
(* Properties.                                                             *)
(***************************************************************************)
\* An action of a run takes effect at the provider at most once, and only one delivery of
\* an event does: no crash, lost answer, recovery or repeated webhook makes the runner
\* write a second time.
WrittenOnce ==
  /\ \A r \in FlowRun, i \in ActionNo : written[r][i] <= 1
  /\ \A i \in ActionNo : Cardinality({d \in Receipt : written[d][i] > 0}) <= 1

\* A run is shown as succeeded, failed or cancelled only with the truth about its writes:
\* each that took effect is listed as succeeded.  Every doubt, be it from a lost answer, a
\* crash or a failed write to the run's row, is shown as a run that requires review.
SettledRunsAreCertain ==
  \A r \in FlowRun, i \in ActionNo :
    flowRun[r].status \in {"succeeded", "failed", "cancelled"} /\ written[r][i] > 0 =>
      i <= Len(flowRun[r].results) /\ flowRun[r].results[i] = "succeeded"
=============================================================================
