---------------------------- MODULE DatabaseGate ----------------------------
(***************************************************************************)
(* One BullMQ worker behind its database gate.  A timer inspects the       *)
(* database through a probe; a failed probe, or a job that fails on the    *)
(* database, closes the gate for a growing delay and pauses the worker; a  *)
(* good probe opens it for a minute and lets the worker run again.  Times  *)
(* are abstracted to whether retryAt and validUntil have passed.           *)
(***************************************************************************)
EXTENDS Integers

CONSTANTS
  MaxActive,   \* concurrency of the worker
  MaxOutages   \* outages of the database and of Redis

ASSUME GateAssumption == MaxActive \in Nat \ {0} /\ MaxOutages \in Nat

VARIABLES
  database,    \* "up" or "down"
  outages,
  gate,        \* the gate: shut while now < retryAt, valid while now < validUntil,
               \* overtaken when generation moved since the probe in flight began
  inspection,  \* the inspect timer: due, probing (its query is with the database), good or
               \* bad (the answer is on its way back), never again
  bull,        \* the BullMQ worker: paused, its main loop alive
  active,      \* jobs in execution
  hit          \* executions that failed on the database, not yet reported

gateVars == <<database, outages, gate, inspection, bull, active, hit>>

GateTypeOK ==
  /\ database \in {"up", "down"} /\ outages \in 0..MaxOutages
  /\ gate \in [shut : BOOLEAN, valid : BOOLEAN, overtaken : BOOLEAN]
  /\ inspection \in {"due", "probing", "good", "bad", "stopped"}
  /\ bull \in [paused : BOOLEAN, looping : BOOLEAN]
  /\ active \in 0..MaxActive /\ hit \in 0..MaxActive

GateInit ==
  /\ database = "up" /\ outages = 0
  /\ gate = [shut |-> FALSE, valid |-> FALSE, overtaken |-> FALSE]
  /\ inspection \in {"due", "stopped"}  \* "stopped": a process without this worker
  /\ bull = [paused |-> FALSE, looping |-> FALSE]
  /\ active = 0 /\ hit = 0

\* A failure invalidates every earlier good probe and the one in flight; failures during
\* the delay do not prolong it.
ShutGate == [shut |-> TRUE, valid |-> FALSE, overtaken |-> TRUE]

OpenGate == [shut |-> FALSE, valid |-> TRUE, overtaken |-> FALSE]

\* Mutant: a paused worker is taken for one that still runs.
ResumedUnlessPaused ==
  IF bull.looping \/ bull.paused THEN bull ELSE [paused |-> FALSE, looping |-> TRUE]

\* worker.resume() or worker.run(): only once the loop of the paused worker has ended.
Resumed == IF bull.looping THEN bull ELSE [paused |-> FALSE, looping |-> TRUE]

Paused == [bull EXCEPT !.paused = TRUE]

\* What an inspection does that needs no probe.
InspectWithoutProbe ==
  /\ inspection = "due" /\ (gate.shut \/ gate.valid)
  /\ bull' = IF gate.shut THEN Paused ELSE Resumed
  /\ bull' # bull
  /\ UNCHANGED <<database, outages, gate, inspection, active, hit>>

BeginProbe ==
  /\ inspection = "due" /\ ~gate.shut /\ ~gate.valid
  /\ inspection' = "probing"
  /\ gate' = [gate EXCEPT !.overtaken = FALSE]
  /\ UNCHANGED <<database, outages, bull, active, hit>>

\* The database decides on the probe's query; whatever happens to it next, the answer
\* reaches the worker later.
AnswerProbe ==
  /\ inspection = "probing"
  /\ inspection' = IF database = "up" THEN "good" ELSE "bad"
  /\ UNCHANGED <<database, outages, gate, bull, active, hit>>

\* The inspection goes on in the same turn of the event loop as the probe's answer.
ProbeSucceeds ==
  /\ inspection = "good"
  /\ gate' = IF gate.overtaken THEN gate ELSE OpenGate
  /\ bull' = IF gate.overtaken THEN Paused ELSE Resumed
  /\ inspection' = "due"
  /\ UNCHANGED <<database, outages, active, hit>>

ProbeFails ==
  /\ inspection = "bad"
  /\ gate' = ShutGate
  /\ bull' = Paused
  /\ inspection' = "due"
  /\ UNCHANGED <<database, outages, active, hit>>

\* The delay or the minute of a good probe is over.
DelayEnds ==
  /\ gate.shut
  /\ gate' = [gate EXCEPT !.shut = FALSE]
  /\ UNCHANGED <<database, outages, inspection, bull, active, hit>>

ValidityEnds ==
  /\ gate.valid
  /\ gate' = [gate EXCEPT !.valid = FALSE]
  /\ UNCHANGED <<database, outages, inspection, bull, active, hit>>

TakeJob ==
  /\ bull.looping /\ ~bull.paused /\ active + hit < MaxActive
  /\ active' = active + 1
  /\ UNCHANGED <<database, outages, gate, inspection, bull, hit>>

JobEnds ==
  /\ active > 0
  /\ \/ active' = active - 1 /\ hit' = hit
     \/ database = "down" /\ active' = active - 1 /\ hit' = hit + 1
  /\ UNCHANGED <<database, outages, gate, inspection, bull>>

\* The worker's "failed" event, maybe long after the query failed.
ReportFailure ==
  /\ hit > 0
  /\ hit' = hit - 1
  /\ gate' = IF inspection = "stopped" THEN gate ELSE ShutGate
  /\ bull' = IF inspection = "stopped" THEN bull ELSE Paused
  /\ UNCHANGED <<database, outages, inspection, active>>

\* A paused worker's loop ends when its jobs have.
LoopEnds ==
  /\ bull.paused /\ bull.looping /\ active + hit = 0
  /\ bull' = [bull EXCEPT !.looping = FALSE]
  /\ UNCHANGED <<database, outages, gate, inspection, active, hit>>

\* run() is rejected: Redis failed.  The gate is told, the worker is not paused.
LoopBreaks ==
  /\ bull.looping /\ active + hit = 0 /\ outages < MaxOutages /\ inspection # "stopped"
  /\ outages' = outages + 1
  /\ bull' = [bull EXCEPT !.looping = FALSE]
  /\ gate' = ShutGate
  /\ UNCHANGED <<database, inspection, active, hit>>

BreakDatabase ==
  /\ database = "up" /\ outages < MaxOutages
  /\ database' = "down" /\ outages' = outages + 1
  /\ UNCHANGED <<gate, inspection, bull, active, hit>>

RestoreDatabase ==
  /\ database = "down"
  /\ database' = "up"
  /\ UNCHANGED <<outages, gate, inspection, bull, active, hit>>

Close ==
  /\ inspection # "stopped"
  /\ inspection' = "stopped"
  /\ bull' = Paused
  /\ UNCHANGED <<database, outages, gate, active, hit>>

Inspect == InspectWithoutProbe \/ BeginProbe \/ AnswerProbe \/ ProbeSucceeds \/ ProbeFails
WorkerStep == JobEnds \/ ReportFailure \/ LoopEnds

GateNext ==
  \/ Inspect \/ WorkerStep \/ DelayEnds \/ ValidityEnds \/ TakeJob
  \/ LoopBreaks \/ BreakDatabase \/ RestoreDatabase \/ Close

GateSpec == GateInit /\ [][GateNext]_gateVars

\* Timers fire, probes are answered and jobs end.
GateFairness ==
  WF_gateVars(Inspect) /\ WF_gateVars(WorkerStep) /\ WF_gateVars(DelayEnds)
-----------------------------------------------------------------------------
(***************************************************************************)
(* Properties.                                                             *)
(***************************************************************************)
Working == bull.looping /\ ~bull.paused

\* However failures, late reports and probes interleave, a worker whose database is back
\* takes jobs again, unless the database goes down once more or the worker is closed.
WorkerResumes ==
  database = "up" ~> Working \/ database = "down" \/ inspection = "stopped"
=============================================================================
