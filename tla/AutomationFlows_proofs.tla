----------------------- MODULE AutomationFlows_proofs -----------------------
(***************************************************************************)
(* Proofs about the runs of an automation flow, for any number of          *)
(* receipts, test runs, workers and faults and any scripts.                *)
(***************************************************************************)
EXTENDS AutomationFlows, FiniteSums, TLAPS

\* What took effect at the provider is listed as succeeded.
Listed(effects, results) ==
  \A i \in ActionNo : effects[i] > 0 => i <= Len(results) /\ results[i] = "succeeded"

Certain(r, results) == Listed(written[r], results)

Quiet(r) == (\A i \in ActionNo : written[r][i] = 0) /\ \A w \in Runner : runner[w].of # r

\* No run that was not claimed has written anything; a settled run tells the truth.
RunInv(r) ==
  LET row == flowRun[r] IN
  /\ row.status \in {"none", "unasked", "queued"} => Quiet(r)
  /\ row.status \in {"none", "unasked"} => row.receipt = NoFlowRun
  /\ row.status \notin {"none", "unasked"} => row.actions # <<>>
  /\ row.status \in {"succeeded", "failed", "cancelled"} => Certain(r, row.results)
  /\ \A i \in ActionNo : written[r][i] <= 1

\* One delivery of the event is stored, and no other has a run.
ReceiptInv ==
  /\ flow.status = "active" => flow.actions # <<>>
  /\ \A d, e \in Receipt : receipt[d] # "none" /\ receipt[e] # "none" => d = e
  /\ \A d \in Receipt : receipt[d] = "none" => flowRun[d].status = "none"

\* A worker's results are the truth but for the action under way, whose write, if any, is
\* made once; its run is not settled by anyone else.
TurnInv(turn) ==
  LET r == turn.of  at == turn.at  results == turn.results IN
  IF at \in {"absent", "idle"} THEN r = NoFlowRun
  ELSE
  /\ r \in FlowRun /\ flowRun[r].status \in {"running", "requires_review", "gone"}
  /\ at = "claimed" => results = <<>>
  /\ at \in {"claimed", "ready", "failing"} => Certain(r, results)
  /\ at \in {"begun", "answered"} =>
       /\ results # <<>>
       /\ \A i \in ActionNo : written[r][i] > 0 =>
            i <= Len(results) /\ (i = Len(results) \/ results[i] = "succeeded")
  /\ at = "begun" => written[r][Len(results)] = 0

AutomationInv ==
  /\ AutomationTypeOK /\ ReceiptInv
  /\ \A r \in FlowRun : RunInv(r)
  /\ \A w \in Runner : TurnInv(runner[w])
  /\ \A v, w \in Runner : runner[v].of = runner[w].of /\ runner[v].of # NoFlowRun => v = w
-----------------------------------------------------------------------------
RunRow == [status : {"unasked", "none", "queued", "running", "succeeded", "failed",
                     "requires_review", "cancelled", "gone"},
           receipt : Receipt \union {NoFlowRun}, actions : Saved, results : Results]
RunnerTurn == [at : {"absent", "idle", "claimed", "ready", "begun", "answered", "failing", "doubting"},
         of : FlowRun \union {NoFlowRun}, results : Results]

\* A finite set of lengths has a greatest one.
LEMMA GreatestLength ==
  ASSUME NEW S, S \subseteq Nat, IsFiniteSet(S), S # {}
  PROVE  Max(S) \in S /\ \A y \in S : y <= Max(S)
<1> DEFINE above == [x \in S |-> {y \in S : y > x}]
<1>1. \A x \in S : x \in Nat  OBVIOUS
<1>2. \A x \in S : \A y \in above[x] : above[y] \subseteq above[x] /\ y \notin above[y]
  <2> TAKE x \in S
  <2> TAKE y \in above[x]
  <2>1. x \in Nat /\ y \in Nat /\ y \in S /\ y > x  BY <1>1
  <2>2. \A z \in S : z > y => z > x  BY <1>1, <2>1
  <2>3. ~(y > y)  BY <2>1
  <2> QED  BY <2>1, <2>2, <2>3
<1>3. PICK x \in S : above[x] = {}
  <2>1. above \in [S -> SUBSET S]  OBVIOUS
  <2> HIDE DEF above
  <2> QED  BY <1>2, <2>1, TopMember
<1>4. Max(S) \in S /\ \A y \in S : Max(S) >= y
  <2>1. \A y \in S : x >= y  BY <1>1, <1>3
  <2> QED  BY <2>1 DEF Max
<1> QED  BY <1>4

\* The actions are numbered up to the length of the longest script.
LEMMA ScriptsAreNumbered ==
  \E n \in Nat : ActionNo = 1..n /\ \A s \in Script : Len(s) \in 0..n
<1> DEFINE L == {Len(s) : s \in Script}
           f == [s \in Script |-> Len(s)]
<1>1. \A s \in Script : Len(s) \in Nat  BY AutomationAssumption
<1>2. L \in SUBSET Nat /\ L # {}  BY <1>1, AutomationAssumption
<1>3. IsFiniteSet(L)
  <2>1. f \in Surjection(Script, L)  BY DEF Surjection
  <2> HIDE DEF f, L
  <2> QED  BY <2>1, FS_Surjection, AutomationAssumption
<1>4. \A s \in Script : Len(s) \in L  OBVIOUS
<1>5. ActionNo = 1..Max(L)  BY DEF ActionNo
<1> HIDE DEF L
<1>6. Max(L) \in L /\ \A y \in L : y <= Max(L)  BY <1>2, <1>3, GreatestLength
<1>7. Max(L) \in Nat  BY <1>2, <1>6
<1>8. \A s \in Script : Len(s) \in 0..Max(L)  BY <1>1, <1>4, <1>6, <1>7
<1> QED  BY <1>5, <1>7, <1>8

\* What a list of results is, and that the worker's operations on it make one.
LEMMA ResultsAre ==
  /\ <<>> \in Results
  /\ \A s \in Results : /\ s \in Seq(Result) /\ Len(s) \in Nat /\ DOMAIN s = 1..Len(s)
                        /\ s # <<>> => Len(s) \in ActionNo
  /\ \A s \in Seq(Result) : s = <<>> \/ Len(s) \in ActionNo => s \in Results
<1> PICK n \in Nat : ActionNo = 1..n  BY ScriptsAreNumbered
<1>1. <<>> \in Results  BY DEF Results
<1>2. ASSUME NEW s \in Results
      PROVE  /\ s \in Seq(Result) /\ Len(s) \in Nat /\ DOMAIN s = 1..Len(s)
             /\ s # <<>> => Len(s) \in ActionNo
  <2>1. PICK m \in {0} \union ActionNo : s \in [1..m -> Result]  BY DEF Results
  <2>2. m \in Nat  OBVIOUS
  <2>3. s \in Seq(Result) /\ Len(s) = m  BY <2>1, <2>2
  <2>4. s # <<>> => m # 0  BY <2>3
  <2> QED  BY <2>1, <2>2, <2>3, <2>4
<1>3. ASSUME NEW s \in Seq(Result), s = <<>> \/ Len(s) \in ActionNo
      PROVE  s \in Results
  <2>1. s \in [1..Len(s) -> Result] /\ Len(s) \in {0} \union ActionNo  BY <1>3
  <2> QED  BY <2>1 DEF Results
<1> QED  BY <1>1, <1>2, <1>3

LEMMA Marked ==
  ASSUME NEW s \in Results, s # <<>>, NEW result \in Result
  PROVE  /\ Mark(s, result) \in Results /\ Mark(s, result) # <<>>
         /\ Len(Mark(s, result)) = Len(s) /\ Len(s) \in ActionNo
         /\ Mark(s, result)[Len(s)] = result
         /\ \A i \in 1..Len(s) : i # Len(s) => Mark(s, result)[i] = s[i]
<1> DEFINE m == Mark(s, result)
<1>1. s \in Seq(Result) /\ Len(s) \in ActionNo /\ DOMAIN s = 1..Len(s) /\ Len(s) \in Nat
  BY ResultsAre
<1>2. Len(s) \in 1..Len(s)  BY <1>1 DEF ActionNo
<1>3. m \in Seq(Result) /\ Len(m) = Len(s)  BY <1>1 DEF Mark
<1>4. m[Len(s)] = result /\ \A i \in 1..Len(s) : i # Len(s) => m[i] = s[i]
  BY <1>1, <1>2 DEF Mark
<1>5. m # <<>>  BY <1>2, <1>3
<1> QED  BY <1>1, <1>3, <1>4, <1>5, ResultsAre

\* The fields of the rows of runs and of the workers' turns.
LEMMA FlowFields ==
  ASSUME AutomationTypeOK
  PROVE  /\ flowRun \in [FlowRun -> RunRow] /\ runner \in [Runner -> RunnerTurn]
         /\ written \in [FlowRun -> [ActionNo -> 0..2]] /\ runnerFaults \in Nat
         /\ flow.status \in {"draft", "active", "inactive"} /\ flow.actions \in Saved
         /\ receipt \in [Receipt -> {"none", "held", "expired", "gone"}]
         /\ \A r \in FlowRun :
              /\ flowRun[r] \in RunRow /\ flowRun[r].results \in Results
              /\ flowRun[r].actions \in Saved /\ flowRun[r].receipt \in Receipt \union {NoFlowRun}
         /\ \A w \in Runner : /\ runner[w] \in RunnerTurn /\ runner[w].results \in Results
                              /\ runner[w].of \in FlowRun \union {NoFlowRun}
BY DEF AutomationTypeOK, RunRow, RunnerTurn

LEMMA AutomationStarts == AutomationInit => AutomationInv
<1> USE AutomationAssumption
<1> SUFFICES ASSUME AutomationInit PROVE AutomationInv
  OBVIOUS
<1>1. PICK load \in FlowLoads :
        /\ flowRun = [r \in FlowRun |-> IF r \in Receipt \union load.tests THEN NoRow
                                        ELSE [NoRow EXCEPT !.status = "unasked"]]
        /\ runner = [w \in Runner |-> IF w \in load.replicas THEN IdleRunner
                                      ELSE [IdleRunner EXCEPT !.at = "absent"]]
        /\ runnerFaults = load.faults
  BY DEF AutomationInit
<1>2. <<>> \in Results /\ <<>> \in Saved  BY ResultsAre DEF Saved
<1>3. NoRow \in RunRow /\ [NoRow EXCEPT !.status = "unasked"] \in RunRow
  BY <1>2 DEF NoRow, RunRow
<1>4. IdleRunner \in RunnerTurn /\ [IdleRunner EXCEPT !.at = "absent"] \in RunnerTurn
  BY <1>2 DEF IdleRunner, RunnerTurn
<1>5. \A r \in FlowRun : /\ flowRun[r] \in RunRow /\ flowRun[r].receipt = NoFlowRun
                         /\ flowRun[r].status \in {"none", "unasked"}
                         /\ r \in Receipt => flowRun[r].status = "none"
  BY <1>1, <1>3 DEF NoRow
<1>6. \A w \in Runner : /\ runner[w] \in RunnerTurn /\ runner[w].of = NoFlowRun
                        /\ runner[w].at \in {"absent", "idle"}
  BY <1>1, <1>4 DEF IdleRunner
<1>7. AutomationTypeOK
  <2>1. flowRun \in [FlowRun -> RunRow]  BY <1>1, <1>5
  <2>2. runner \in [Runner -> RunnerTurn]  BY <1>1, <1>6
  <2>3. /\ flow \in [status : {"draft", "active", "inactive"}, deleted : BOOLEAN,
                     trigger : BOOLEAN, signed : BOOLEAN, actions : Saved]
        /\ receipt \in [Receipt -> {"none", "held", "expired", "gone"}]
        /\ tombstone \in BOOLEAN /\ runnerFaults \in Nat
    BY <1>1, <1>2 DEF AutomationInit
  <2>4. written \in [FlowRun -> [ActionNo -> 0..2]]  BY DEF AutomationInit
  <2> QED  BY <2>1, <2>2, <2>3, <2>4, Zenon DEF AutomationTypeOK, RunRow, RunnerTurn
<1>8. ReceiptInv
  <2>1. \A d \in Receipt : receipt[d] = "none" /\ d \in FlowRun  BY DEF AutomationInit, FlowRun
  <2> QED  BY <1>5, <2>1 DEF ReceiptInv, AutomationInit
<1>9. \A r \in FlowRun : RunInv(r)
  <2> TAKE r \in FlowRun
  <2>1. \A i \in ActionNo : written[r][i] = 0  BY DEF AutomationInit
  <2>2. \A w \in Runner : runner[w].of # r  BY <1>6
  <2> QED  BY <1>5, <2>1, <2>2 DEF RunInv, Quiet
<1>10. \A w \in Runner : TurnInv(runner[w])
  BY <1>6 DEF TurnInv
<1> QED  BY <1>6, <1>7, <1>8, <1>9, <1>10 DEF AutomationInv

\* The type invariant, after a step, by the names of its record sets.
LEMMA FlowTypedNext ==
  ASSUME flow' \in [status : {"draft", "active", "inactive"}, deleted : BOOLEAN,
                    trigger : BOOLEAN, signed : BOOLEAN, actions : Saved],
         receipt' \in [Receipt -> {"none", "held", "expired", "gone"}], tombstone' \in BOOLEAN,
         flowRun' \in [FlowRun -> RunRow], written' \in [FlowRun -> [ActionNo -> 0..2]],
         runner' \in [Runner -> RunnerTurn], runnerFaults' \in Nat
  PROVE  AutomationTypeOK'
BY Zenon DEF AutomationTypeOK, RunRow, RunnerTurn

Settled == {"succeeded", "failed", "cancelled"}
Alive == {"running", "requires_review", "gone"}

\* What a run's row may become once it was claimed: the claims of its worker stay true.
RowFollows(p, row) ==
  /\ p \in RunRow /\ p.status \in Settled \union Alive
  /\ p.receipt = row.receipt /\ p.actions = row.actions

Turned(w, q, r, p, effects) ==
  /\ runner' = [runner EXCEPT ![w] = q] /\ flowRun' = [flowRun EXCEPT ![r] = p]
  /\ written' = [written EXCEPT ![r] = effects] /\ runnerFaults' \in Nat
  /\ UNCHANGED <<flow, receipt, tombstone>>

\* A worker that has a run turns to q, leaving p as the run's row and effects as what the
\* run has written.
LEMMA WorkerTurns ==
  ASSUME AutomationInv, NEW w \in Runner, NEW r \in FlowRun, r = runner[w].of,
         NEW q \in RunnerTurn, NEW p, RowFollows(p, flowRun[r]), NEW effects \in [ActionNo -> 0..1],
         Turned(w, q, r, p, effects),
         q.of = r \/ q = IdleRunner, TurnInv(q)',
         p.status \in Settled => Listed(effects, p.results)
  PROVE  AutomationInv'
<1> USE AutomationAssumption DEF Turned
<1>0. /\ runner \in [Runner -> RunnerTurn] /\ flowRun \in [FlowRun -> RunRow]
      /\ written \in [FlowRun -> [ActionNo -> 0..2]]
  BY FlowFields DEF AutomationInv
<1>1. /\ runner'[w] = q /\ \A v \in Runner : v # w => runner'[v] = runner[v]
      /\ flowRun'[r] = p /\ \A s \in FlowRun : s # r => flowRun'[s] = flowRun[s]
      /\ written'[r] = effects /\ \A s \in FlowRun : s # r => written'[s] = written[s]
  BY <1>0
<1>2. flowRun[r].status \in Alive /\ runner[w].at \notin {"absent", "idle"}
  <2>1. TurnInv(runner[w]) /\ r # NoFlowRun  BY DEF AutomationInv, FlowRun
  <2> QED  BY <2>1 DEF TurnInv, Alive
<1>3. \A v \in Runner : v # w => runner[v].of # r
  BY DEF AutomationInv, FlowRun
<1>4. AutomationTypeOK'
  <2>1. p \in RunRow /\ effects \in [ActionNo -> 0..2]  BY DEF RowFollows
  <2>2. runner' \in [Runner -> RunnerTurn] /\ flowRun' \in [FlowRun -> RunRow]
    BY <1>0, <2>1
  <2>3. written' \in [FlowRun -> [ActionNo -> 0..2]]  BY <1>0, <2>1
  <2>4. /\ flow' \in [status : {"draft", "active", "inactive"}, deleted : BOOLEAN,
                      trigger : BOOLEAN, signed : BOOLEAN, actions : Saved]
        /\ receipt' \in [Receipt -> {"none", "held", "expired", "gone"}] /\ tombstone' \in BOOLEAN
    BY DEF AutomationInv, AutomationTypeOK
  <2> QED  BY <2>2, <2>3, <2>4, FlowTypedNext
<1>5. ReceiptInv'
  <2>1. \A d \in Receipt : receipt[d] = "none" => d # r /\ d \in FlowRun
    BY <1>2 DEF AutomationInv, ReceiptInv, Alive, FlowRun
  <2> QED  BY <1>1, <2>1 DEF AutomationInv, ReceiptInv
<1>6. \A s \in FlowRun : RunInv(s)'
  <2> TAKE s \in FlowRun
  <2>0. RunInv(s)  BY DEF AutomationInv
  <2>1. CASE s # r
    <3>1. flowRun'[s] = flowRun[s] /\ written'[s] = written[s]  BY <1>1, <2>1
    <3>2. (\A v \in Runner : runner[v].of # s) => \A v \in Runner : runner'[v].of # s
      BY <1>1, <2>1 DEF IdleRunner, FlowRun
    <3> QED  BY <2>0, <3>1, <3>2 DEF RunInv, Quiet, Certain, Listed
  <2>2. CASE s = r
    <3>1. p.status \in Settled \union Alive /\ p.actions # <<>>
      BY <1>2, <2>0, <2>2 DEF RowFollows, RunInv, Alive
    <3>2. \A i \in ActionNo : effects[i] <= 1  OBVIOUS
    <3> QED  BY <1>1, <2>2, <3>1, <3>2 DEF RunInv, Certain, Settled, Alive
  <2> QED  BY <2>1, <2>2
<1>7. \A v \in Runner : TurnInv(runner[v])'
  <2> TAKE v \in Runner
  <2>1. CASE v = w
    BY <1>1, <2>1 DEF TurnInv, Certain, Listed
  <2>2. CASE v # w
    <3>1. runner'[v] = runner[v] /\ TurnInv(runner[v]) /\ runner[v].of # r
      BY <1>1, <1>3, <2>2 DEF AutomationInv
    <3>2. runner[v].of \in FlowRun =>
            /\ flowRun'[runner[v].of] = flowRun[runner[v].of]
            /\ written'[runner[v].of] = written[runner[v].of]
      BY <1>1, <3>1
    <3> QED  BY <3>1, <3>2 DEF TurnInv, Certain, Listed
  <2> QED  BY <2>1, <2>2
<1>8. \A u, v \in Runner : runner'[u].of = runner'[v].of /\ runner'[u].of # NoFlowRun => u = v
  BY <1>1, <1>3 DEF AutomationInv, IdleRunner
<1> QED  BY <1>4, <1>5, <1>6, <1>7, <1>8 DEF AutomationInv

\* A worker's turn and what is known of its run.
LEMMA WorkerHas ==
  ASSUME AutomationInv, NEW w \in Runner, runner[w].at \notin {"absent", "idle"}
  PROVE  /\ runner[w].of \in FlowRun /\ runner[w].results \in Results
         /\ flowRun[runner[w].of].status \in Alive /\ RunInv(runner[w].of)
         /\ flowRun[runner[w].of].actions \in Script
         /\ written[runner[w].of] \in [ActionNo -> 0..1]
         /\ runner[w].of # NoFlowRun
         /\ TurnInv(runner[w])
<1>1. runner[w].of \in FlowRun /\ flowRun[runner[w].of].status \in Alive /\ TurnInv(runner[w])
  BY DEF AutomationInv, TurnInv, Alive
<1>2. RunInv(runner[w].of) /\ AutomationTypeOK  BY <1>1 DEF AutomationInv
<1>3. runner[w].results \in Results /\ flowRun[runner[w].of].actions \in Saved
      /\ written \in [FlowRun -> [ActionNo -> 0..2]]
  BY <1>1, <1>2, FlowFields
<1>4. flowRun[runner[w].of].actions # <<>>  BY <1>1, <1>2 DEF RunInv, Alive
<1>5. written[runner[w].of] \in [ActionNo -> 0..1]
  <2>1. \A i \in ActionNo : written[runner[w].of][i] \in 0..2 /\ written[runner[w].of][i] <= 1
    BY <1>1, <1>2, <1>3 DEF RunInv
  <2>2. \A n \in 0..2 : n <= 1 => n \in 0..1  OBVIOUS
  <2>3. written[runner[w].of] = [i \in ActionNo |-> written[runner[w].of][i]]
    BY <1>1, <1>3
  <2> QED  BY <2>1, <2>2, <2>3
<1>6. runner[w].of # NoFlowRun  BY <1>1, AutomationAssumption
<1> QED  BY <1>1, <1>2, <1>3, <1>4, <1>5, <1>6 DEF Saved

LEMMA Persisted ==
  ASSUME AutomationInv, NEW r \in FlowRun, flowRun[r].status \in Alive,
         NEW status \in Settled \union Alive, NEW results \in Results,
         Persist(r, status, results)
  PROVE  \E p : /\ RowFollows(p, flowRun[r]) /\ flowRun' = [flowRun EXCEPT ![r] = p]
                /\ p = flowRun[r] \/ (p.status = status /\ p.results = results)
<1>0. flowRun \in [FlowRun -> RunRow] /\ flowRun[r] \in RunRow
  BY FlowFields DEF AutomationInv
<1>1. CASE flowRun' = flowRun
  <2>1. flowRun' = [flowRun EXCEPT ![r] = flowRun[r]] /\ RowFollows(flowRun[r], flowRun[r])
    BY <1>0, <1>1 DEF RowFollows
  <2> QED  BY <2>1
<1>2. CASE flowRun' = [flowRun EXCEPT ![r].status = status, ![r].results = results]
  <2> DEFINE p == [flowRun[r] EXCEPT !.status = status, !.results = results]
  <2>1. RowFollows(p, flowRun[r]) /\ p.status = status /\ p.results = results
    BY <1>0 DEF RowFollows, RunRow, Settled, Alive
  <2>2. flowRun' = [flowRun EXCEPT ![r] = p]  BY <1>0, <1>2
  <2> QED  BY <2>1, <2>2
<1> QED  BY <1>1, <1>2 DEF Persist

\* A worker that writes nothing at the provider.
LEMMA WorkerRecords ==
  ASSUME AutomationInv, NEW w \in Runner, runner[w].at \notin {"absent", "idle"},
         NEW q \in RunnerTurn, NEW p, RowFollows(p, flowRun[runner[w].of]),
         runner' = [runner EXCEPT ![w] = q], flowRun' = [flowRun EXCEPT ![runner[w].of] = p],
         UNCHANGED written, runnerFaults' \in Nat, UNCHANGED <<flow, receipt, tombstone>>,
         q = IdleRunner \/ (q.of = runner[w].of /\ p.status \in Alive /\ TurnInv(q)),
         p.status \in Settled => Certain(runner[w].of, p.results)
  PROVE  AutomationInv'
<1> PICK r \in FlowRun : r = runner[w].of  BY WorkerHas
<1> PICK effects \in [ActionNo -> 0..1] : effects = written[r]  BY WorkerHas
<1>0. flowRun \in [FlowRun -> RunRow] /\ written \in [FlowRun -> [ActionNo -> 0..2]]
  BY FlowFields DEF AutomationInv
<1>1. written' = [written EXCEPT ![r] = effects] /\ written' = written  BY <1>0
<1>2. TurnInv(q)'
  <2>1. CASE q = IdleRunner
    BY <2>1 DEF TurnInv, IdleRunner
  <2>2. CASE q.of = r /\ p.status \in Alive /\ TurnInv(q)
    <3>1. flowRun'[r] = p  BY <1>0
    <3> QED  BY <1>1, <2>2, <3>1 DEF TurnInv, Certain, Alive
  <2> QED  BY <2>1, <2>2
<1>3. p.status \in Settled => Listed(effects, p.results)
  BY DEF Certain
<1>4. flowRun' = [flowRun EXCEPT ![r] = p] /\ RowFollows(p, flowRun[r])  OBVIOUS
<1>5. q.of = r \/ q = IdleRunner  OBVIOUS
<1>6. /\ runner' = [runner EXCEPT ![w] = q] /\ runnerFaults' \in Nat
      /\ UNCHANGED <<flow, receipt, tombstone>>
  OBVIOUS
<1>7. written' = [written EXCEPT ![r] = effects]  BY <1>1
<1>8. Turned(w, q, r, p, effects)  BY <1>4, <1>6, <1>7 DEF Turned
<1> QED  BY <1>2, <1>3, <1>4, <1>5, <1>8, WorkerTurns

\* A worker that leaves its run's row as it is.
LEMMA WorkerOnly ==
  ASSUME AutomationInv, NEW w \in Runner, runner[w].at \notin {"absent", "idle"},
         NEW q \in RunnerTurn, runner' = [runner EXCEPT ![w] = q], UNCHANGED <<flowRun, written>>,
         runnerFaults' \in Nat, UNCHANGED <<flow, receipt, tombstone>>,
         q = IdleRunner \/ (q.of = runner[w].of /\ TurnInv(q))
  PROVE  AutomationInv'
<1> PICK r \in FlowRun : r = runner[w].of  BY WorkerHas
<1>0. flowRun \in [FlowRun -> RunRow]  BY FlowFields DEF AutomationInv
<1>1. PICK p \in RunRow : p = flowRun[r]  BY <1>0
<1>2. flowRun' = [flowRun EXCEPT ![r] = p]  BY <1>0, <1>1
<1>3. p.status \in Alive  BY <1>1, WorkerHas
<1>4. RowFollows(p, flowRun[r])  BY <1>1, <1>3 DEF RowFollows
<1>5. p.status \notin Settled  BY <1>3 DEF Settled, Alive
<1> QED  BY <1>2, <1>3, <1>4, <1>5, WorkerRecords

LEMMA CancelRunKeeps ==
  ASSUME AutomationInv, NEW w \in Runner, CancelRun(w)
  PROVE  AutomationInv'
<1>0. runner[w].at \in {"claimed", "ready"}  BY DEF CancelRun, More
<1>1. PICK r \in FlowRun : r = runner[w].of  BY <1>0, WorkerHas
<1>2. flowRun[r].status \in Alive /\ runner[w].results \in Results  BY <1>0, <1>1, WorkerHas
<1>3. PICK p : /\ RowFollows(p, flowRun[r]) /\ flowRun' = [flowRun EXCEPT ![r] = p]
               /\ p = flowRun[r] \/ (p.status = "cancelled" /\ p.results = runner[w].results)
  BY <1>1, <1>2, Persisted DEF CancelRun, Settled
<1>4. Certain(r, runner[w].results)
  BY <1>0, <1>1, WorkerHas DEF TurnInv
<1>5. IdleRunner \in RunnerTurn  BY ResultsAre DEF IdleRunner, RunnerTurn
<1>6. p.status \in Settled => Certain(r, p.results)
  BY <1>2, <1>3, <1>4 DEF Settled, Alive
<1>7. runnerFaults' \in Nat  BY FlowFields DEF AutomationInv, CancelRun, FlowTurnOnly
<1> QED  BY <1>0, <1>1, <1>3, <1>5, <1>6, <1>7, WorkerRecords DEF CancelRun, FlowTurnOnly

LEMMA FinishRunKeeps ==
  ASSUME AutomationInv, NEW w \in Runner, FinishRun(w)
  PROVE  AutomationInv'
<1>0. runner[w].at = "ready"  BY DEF FinishRun
<1>1. PICK r \in FlowRun : r = runner[w].of  BY <1>0, WorkerHas
<1>2. flowRun[r].status \in Alive /\ runner[w].results \in Results  BY <1>0, <1>1, WorkerHas
<1>3. PICK p : /\ RowFollows(p, flowRun[r]) /\ flowRun' = [flowRun EXCEPT ![r] = p]
               /\ p = flowRun[r] \/ (p.status = "succeeded" /\ p.results = runner[w].results)
  BY <1>1, <1>2, Persisted DEF FinishRun, Settled
<1>4. Certain(r, runner[w].results)
  BY <1>0, <1>1, WorkerHas DEF TurnInv
<1>5. IdleRunner \in RunnerTurn  BY ResultsAre DEF IdleRunner, RunnerTurn
<1>6. p.status \in Settled => Certain(r, p.results)
  BY <1>2, <1>3, <1>4 DEF Settled, Alive
<1>7. runnerFaults' \in Nat  BY FlowFields DEF AutomationInv, FinishRun, FlowTurnOnly
<1> QED  BY <1>0, <1>1, <1>3, <1>5, <1>6, <1>7, WorkerRecords DEF FinishRun, FlowTurnOnly

LEMMA EndFailedRunKeeps ==
  ASSUME AutomationInv, NEW w \in Runner, EndFailedRun(w)
  PROVE  AutomationInv'
<1>0. runner[w].at \in {"failing", "doubting"}  BY DEF EndFailedRun
<1>1. PICK r \in FlowRun : r = runner[w].of  BY <1>0, WorkerHas
<1>2. PICK results \in Results : results = runner[w].results  BY <1>0, WorkerHas
<1>3. flowRun[r].status \in Alive  BY <1>0, <1>1, WorkerHas
<1>4. PICK verdict \in {"failed", "requires_review"} : verdict = Verdict(runner[w].at)
  BY DEF Verdict
<1> DEFINE open == results # <<>> /\ results[Len(results)] = "running"
<1>5. PICK ends : ends = IF open THEN Mark(results, verdict) ELSE results  OBVIOUS
<1>6. ends \in Results
  <2>1. verdict \in Result  BY DEF Result
  <2> QED  BY <1>5, <2>1, Marked
<1>7. Persist(r, verdict, ends) /\ runner' = [runner EXCEPT ![w] = IdleRunner]
  BY <1>1, <1>2, <1>4, <1>5 DEF EndFailedRun
<1>8. PICK p : /\ RowFollows(p, flowRun[r]) /\ flowRun' = [flowRun EXCEPT ![r] = p]
               /\ p = flowRun[r] \/ (p.status = verdict /\ p.results = ends)
  <2>1. verdict \in Settled \union Alive  BY DEF Settled, Alive
  <2> HIDE DEF open
  <2> QED  BY <1>3, <1>6, <1>7, <2>1, Persisted
<1>9. verdict = "failed" => Certain(r, ends)
  <2> SUFFICES ASSUME verdict = "failed" PROVE Certain(r, ends)
    OBVIOUS
  <2>1. runner[w].at = "failing"  BY <1>0, <1>4 DEF Verdict
  <2>2. Certain(r, results)  BY <1>1, <1>2, <2>1, WorkerHas DEF TurnInv
  <2>3. CASE open
    <3>1. /\ Len(ends) = Len(results) /\ Len(results) \in Nat
          /\ \A i \in 1..Len(results) : i # Len(results) => ends[i] = results[i]
      BY <1>5, <2>3, Marked, ResultsAre DEF Result
    <3> SUFFICES ASSUME NEW i \in ActionNo, written[r][i] > 0
                 PROVE  i <= Len(ends) /\ ends[i] = "succeeded"
      BY DEF Certain, Listed
    <3>2. i <= Len(results) /\ results[i] = "succeeded" /\ i # Len(results)
      BY <2>2, <2>3 DEF Certain, Listed
    <3>3. i \in 1..Len(results)  BY <3>1, <3>2, ScriptsAreNumbered
    <3> QED  BY <3>1, <3>2, <3>3
  <2>4. CASE ~open
    BY <1>5, <2>2, <2>4
  <2> QED  BY <2>3, <2>4
<1>10. p.status \in Settled => Certain(r, p.results)
  BY <1>3, <1>8, <1>9 DEF Settled, Alive
<1>11. IdleRunner \in RunnerTurn  BY ResultsAre DEF IdleRunner, RunnerTurn
<1>12. runnerFaults' \in Nat  BY FlowFields DEF AutomationInv, EndFailedRun, FlowTurnOnly
<1> HIDE DEF open
<1> QED
  BY <1>0, <1>1, <1>7, <1>8, <1>10, <1>11, <1>12, WorkerRecords DEF EndFailedRun, FlowTurnOnly

\* The worker moves on, with the results it had or with new ones.
MovesOn(w, at, results) ==
  \/ runner' = [runner EXCEPT ![w].at = at, ![w].results = results]
  \/ ToStep(w, at) /\ results = runner[w].results

LEMMA TurnMoves ==
  ASSUME AutomationInv, NEW w \in Runner, NEW results \in Results,
         NEW at \in {"ready", "begun", "answered", "failing", "doubting"},
         MovesOn(w, at, results)
  PROVE  \E q \in RunnerTurn : /\ q.at = at /\ q.of = runner[w].of /\ q.results = results
                         /\ runner' = [runner EXCEPT ![w] = q]
<1>0. runner \in [Runner -> RunnerTurn] /\ runner[w] \in RunnerTurn  BY FlowFields DEF AutomationInv
<1> DEFINE q == [runner[w] EXCEPT !.at = at, !.results = results]
<1>1. q \in RunnerTurn /\ q.at = at /\ q.of = runner[w].of /\ q.results = results
  BY <1>0 DEF RunnerTurn
<1>2. runner' = [runner EXCEPT ![w] = q]
  <2>1. CASE runner' = [runner EXCEPT ![w].at = at, ![w].results = results]
    BY <1>0, <2>1
  <2>2. CASE ToStep(w, at) /\ results = runner[w].results
    <3>1. q = [runner[w] EXCEPT !.at = at]  BY <1>0, <2>2 DEF RunnerTurn
    <3> HIDE DEF q
    <3> QED  BY <1>0, <2>2, <3>1 DEF ToStep
  <2> QED  BY <2>1, <2>2 DEF MovesOn
<1> HIDE DEF q
<1> QED  BY <1>1, <1>2

\* A worker that only moves on, with true results or in doubt.
LEMMA WorkerMoves ==
  ASSUME AutomationInv, NEW w \in Runner, runner[w].at \notin {"absent", "idle"},
         NEW results \in Results, NEW at \in {"ready", "failing", "doubting"},
         MovesOn(w, at, results),
         at # "doubting" => Certain(runner[w].of, results),
         UNCHANGED <<flowRun, written>>, UNCHANGED <<flow, receipt, tombstone>>,
         runnerFaults' \in Nat
  PROVE  AutomationInv'
<1>1. PICK q \in RunnerTurn : /\ q.at = at /\ q.of = runner[w].of /\ q.results = results
                        /\ runner' = [runner EXCEPT ![w] = q]
  BY TurnMoves
<1>2. TurnInv(q)  BY <1>1, WorkerHas DEF TurnInv, Alive
<1> QED  BY <1>1, <1>2, WorkerOnly

LEMMA PreflightKeeps ==
  ASSUME AutomationInv, NEW w \in Runner, Preflight(w)
  PROVE  AutomationInv'
<1>0. runner[w].at = "claimed"  BY DEF Preflight
<1>1. Certain(runner[w].of, runner[w].results) /\ runner[w].results = <<>>
  BY <1>0, WorkerHas DEF TurnInv
<1>2. <<"failed">> \in Results
  <2>1. PICK n \in Nat : ActionNo = 1..n /\ \A s \in Script : Len(s) \in 0..n
    BY ScriptsAreNumbered
  <2>2. PICK s \in Script : s = flowRun[runner[w].of].actions  BY <1>0, WorkerHas
  <2>3. s # <<>> /\ s \in Seq({"read", "write"})
    <3>1. RunInv(runner[w].of) /\ flowRun[runner[w].of].status \in Alive  BY <1>0, WorkerHas
    <3> QED  BY <2>2, <3>1, AutomationAssumption DEF RunInv, Alive
  <2>4. Len(s) \in Nat /\ Len(s) # 0  BY <2>3
  <2>5. 1 \in ActionNo  BY <2>1, <2>4
  <2>6. <<"failed">> \in Seq(Result) /\ Len(<<"failed">>) = 1  BY DEF Result
  <2> QED  BY <2>5, <2>6, ResultsAre
<1>3. Certain(runner[w].of, <<"failed">>)
  <2>1. \A i \in ActionNo : ~(i <= 0)  BY ScriptsAreNumbered
  <2>2. Len(<<>>) = 0  OBVIOUS
  <2> QED  BY <1>1, <2>1, <2>2 DEF Certain, Listed
<1>4. /\ UNCHANGED <<flowRun, written>> /\ UNCHANGED <<flow, receipt, tombstone>>
      /\ runnerFaults' \in Nat
  BY FlowFields DEF AutomationInv, Preflight, FlowTurnOnly
<1>5. CASE \E at \in {"ready", "failing"} : ToStep(w, at)
  <2>1. PICK at \in {"ready", "failing"} : ToStep(w, at)  BY <1>5
  <2>2. PICK results \in Results : results = runner[w].results  BY <1>0, WorkerHas
  <2> QED  BY <1>0, <1>1, <1>4, <2>1, <2>2, WorkerMoves DEF MovesOn
<1>6. CASE runner' = [runner EXCEPT ![w].at = "failing", ![w].results = <<"failed">>]
  BY <1>0, <1>2, <1>3, <1>4, <1>6, WorkerMoves DEF MovesOn
<1> QED  BY <1>5, <1>6 DEF Preflight

\* A worker that has begun an action, before it is carried out, has told the truth.
LEMMA BegunIsCertain ==
  ASSUME AutomationInv, NEW w \in Runner, runner[w].at = "begun"
  PROVE  /\ Certain(runner[w].of, runner[w].results)
         /\ runner[w].results # <<>> /\ Len(runner[w].results) \in ActionNo
         /\ written[runner[w].of][Len(runner[w].results)] = 0
<1>1. TurnInv(runner[w]) /\ runner[w].results \in Results  BY WorkerHas
<1>2. runner[w].results # <<>> /\ written[runner[w].of][Len(runner[w].results)] = 0
  BY <1>1 DEF TurnInv
<1>3. Len(runner[w].results) \in ActionNo  BY <1>1, <1>2, ResultsAre
<1>4. Certain(runner[w].of, runner[w].results)
  <2> SUFFICES ASSUME NEW i \in ActionNo, written[runner[w].of][i] > 0
               PROVE  i <= Len(runner[w].results) /\ runner[w].results[i] = "succeeded"
    BY DEF Certain, Listed
  <2>1. i # Len(runner[w].results)  BY <1>2
  <2> QED  BY <1>1, <2>1 DEF TurnInv
<1> QED  BY <1>2, <1>3, <1>4

LEMMA RefuseActionKeeps ==
  ASSUME AutomationInv, NEW w \in Runner, RefuseAction(w)
  PROVE  AutomationInv'
<1>0. runner[w].at = "begun"  BY DEF RefuseAction
<1>1. Certain(runner[w].of, runner[w].results)  BY <1>0, BegunIsCertain
<1>2. PICK results \in Results : results = runner[w].results  BY <1>0, WorkerHas
<1>3. /\ UNCHANGED <<flowRun, written>> /\ UNCHANGED <<flow, receipt, tombstone>>
      /\ runnerFaults' \in Nat /\ ToStep(w, "failing")
  BY FlowFields DEF AutomationInv, RefuseAction, FlowTurnOnly
<1> QED  BY <1>0, <1>1, <1>2, <1>3, WorkerMoves DEF MovesOn

\* The results with a new one for the action begun.
LEMMA Appended ==
  ASSUME AutomationInv, NEW w \in Runner, More(w)
  PROVE  /\ Append(runner[w].results, "running") \in Results
         /\ Append(runner[w].results, "running") # <<>>
         /\ Len(Append(runner[w].results, "running")) = Len(runner[w].results) + 1
         /\ \A i \in 1..Len(runner[w].results) :
              Append(runner[w].results, "running")[i] = runner[w].results[i]
<1>0. runner[w].at = "ready"  BY DEF More
<1>1. PICK s \in Results : s = runner[w].results  BY <1>0, WorkerHas
<1>2. PICK n \in Nat : ActionNo = 1..n /\ \A t \in Script : Len(t) \in 0..n
  BY ScriptsAreNumbered
<1>3. s \in Seq(Result) /\ Len(s) \in Nat  BY ResultsAre
<1>4. Len(s) + 1 \in ActionNo
  <2>1. Len(s) < Len(Actions(w)) /\ Actions(w) \in Script
    BY <1>0, <1>1, WorkerHas DEF More, Begun, Actions
  <2>2. Len(Actions(w)) \in 0..n  BY <1>2, <2>1
  <2> QED  BY <1>2, <1>3, <2>1, <2>2
<1>5. /\ Append(s, "running") \in Seq(Result) /\ Len(Append(s, "running")) = Len(s) + 1
      /\ \A i \in 1..Len(s) : Append(s, "running")[i] = s[i]
  BY <1>3 DEF Result
<1>6. Append(s, "running") # <<>>  BY <1>3, <1>5
<1> QED  BY <1>1, <1>4, <1>5, <1>6, ResultsAre

LEMMA BeginActionKeeps ==
  ASSUME AutomationInv, NEW w \in Runner, BeginAction(w)
  PROVE  AutomationInv'
<1>0. runner[w].at = "ready" /\ More(w)  BY DEF BeginAction, More
<1>1. PICK r \in FlowRun : r = runner[w].of  BY <1>0, WorkerHas
<1>2. PICK before \in Results : before = runner[w].results  BY <1>0, WorkerHas
<1>3. Certain(r, before)  BY <1>0, <1>1, <1>2, WorkerHas DEF TurnInv
<1>4. /\ UNCHANGED written /\ UNCHANGED <<flow, receipt, tombstone>> /\ runnerFaults' \in Nat
  BY FlowFields DEF AutomationInv, BeginAction, FlowTurnOnly
<1>5. CASE ToStep(w, "failing") /\ UNCHANGED flowRun
  BY <1>0, <1>1, <1>2, <1>3, <1>4, <1>5, WorkerMoves DEF MovesOn
<1>6. CASE ~(ToStep(w, "failing") /\ UNCHANGED flowRun)
  <2>1. PICK results \in Results : results = Append(runner[w].results, "running")
    BY <1>0, Appended
  <2>2. /\ runner' = [runner EXCEPT ![w].at = "begun", ![w].results = results]
        /\ Persist(r, flowRun[r].status, results)
    BY <1>1, <1>6, <2>1 DEF BeginAction, PersistProgress
  <2>3. PICK q \in RunnerTurn : /\ q.at = "begun" /\ q.of = r /\ q.results = results
                          /\ runner' = [runner EXCEPT ![w] = q]
    <3>1. MovesOn(w, "begun", results)  BY <2>2 DEF MovesOn
    <3>2. \E q \in RunnerTurn : /\ q.at = "begun" /\ q.of = runner[w].of /\ q.results = results
                         /\ runner' = [runner EXCEPT ![w] = q]
      BY <3>1, TurnMoves
    <3> QED  BY <1>1, <3>2
  <2>4. PICK status \in Alive : status = flowRun[r].status  BY <1>0, <1>1, WorkerHas
  <2>5. PICK p : /\ RowFollows(p, flowRun[r]) /\ flowRun' = [flowRun EXCEPT ![r] = p]
                 /\ p = flowRun[r] \/ (p.status = status /\ p.results = results)
    BY <2>2, <2>4, Persisted
  <2>6. p.status \in Alive /\ p.status \notin Settled  BY <2>4, <2>5 DEF Alive, Settled
  <2>7. TurnInv(q)
    <3>1. /\ results # <<>> /\ Len(results) = Len(before) + 1 /\ Len(before) \in Nat
          /\ \A i \in 1..Len(before) : results[i] = before[i]
      BY <1>0, <1>2, <2>1, Appended, ResultsAre
    <3>2. Len(results) \in ActionNo  BY <3>1, ResultsAre
    <3>3. ASSUME NEW i \in ActionNo, written[r][i] > 0
          PROVE  i <= Len(results) /\ results[i] = "succeeded" /\ i # Len(results)
      <4>1. i <= Len(before) /\ before[i] = "succeeded"  BY <1>3, <3>3 DEF Certain, Listed
      <4>2. i \in 1..Len(before)  BY <3>1, <4>1, ScriptsAreNumbered
      <4> QED  BY <3>1, <4>1, <4>2
    <3>4. written[r][Len(results)] = 0
      <4>1. written[r][Len(results)] \in 0..1  BY <1>0, <1>1, <3>2, WorkerHas
      <4>2. ~(written[r][Len(results)] > 0)  BY <3>2, <3>3
      <4> QED  BY <4>1, <4>2
    <3> QED  BY <2>3, <2>4, <3>1, <3>3, <3>4 DEF TurnInv, Alive
  <2> QED  BY <1>0, <1>1, <1>4, <2>3, <2>5, <2>6, <2>7, WorkerRecords
<1> QED  BY <1>5, <1>6

LEMMA ExecuteActionKeeps ==
  ASSUME AutomationInv, NEW w \in Runner, ExecuteAction(w)
  PROVE  AutomationInv'
<1>0. runner[w].at = "begun"  BY DEF ExecuteAction
<1>1. PICK r \in FlowRun : r = runner[w].of  BY <1>0, WorkerHas
<1>2. PICK results \in Results : results = runner[w].results  BY <1>0, WorkerHas
<1>3. PICK k \in ActionNo : k = Len(results)  BY <1>0, <1>2, BegunIsCertain
<1>4. Certain(r, results) /\ results # <<>> /\ written[r][k] = 0
  BY <1>0, <1>1, <1>2, <1>3, BegunIsCertain
<1>5. /\ UNCHANGED flowRun /\ UNCHANGED <<flow, receipt, tombstone>> /\ runnerFaults' \in Nat
  BY FlowFields DEF AutomationInv, ExecuteAction, FlowTurnOnly
<1>6. PICK at \in {"answered", "doubting", "failing"} :
        /\ at = "failing" => UNCHANGED written
        /\ \/ UNCHANGED written
           \/ written' = [written EXCEPT ![r][k] = IF @ < 2 THEN @ + 1 ELSE @]
        /\ ToStep(w, at)
  BY <1>1, <1>2, <1>3 DEF ExecuteAction, Begun
<1>7. CASE at # "answered" /\ UNCHANGED written
  BY <1>0, <1>1, <1>2, <1>4, <1>5, <1>6, <1>7, WorkerMoves DEF MovesOn
<1>8. CASE at = "answered" \/ written' = [written EXCEPT ![r][k] = IF @ < 2 THEN @ + 1 ELSE @]
  <2>0. /\ written \in [FlowRun -> [ActionNo -> 0..2]] /\ written[r] \in [ActionNo -> 0..1]
        /\ flowRun \in [FlowRun -> RunRow]
    BY <1>0, <1>1, FlowFields, WorkerHas DEF AutomationInv
  <2>1. PICK effects \in [ActionNo -> 0..1] :
          /\ written' = [written EXCEPT ![r] = effects]
          /\ \A i \in ActionNo : i # k => effects[i] = written[r][i]
    <3>1. CASE UNCHANGED written
      BY <2>0, <3>1
    <3>2. CASE written' = [written EXCEPT ![r][k] = IF @ < 2 THEN @ + 1 ELSE @]
      <4> DEFINE effects == [written[r] EXCEPT ![k] = 1]
      <4>1. effects \in [ActionNo -> 0..1] /\ \A i \in ActionNo : i # k => effects[i] = written[r][i]
        BY <2>0
      <4>2. written' = [written EXCEPT ![r] = effects]
        BY <1>4, <2>0, <3>2
      <4> QED  BY <4>1, <4>2
    <3> QED  BY <1>6, <3>1, <3>2
  <2>2. PICK q \in RunnerTurn : /\ q.at = at /\ q.of = r /\ q.results = results
                          /\ runner' = [runner EXCEPT ![w] = q]
    <3>1. MovesOn(w, at, results)  BY <1>2, <1>6 DEF MovesOn
    <3>2. \E q \in RunnerTurn : /\ q.at = at /\ q.of = runner[w].of /\ q.results = results
                         /\ runner' = [runner EXCEPT ![w] = q]
      BY <3>1, TurnMoves
    <3> QED  BY <1>1, <3>2
  <2>3. PICK p \in RunRow : p = flowRun[r]  BY <2>0
  <2>4. p.status \in Alive  BY <1>0, <1>1, <2>3, WorkerHas
  <2>5. RowFollows(p, flowRun[r])  BY <2>3, <2>4 DEF RowFollows
  <2>6. flowRun' = [flowRun EXCEPT ![r] = p] /\ flowRun'[r] = p  BY <1>5, <2>0, <2>3
  <2>7. Turned(w, q, r, p, effects)  BY <1>5, <2>1, <2>2, <2>6 DEF Turned
  <2>8. TurnInv(q)'
    <3>1. written'[r] = effects  BY <2>0, <2>1
    <3>2. \A i \in ActionNo : written'[r][i] > 0 =>
            i <= Len(results) /\ (i = Len(results) \/ results[i] = "succeeded")
      <4> SUFFICES ASSUME NEW i \in ActionNo, effects[i] > 0, i # k
                   PROVE  i <= Len(results) /\ results[i] = "succeeded"
        BY <1>3, <3>1, ScriptsAreNumbered
      <4> QED  BY <1>4, <2>1 DEF Certain, Listed
    <3>3. at \in {"answered", "doubting"}
      <4>1. CASE UNCHANGED written
        BY <1>6, <1>8, <4>1, <2>0, <1>4
      <4>2. CASE ~UNCHANGED written
        BY <1>6, <4>2
      <4> QED  BY <4>1, <4>2
    <3> QED  BY <1>4, <2>2, <2>4, <2>6, <3>2, <3>3 DEF TurnInv, Alive
  <2>9. p.status \notin Settled  BY <2>4 DEF Alive, Settled
  <2> QED  BY <1>1, <2>2, <2>5, <2>7, <2>8, <2>9, WorkerTurns
<1> QED  BY <1>6, <1>7, <1>8

\* The worker lists an answer; all its results are the truth again.
LEMMA Answered ==
  ASSUME AutomationInv, NEW w \in Runner, runner[w].at = "answered"
  PROVE  /\ Mark(runner[w].results, "succeeded") \in Results
         /\ Certain(runner[w].of, Mark(runner[w].results, "succeeded"))
<1>1. PICK s \in Results : s = runner[w].results  BY WorkerHas
<1>2. PICK r \in FlowRun : r = runner[w].of  BY WorkerHas
<1>3. /\ s # <<>>
      /\ \A i \in ActionNo : written[r][i] > 0 => i <= Len(s) /\ (i = Len(s) \/ s[i] = "succeeded")
  BY <1>1, <1>2, WorkerHas DEF TurnInv
<1>4. PICK m \in Results : m = Mark(s, "succeeded")  BY <1>3, Marked DEF Result
<1>5. /\ Len(m) = Len(s) /\ Len(s) \in Nat /\ m[Len(s)] = "succeeded"
      /\ \A i \in 1..Len(s) : i # Len(s) => m[i] = s[i]
  BY <1>3, <1>4, Marked, ResultsAre DEF Result
<1>6. Certain(r, m)
  <2> SUFFICES ASSUME NEW i \in ActionNo, written[r][i] > 0
               PROVE  i <= Len(m) /\ m[i] = "succeeded"
    BY DEF Certain, Listed
  <2>1. i \in 1..Len(s)  BY <1>3, <1>5, ScriptsAreNumbered
  <2> QED  BY <1>3, <1>5, <2>1
<1> QED  BY <1>1, <1>2, <1>4, <1>6

LEMMA SaveAnswerKeeps ==
  ASSUME AutomationInv, NEW w \in Runner, SaveAnswer(w)
  PROVE  AutomationInv'
<1>0. runner[w].at = "answered"  BY DEF SaveAnswer
<1>1. PICK r \in FlowRun : r = runner[w].of  BY <1>0, WorkerHas
<1>2. PICK m \in Results : m = Mark(runner[w].results, "succeeded")  BY <1>0, Answered
<1>3. Certain(r, m)  BY <1>0, <1>1, <1>2, Answered
<1>4. /\ UNCHANGED written /\ UNCHANGED <<flow, receipt, tombstone>> /\ runnerFaults' \in Nat
  BY FlowFields DEF AutomationInv, SaveAnswer, FlowTurnOnly
<1>5. PICK status \in Alive : status = flowRun[r].status  BY <1>0, <1>1, WorkerHas
<1>6. MovesOn(w, "ready", m) /\ Persist(r, status, m)
  BY <1>1, <1>2, <1>5 DEF SaveAnswer, MovesOn, PersistProgress
<1>7. PICK q \in RunnerTurn : /\ q.at = "ready" /\ q.of = r /\ q.results = m
                        /\ runner' = [runner EXCEPT ![w] = q]
  <2>1. \E q \in RunnerTurn : /\ q.at = "ready" /\ q.of = runner[w].of /\ q.results = m
                       /\ runner' = [runner EXCEPT ![w] = q]
    BY <1>6, TurnMoves
  <2> QED  BY <1>1, <2>1
<1>8. PICK p : /\ RowFollows(p, flowRun[r]) /\ flowRun' = [flowRun EXCEPT ![r] = p]
               /\ p = flowRun[r] \/ (p.status = status /\ p.results = m)
  BY <1>5, <1>6, Persisted
<1>9. p.status \in Alive /\ p.status \notin Settled  BY <1>5, <1>8 DEF Alive, Settled
<1>10. TurnInv(q)  BY <1>3, <1>5, <1>7 DEF TurnInv, Alive
<1> QED  BY <1>0, <1>1, <1>4, <1>7, <1>8, <1>9, <1>10, WorkerRecords

LEMMA CrashRunnerKeeps ==
  ASSUME AutomationInv, NEW w \in Runner, runner[w].at \notin {"idle", "absent"},
         runner' = [runner EXCEPT ![w] = IdleRunner], RunnerFault,
         UNCHANGED <<flow, receipt, tombstone, flowRun, written>>
  PROVE  AutomationInv'
<1>1. IdleRunner \in RunnerTurn  BY ResultsAre DEF IdleRunner, RunnerTurn
<1>2. runnerFaults' \in Nat  BY FlowFields DEF AutomationInv, RunnerFault
<1> QED  BY <1>1, <1>2, WorkerOnly

LEMMA LosePersistKeeps ==
  ASSUME AutomationInv, NEW w \in Runner, LosePersist(w)
  PROVE  AutomationInv'
<1>0. RunnerFault /\ UNCHANGED <<flow, receipt, tombstone, flowRun, written>>
  BY DEF LosePersist
<1>1. runnerFaults' \in Nat  BY <1>0, FlowFields DEF AutomationInv, RunnerFault
<1>2. CASE runner[w].at = "answered"
  <2>1. PICK m \in Results : m = Mark(runner[w].results, "succeeded")  BY <1>2, Answered
  <2>2. Certain(runner[w].of, m)  BY <1>2, <2>1, Answered
  <2>3. PICK at \in {"doubting", "failing"} : at = IF Writing(w) THEN "doubting" ELSE "failing"
    OBVIOUS
  <2>4. runner' = [runner EXCEPT ![w].at = at, ![w].results = m]
    <3>1. runner' = [runner EXCEPT ![w].at = IF Writing(w) THEN "doubting" ELSE "failing",
                                   ![w].results = Mark(@, "succeeded")]
      BY <1>2 DEF LosePersist, More
    <3>2. runner \in [Runner -> RunnerTurn]  BY FlowFields DEF AutomationInv
    <3> HIDE DEF Mark, Writing
    <3> QED  BY <2>1, <2>3, <3>1, <3>2 DEF RunnerTurn
  <2>5. MovesOn(w, at, m)  BY <2>4 DEF MovesOn
  <2> QED  BY <1>0, <1>1, <1>2, <2>2, <2>5, WorkerMoves
<1>3. CASE runner[w].at \in {"ready", "claimed"} /\ ToStep(w, "failing")
  <2>1. PICK results \in Results : results = runner[w].results  BY <1>3, WorkerHas
  <2>2. Certain(runner[w].of, results)  BY <1>3, <2>1, WorkerHas DEF TurnInv
  <2>3. MovesOn(w, "failing", results)  BY <1>3, <2>1 DEF MovesOn
  <2> QED  BY <1>0, <1>1, <1>3, <2>2, <2>3, WorkerMoves
<1>5. CASE /\ More(w)
           /\ runner' = [runner EXCEPT ![w].at = "failing", ![w].results = Append(@, "running")]
  <2>0. runner[w].at = "ready" /\ More(w)  BY <1>5 DEF More
  <2>1. PICK results \in Results : results = Append(runner[w].results, "running")
    BY <2>0, Appended
  <2>2. PICK before \in Results : before = runner[w].results  BY <2>0, WorkerHas
  <2>3. Certain(runner[w].of, before)  BY <2>0, <2>2, WorkerHas DEF TurnInv
  <2>4. /\ Len(results) = Len(before) + 1 /\ Len(before) \in Nat
        /\ \A i \in 1..Len(before) : results[i] = before[i]
    BY <2>0, <2>1, <2>2, Appended, ResultsAre
  <2>5. Certain(runner[w].of, results)
    <3>1. ASSUME NEW i \in ActionNo, written[runner[w].of][i] > 0
          PROVE  i <= Len(results) /\ results[i] = "succeeded"
      <4>1. i <= Len(before) /\ before[i] = "succeeded"  BY <2>3, <3>1 DEF Certain, Listed
      <4>2. i \in 1..Len(before)  BY <2>4, <4>1, ScriptsAreNumbered
      <4> QED  BY <2>4, <4>1, <4>2
    <3> QED  BY <3>1 DEF Certain, Listed
  <2>6. runner' = [runner EXCEPT ![w].at = "failing", ![w].results = results]
    <3>1. runner \in [Runner -> RunnerTurn]  BY FlowFields DEF AutomationInv
    <3> QED  BY <1>5, <2>1, <3>1 DEF RunnerTurn
  <2>7. MovesOn(w, "failing", results)  BY <2>6 DEF MovesOn
  <2> QED  BY <1>0, <1>1, <2>0, <2>5, <2>7, WorkerMoves
<1>4. CASE runner[w].at \in {"failing", "doubting"}
  <2>1. runner' = [runner EXCEPT ![w] = IdleRunner]  BY <1>4 DEF LosePersist, More
  <2> QED  BY <1>0, <1>4, <2>1, CrashRunnerKeeps
<1> QED  BY <1>2, <1>3, <1>4, <1>5 DEF LosePersist

LEMMA ClaimFlowRunKeeps ==
  ASSUME AutomationInv, NEW w \in Runner, NEW r \in FlowRun, ClaimFlowRun(w, r)
  PROVE  AutomationInv'
<1> USE AutomationAssumption
<1>0. /\ runner \in [Runner -> RunnerTurn] /\ flowRun \in [FlowRun -> RunRow] /\ flowRun[r] \in RunRow
      /\ runnerFaults' \in Nat /\ UNCHANGED <<flow, receipt, tombstone, written>>
  BY FlowFields DEF AutomationInv, ClaimFlowRun, FlowTurnOnly
<1>1. flowRun[r].status = "queued" /\ runner[w].at = "idle"  BY DEF ClaimFlowRun
<1>2. RunInv(r) /\ Quiet(r)  BY <1>1 DEF AutomationInv, RunInv
<1> DEFINE p == [flowRun[r] EXCEPT !.status = "running"]
<1> DEFINE q == [at |-> "claimed", of |-> r, results |-> <<>>]
<1>3. /\ p \in RunRow /\ p.status = "running" /\ p.receipt = flowRun[r].receipt
      /\ p.actions = flowRun[r].actions /\ flowRun' = [flowRun EXCEPT ![r] = p]
  BY <1>0 DEF RunRow, ClaimFlowRun
<1>4. q \in RunnerTurn /\ q.at = "claimed" /\ q.of = r /\ q.results = <<>>
      /\ runner' = [runner EXCEPT ![w] = q]
  BY ResultsAre DEF RunnerTurn, ClaimFlowRun
<1> HIDE DEF p, q
<1>5. /\ runner'[w] = q /\ \A v \in Runner : v # w => runner'[v] = runner[v]
      /\ flowRun'[r] = p /\ \A s \in FlowRun : s # r => flowRun'[s] = flowRun[s]
  BY <1>0, <1>3, <1>4
<1>6. AutomationTypeOK'
  <2>1. runner' \in [Runner -> RunnerTurn] /\ flowRun' \in [FlowRun -> RunRow]
    BY <1>0, <1>3, <1>4
  <2>2. /\ flow' \in [status : {"draft", "active", "inactive"}, deleted : BOOLEAN,
                      trigger : BOOLEAN, signed : BOOLEAN, actions : Saved]
        /\ receipt' \in [Receipt -> {"none", "held", "expired", "gone"}] /\ tombstone' \in BOOLEAN
        /\ written' \in [FlowRun -> [ActionNo -> 0..2]]
    BY <1>0 DEF AutomationInv, AutomationTypeOK
  <2> QED  BY <1>0, <2>1, <2>2, FlowTypedNext
<1>7. ReceiptInv'
  <2>1. \A d \in Receipt : receipt[d] = "none" => d # r /\ d \in FlowRun
    BY <1>1 DEF AutomationInv, ReceiptInv, FlowRun
  <2> QED  BY <1>0, <1>5, <2>1 DEF AutomationInv, ReceiptInv
<1>8. \A s \in FlowRun : RunInv(s)'
  <2> TAKE s \in FlowRun
  <2>0. RunInv(s)  BY DEF AutomationInv
  <2>1. CASE s # r
    <3>1. (\A v \in Runner : runner[v].of # s) => \A v \in Runner : runner'[v].of # s
      BY <1>4, <1>5, <2>1
    <3> QED  BY <1>0, <1>5, <2>0, <2>1, <3>1 DEF RunInv, Quiet, Certain, Listed
  <2>2. CASE s = r
    BY <1>0, <1>1, <1>2, <1>3, <1>5, <2>2 DEF RunInv
  <2> QED  BY <2>1, <2>2
<1>9. \A v \in Runner : TurnInv(runner[v])'
  <2> TAKE v \in Runner
  <2>1. CASE v = w
    <3>1. \A i \in ActionNo : written'[r][i] = 0  BY <1>0, <1>2 DEF Quiet
    <3> QED  BY <1>3, <1>4, <1>5, <2>1, <3>1 DEF TurnInv, Certain, Listed
  <2>2. CASE v # w
    <3>1. runner'[v] = runner[v] /\ TurnInv(runner[v]) /\ runner[v].of # r
      BY <1>2, <1>5, <2>2 DEF AutomationInv, Quiet
    <3>2. runner[v].of \in FlowRun => flowRun'[runner[v].of] = flowRun[runner[v].of]
      BY <1>5, <3>1
    <3> QED  BY <1>0, <3>1, <3>2 DEF TurnInv, Certain, Listed
  <2> QED  BY <2>1, <2>2
<1>10. \A u, v \in Runner : runner'[u].of = runner'[v].of /\ runner'[u].of # NoFlowRun => u = v
  BY <1>2, <1>4, <1>5 DEF AutomationInv, Quiet
<1> QED  BY <1>6, <1>7, <1>8, <1>9, <1>10 DEF AutomationInv
-----------------------------------------------------------------------------
\* What anybody else than a worker may do to a run's row.
RowMeddled(p, row) ==
  /\ p \in RunRow /\ p.actions # <<>>
  /\ \/ p.status \in {"gone", "requires_review"}
     \/ p.status \in {"queued", "cancelled"} /\ row.status \in {"none", "queued"}

FlowSet == [status : {"draft", "active", "inactive"}, deleted : BOOLEAN, trigger : BOOLEAN,
            signed : BOOLEAN, actions : Saved]

LEMMA OthersMove ==
  ASSUME AutomationInv, UNCHANGED <<written, runner>>, ReceiptInv', flow' \in FlowSet,
         receipt' \in [Receipt -> {"none", "held", "expired", "gone"}], tombstone' \in BOOLEAN,
         runnerFaults' \in Nat, DOMAIN flowRun' = FlowRun,
         flowRun' = [r \in DOMAIN flowRun' |-> flowRun'[r]],
         \A r \in FlowRun : flowRun'[r] = flowRun[r] \/ RowMeddled(flowRun'[r], flowRun[r])
  PROVE  AutomationInv'
<1>0. /\ runner \in [Runner -> RunnerTurn] /\ flowRun \in [FlowRun -> RunRow]
      /\ written \in [FlowRun -> [ActionNo -> 0..2]]
  BY FlowFields DEF AutomationInv
<1>1. AutomationTypeOK'
  <2>1. flowRun' \in [FlowRun -> RunRow]  BY <1>0 DEF RowMeddled
  <2> QED  BY <1>0, <2>1, FlowTypedNext DEF FlowSet
<1>2. \A s \in FlowRun : RunInv(s)'
  <2> TAKE s \in FlowRun
  <2>0. RunInv(s)  BY DEF AutomationInv
  <2>1. CASE flowRun'[s] = flowRun[s]
    BY <2>0, <2>1 DEF RunInv, Quiet, Certain, Listed
  <2>2. CASE RowMeddled(flowRun'[s], flowRun[s])
    <3>1. flowRun'[s].status \in {"queued", "cancelled"} => Quiet(s)
      BY <2>0, <2>2 DEF RowMeddled, RunInv
    <3>2. flowRun'[s].status \in {"queued", "cancelled"} =>
            \A i \in ActionNo : written[s][i] = 0
      BY <3>1 DEF Quiet
    <3>3. flowRun'[s].status \in {"queued", "cancelled", "gone", "requires_review"}
          /\ flowRun'[s].actions # <<>>
      BY <2>2 DEF RowMeddled
    <3>4. Quiet(s) => Quiet(s)'  BY DEF Quiet
    <3>5. \A i \in ActionNo : written'[s][i] <= 1  BY <2>0 DEF RunInv
    <3>6. flowRun'[s].status = "cancelled" => Certain(s, flowRun[s].results)'
      BY <3>2 DEF Certain, Listed
    <3> QED  BY <3>1, <3>3, <3>4, <3>5, <3>6 DEF RunInv
  <2>3. flowRun'[s] = flowRun[s] \/ RowMeddled(flowRun'[s], flowRun[s])  OBVIOUS
  <2> QED  BY <2>1, <2>2, <2>3
<1>3. \A v \in Runner : TurnInv(runner[v])'
  <2> TAKE v \in Runner
  <2>1. TurnInv(runner[v])  BY DEF AutomationInv
  <2>2. runner[v].of \in FlowRun /\ flowRun[runner[v].of].status \in Alive =>
          flowRun'[runner[v].of].status \in Alive
    BY DEF RowMeddled, Alive
  <2> QED  BY <2>1, <2>2 DEF TurnInv, Certain, Listed, Alive
<1>4. \A u, v \in Runner : runner'[u].of = runner'[v].of /\ runner'[u].of # NoFlowRun => u = v
  BY DEF AutomationInv
<1> QED  BY <1>1, <1>2, <1>3, <1>4 DEF AutomationInv

\* A step that touches no run.
LEMMA FlowOnly ==
  ASSUME AutomationInv, flow' \in FlowSet, UNCHANGED <<receipt, tombstone, flowRun, written,
         runner, runnerFaults>>, flow'.status = "active" => flow'.actions # <<>>
  PROVE  AutomationInv'
<1>1. flowRun \in [FlowRun -> RunRow] /\ runnerFaults \in Nat  BY FlowFields DEF AutomationInv
<1>2. receipt \in [Receipt -> {"none", "held", "expired", "gone"}] /\ tombstone \in BOOLEAN
  BY DEF AutomationInv, AutomationTypeOK
<1>3. ReceiptInv'  BY DEF AutomationInv, ReceiptInv
<1> QED  BY <1>1, <1>2, <1>3, OthersMove

LEMMA OwnerKeeps ==
  ASSUME AutomationInv, OwnerOfFlow
  PROVE  AutomationInv'
<1> USE AutomationAssumption
<1>0. /\ flow \in FlowSet /\ flowRun \in [FlowRun -> RunRow] /\ runnerFaults \in Nat
      /\ receipt \in [Receipt -> {"none", "held", "expired", "gone"}] /\ tombstone \in BOOLEAN
      /\ flow.status = "active" => flow.actions # <<>>
  BY FlowFields DEF AutomationInv, AutomationTypeOK, FlowSet, ReceiptInv
<1>1. ASSUME NEW actions \in Script, NEW trigger \in BOOLEAN, SaveSteps(actions, trigger)
      PROVE  AutomationInv'
  <2>1. PICK kept \in BOOLEAN :
          flow' = [flow EXCEPT !.actions = actions, !.trigger = trigger, !.signed = @ /\ kept]
    BY <1>1 DEF SaveSteps
  <2>2. PICK signed \in BOOLEAN : signed = (flow.signed /\ kept)
    BY <1>0 DEF FlowSet
  <2>3. flow' = [flow EXCEPT !.actions = actions, !.trigger = trigger, !.signed = signed]
    BY <2>1, <2>2, Zenon
  <2>4. flow' \in FlowSet /\ flow'.status = flow.status
    BY <1>0, <2>3 DEF FlowSet, Saved
  <2> QED  BY <1>1, <2>4, FlowOnly DEF SaveSteps, OwnerStops, Editable
<1>2. ASSUME ConfigureWebhook \/ UnsubscribeWebhook  PROVE AutomationInv'
  <2>1. PICK signed \in BOOLEAN : flow' = [flow EXCEPT !.signed = signed]
    BY <1>2 DEF ConfigureWebhook, UnsubscribeWebhook
  <2>2. flow' \in FlowSet /\ flow'.status = flow.status /\ flow'.actions = flow.actions
    BY <1>0, <2>1 DEF FlowSet
  <2> QED
    BY <1>0, <1>2, <2>2, FlowOnly DEF ConfigureWebhook, UnsubscribeWebhook, OwnerStops
<1>3. ASSUME NEW status \in {"active", "inactive"}, SetFlowStatus(status)
      PROVE  AutomationInv'
  <2>1. flow' = [flow EXCEPT !.status = status]  BY <1>3 DEF SetFlowStatus
  <2>2. flow' \in FlowSet /\ flow'.status = status /\ flow'.actions = flow.actions
    BY <1>0, <2>1 DEF FlowSet
  <2> QED  BY <1>3, <2>2, FlowOnly DEF SetFlowStatus, OwnerStops, Ready
<1>4. ASSUME RemoveFlow  PROVE AutomationInv'
  <2>1. flow' = [flow EXCEPT !.deleted = TRUE, !.status = "inactive"]  BY <1>4 DEF RemoveFlow
  <2>2. flow' \in FlowSet /\ flow'.status = "inactive"
    BY <1>0, <2>1 DEF FlowSet
  <2>3. flowRun' = [r \in FlowRun |-> IF flowRun[r].status = "queued"
                                      THEN [flowRun[r] EXCEPT !.status = "cancelled"]
                                      ELSE flowRun[r]]
    BY <1>4 DEF RemoveFlow
  <2>4. \A r \in FlowRun :
          flowRun'[r] = flowRun[r]
            \/ (flowRun[r].status = "queued" /\ RowMeddled(flowRun'[r], flowRun[r])
                  /\ flowRun'[r].status = "cancelled")
    <3> TAKE r \in FlowRun
    <3>1. CASE flowRun[r].status = "queued"
      <4>1. flowRun'[r] = [flowRun[r] EXCEPT !.status = "cancelled"]  BY <2>3, <3>1
      <4>2. flowRun[r].actions # <<>> /\ flowRun[r] \in RunRow
        BY <1>0, <3>1 DEF AutomationInv, RunInv
      <4> QED  BY <3>1, <4>1, <4>2 DEF RowMeddled, RunRow
    <3>2. CASE flowRun[r].status # "queued"
      BY <2>3, <3>2
    <3> QED  BY <3>1, <3>2
  <2>5. ReceiptInv'
    <3>1. \A d \in Receipt : flowRun[d].status = "none" => flowRun'[d].status = "none"
      BY <2>4 DEF FlowRun
    <3> QED  BY <1>4, <2>2, <3>1 DEF AutomationInv, ReceiptInv, RemoveFlow, OwnerStops
  <2> QED  BY <1>0, <1>4, <2>2, <2>3, <2>4, <2>5, OthersMove DEF RemoveFlow, OwnerStops
<1>5. ASSUME NEW q \in Request, NEW d \in Receipt, TestRun(q, d)  PROVE AutomationInv'
  <2> DEFINE p == [status |-> "queued", receipt |-> d, actions |-> flow.actions, results |-> <<>>]
  <2>1. flowRun' = [flowRun EXCEPT ![q] = p]  BY <1>5 DEF TestRun, QueueRun
  <2>2. p \in RunRow /\ p.status = "queued" /\ p.actions # <<>>
    BY <1>0, <1>5, ResultsAre DEF RunRow, FlowSet, TestRun, Ready
  <2> HIDE DEF p
  <2>3. RowMeddled(p, flowRun[q])  BY <1>5, <2>2 DEF RowMeddled, TestRun
  <2>4. q \in FlowRun /\ q \notin Receipt  BY DEF FlowRun
  <2>5. \A r \in FlowRun : flowRun'[r] = flowRun[r] \/ RowMeddled(flowRun'[r], flowRun[r])
    BY <1>0, <2>1, <2>3, <2>4
  <2>6. ReceiptInv'
    <3>1. \A e \in Receipt : flowRun'[e] = flowRun[e]  BY <1>0, <2>1, <2>4 DEF FlowRun
    <3> QED  BY <1>5, <3>1 DEF AutomationInv, ReceiptInv, TestRun, OwnerStops
  <2> QED  BY <1>0, <1>5, <2>1, <2>5, <2>6, OthersMove DEF TestRun, OwnerStops
<1> QED  BY <1>1, <1>2, <1>3, <1>4, <1>5 DEF OwnerOfFlow

LEMMA ReceiveWebhookKeeps ==
  ASSUME AutomationInv, NEW d \in Receipt, ReceiveWebhook(d)
  PROVE  AutomationInv'
<1> USE AutomationAssumption
<1>0. /\ flow \in FlowSet /\ flowRun \in [FlowRun -> RunRow] /\ runnerFaults \in Nat
      /\ receipt \in [Receipt -> {"none", "held", "expired", "gone"}] /\ tombstone \in BOOLEAN
      /\ flow.status = "active" => flow.actions # <<>>
  BY FlowFields DEF AutomationInv, AutomationTypeOK, FlowSet, ReceiptInv
<1>1. receipt' = [receipt EXCEPT ![d] = "held"] /\ \A e \in Receipt : receipt[e] = "none"
  BY DEF ReceiveWebhook, Unseen
<1>2. flowRun[d].status = "none" /\ d \in FlowRun
  BY <1>1 DEF AutomationInv, ReceiptInv, FlowRun
<1> DEFINE p == [status |-> "queued", receipt |-> d, actions |-> flow.actions, results |-> <<>>]
<1>3. flow.status = "active" => /\ flowRun' = [flowRun EXCEPT ![d] = p]
                                /\ RowMeddled(p, flowRun[d])
  <2>1. flow.status = "active" => p \in RunRow /\ p.status = "queued" /\ p.actions # <<>>
    BY <1>0, ResultsAre DEF RunRow, FlowSet
  <2>2. flow.status = "active" => flowRun' = [flowRun EXCEPT ![d] = p]
    BY DEF ReceiveWebhook, QueueRun
  <2> HIDE DEF p
  <2> QED  BY <1>2, <2>1, <2>2 DEF RowMeddled
<1> HIDE DEF p
<1>4. flow.status # "active" => UNCHANGED flowRun  BY DEF ReceiveWebhook
<1>5. \A r \in FlowRun : /\ flowRun'[r] = flowRun[r] \/ RowMeddled(flowRun'[r], flowRun[r])
                         /\ r # d => flowRun'[r] = flowRun[r]
  BY <1>0, <1>2, <1>3, <1>4
<1>6. ReceiptInv'
  <2>1. \A e \in Receipt : receipt'[e] # "none" => e = d
    BY <1>0, <1>1
  <2>2. \A e \in Receipt : receipt'[e] = "none" => flowRun'[e].status = "none"
    <3> TAKE e \in Receipt
    <3> HAVE receipt'[e] = "none"
    <3>1. e # d /\ e \in FlowRun  BY <1>0, <1>1 DEF FlowRun
    <3> QED  BY <1>1, <1>5, <3>1 DEF AutomationInv, ReceiptInv
  <2> QED  BY <2>1, <2>2 DEF AutomationInv, ReceiptInv, ReceiveWebhook
<1>7. /\ flowRun' = [r \in DOMAIN flowRun' |-> flowRun'[r]] /\ DOMAIN flowRun' = FlowRun
      /\ receipt' \in [Receipt -> {"none", "held", "expired", "gone"}]
  BY <1>0, <1>1, <1>3, <1>4
<1> QED  BY <1>0, <1>5, <1>6, <1>7, OthersMove DEF ReceiveWebhook

\* The runs of deleted receipts are gone.
LEMMA DropsKeep ==
  ASSUME AutomationInv, NEW dropped \in SUBSET Receipt, DropReceipts(dropped),
         \A d \in dropped : receipt[d] # "none",
         tombstone' \in BOOLEAN, UNCHANGED <<flow, written, runner, runnerFaults>>
  PROVE  AutomationInv'
<1> USE AutomationAssumption
<1>0. /\ flow \in FlowSet /\ flowRun \in [FlowRun -> RunRow] /\ runnerFaults \in Nat
      /\ receipt \in [Receipt -> {"none", "held", "expired", "gone"}]
  BY FlowFields DEF AutomationInv, AutomationTypeOK, FlowSet
<1>1. /\ receipt' = [d \in Receipt |-> IF d \in dropped THEN "gone" ELSE receipt[d]]
      /\ flowRun' = [r \in FlowRun |-> IF flowRun[r].receipt \in dropped
                                       THEN [flowRun[r] EXCEPT !.status = "gone"] ELSE flowRun[r]]
  BY DEF DropReceipts
<1>2. \A r \in FlowRun :
        flowRun'[r] = flowRun[r]
          \/ (flowRun[r].status \notin {"none", "unasked"} /\ RowMeddled(flowRun'[r], flowRun[r]))
  <2> TAKE r \in FlowRun
  <2>1. CASE flowRun[r].receipt \in dropped
    <3>1. flowRun'[r] = [flowRun[r] EXCEPT !.status = "gone"]  BY <1>1, <2>1
    <3>2. flowRun[r].receipt # NoFlowRun  BY <2>1 DEF FlowRun
    <3>3. flowRun[r].status \notin {"none", "unasked"} /\ flowRun[r].actions # <<>>
      BY <3>2 DEF AutomationInv, RunInv
    <3> QED  BY <1>0, <3>1, <3>3 DEF RowMeddled, RunRow
  <2>2. CASE flowRun[r].receipt \notin dropped
    BY <1>1, <2>2
  <2> QED  BY <2>1, <2>2
<1>3. ReceiptInv'
  <2>1. \A d \in Receipt : receipt'[d] = "none" <=> receipt[d] = "none"  BY <1>1
  <2>2. \A d \in Receipt : flowRun[d].status = "none" => flowRun'[d].status = "none"
    BY <1>2 DEF FlowRun
  <2> QED  BY <2>1, <2>2 DEF AutomationInv, ReceiptInv
<1>4. receipt' \in [Receipt -> {"none", "held", "expired", "gone"}]  BY <1>0, <1>1
<1> QED  BY <1>0, <1>1, <1>2, <1>3, <1>4, OthersMove

LEMMA RecoverKeeps ==
  ASSUME AutomationInv, NEW r \in FlowRun, RecoverStaleRun(r)
  PROVE  AutomationInv'
<1>0. /\ flow \in FlowSet /\ flowRun \in [FlowRun -> RunRow] /\ runnerFaults \in Nat
      /\ receipt \in [Receipt -> {"none", "held", "expired", "gone"}] /\ tombstone \in BOOLEAN
  BY FlowFields DEF AutomationInv, AutomationTypeOK, FlowSet
<1>1. flowRun[r].status = "running" /\ flowRun' = [flowRun EXCEPT ![r].status = "requires_review"]
  BY DEF RecoverStaleRun, Recovered
<1> DEFINE p == [flowRun[r] EXCEPT !.status = "requires_review"]
<1>2. flowRun' = [flowRun EXCEPT ![r] = p]  BY <1>0, <1>1
<1>3. RowMeddled(p, flowRun[r])
  <2>1. flowRun[r].actions # <<>>  BY <1>1 DEF AutomationInv, RunInv
  <2> QED  BY <1>0, <2>1 DEF RowMeddled, RunRow
<1> HIDE DEF p
<1>4. \A s \in FlowRun : /\ flowRun'[s] = flowRun[s] \/ RowMeddled(flowRun'[s], flowRun[s])
                         /\ s # r => flowRun'[s] = flowRun[s]
  BY <1>0, <1>2, <1>3
<1>5. ReceiptInv'
  <2>1. \A d \in Receipt : flowRun[d].status = "none" => flowRun'[d].status = "none"
    BY <1>1, <1>4 DEF FlowRun
  <2> QED  BY <2>1 DEF AutomationInv, ReceiptInv, RecoverStaleRun
<1>6. runnerFaults' \in Nat  BY <1>0 DEF RecoverStaleRun, RunnerFault
<1> QED  BY <1>0, <1>2, <1>4, <1>5, <1>6, OthersMove DEF RecoverStaleRun

\* No run that nobody carries out has written anything; what a worker lists is the truth but
\* for the write under way, and what a settled run lists is the truth.
THEOREM AutomationInvariance == AutomationSpec => []AutomationInv
<1>1. AutomationInit => AutomationInv
  BY AutomationStarts
<1>2. AutomationInv /\ [AutomationNext]_automationVars => AutomationInv'
  <2> SUFFICES ASSUME AutomationInv, [AutomationNext]_automationVars PROVE AutomationInv'
    OBVIOUS
  <2>1. ASSUME OwnerOfFlow  PROVE AutomationInv'
    BY <2>1, OwnerKeeps
  <2>2. ASSUME NEW d \in Receipt, ReceiveWebhook(d)  PROVE AutomationInv'
    BY <2>2, ReceiveWebhookKeeps
  <2>3. ASSUME NEW d \in Receipt, ReceiptExpires(d)  PROVE AutomationInv'
    <3>1. /\ flow \in FlowSet /\ flowRun \in [FlowRun -> RunRow] /\ runnerFaults \in Nat
          /\ receipt \in [Receipt -> {"none", "held", "expired", "gone"}] /\ tombstone \in BOOLEAN
      BY FlowFields DEF AutomationInv, AutomationTypeOK, FlowSet
    <3>2. /\ receipt' \in [Receipt -> {"none", "held", "expired", "gone"}]
          /\ \A e \in Receipt : receipt'[e] = "none" <=> receipt[e] = "none"
      BY <2>3, <3>1 DEF ReceiptExpires
    <3>3. ReceiptInv'  BY <2>3, <3>2 DEF AutomationInv, ReceiptInv, ReceiptExpires
    <3> QED  BY <2>3, <3>1, <3>2, <3>3, OthersMove DEF ReceiptExpires
  <2>4. ASSUME DeleteExpired  PROVE AutomationInv'
    <3>1. tombstone \in BOOLEAN  BY DEF AutomationInv, AutomationTypeOK
    <3>2. PICK dropped \in SUBSET Receipt : dropped = {d \in Receipt : receipt[d] = "expired"}
      OBVIOUS
    <3> QED  BY <2>4, <3>1, <3>2, DropsKeep DEF DeleteExpired
  <2>5. ASSUME EraseCustomer  PROVE AutomationInv'
    <3>1. PICK dropped \in SUBSET Receipt :
            dropped = {d \in Receipt : receipt[d] \in {"held", "expired"}}
      OBVIOUS
    <3> QED  BY <2>5, <3>1, DropsKeep DEF EraseCustomer
  <2>6. ASSUME NEW r \in FlowRun, RecoverStaleRun(r)  PROVE AutomationInv'
    BY <2>6, RecoverKeeps
  <2>7. ASSUME NEW w \in Runner, RunnerStep(w)  PROVE AutomationInv'
    BY <2>7, ClaimFlowRunKeeps, CancelRunKeeps, PreflightKeeps, BeginActionKeeps,
       RefuseActionKeeps, ExecuteActionKeeps, SaveAnswerKeeps, FinishRunKeeps,
       EndFailedRunKeeps DEF RunnerStep
  <2>8. ASSUME NEW w \in Runner, CrashRunner(w)  PROVE AutomationInv'
    BY <2>8, CrashRunnerKeeps DEF CrashRunner
  <2>9. ASSUME NEW w \in Runner, LosePersist(w)  PROVE AutomationInv'
    BY <2>9, LosePersistKeeps
  <2>10. CASE UNCHANGED automationVars
    <3>1. AutomationTypeOK'  BY <2>10 DEF automationVars, AutomationInv, AutomationTypeOK
    <3>2. ReceiptInv'  BY <2>10 DEF automationVars, AutomationInv, ReceiptInv
    <3>3. \A r \in FlowRun : RunInv(r)'
      BY <2>10 DEF automationVars, AutomationInv, RunInv, Quiet, Certain, Listed
    <3>4. \A w \in Runner : TurnInv(runner[w])'
      BY <2>10 DEF automationVars, AutomationInv, TurnInv, Certain, Listed
    <3>5. \A u, v \in Runner : runner'[u].of = runner'[v].of /\ runner'[u].of # NoFlowRun => u = v
      BY <2>10 DEF automationVars, AutomationInv
    <3> QED  BY <3>1, <3>2, <3>3, <3>4, <3>5 DEF AutomationInv
  <2> QED
    BY <2>1, <2>2, <2>3, <2>4, <2>5, <2>6, <2>7, <2>8, <2>9, <2>10 DEF AutomationNext
<1> QED  BY <1>1, <1>2, PTL DEF AutomationSpec

\* WrittenOnce: an action of a run takes effect at the provider at most once, and only one
\* delivery of an event does.
THEOREM WritesAreOnce == AutomationSpec => []WrittenOnce
<1>1. AutomationInv => WrittenOnce
  <2> SUFFICES ASSUME AutomationInv PROVE WrittenOnce
    OBVIOUS
  <2>1. ASSUME NEW r \in FlowRun, NEW i \in ActionNo  PROVE written[r][i] <= 1
    BY DEF AutomationInv, RunInv
  <2>2. ASSUME NEW i \in ActionNo
        PROVE  Cardinality({d \in Receipt : written[d][i] > 0}) <= 1
    <3> DEFINE writers == {d \in Receipt : written[d][i] > 0}
    <3>1. \A d \in writers : receipt[d] # "none" /\ d \in Receipt
      <4> TAKE d \in writers
      <4>1. d \in FlowRun /\ d \in Receipt /\ ~(written[d][i] = 0)  BY DEF FlowRun
      <4>2. flowRun[d].status # "none"  BY <4>1 DEF AutomationInv, RunInv, Quiet
      <4> QED  BY <4>1, <4>2 DEF AutomationInv, ReceiptInv
    <3>2. \A d, e \in writers : d = e
      BY <3>1 DEF AutomationInv, ReceiptInv
    <3> HIDE DEF writers
    <3>3. writers = {} => Cardinality(writers) = 0
      <4>1. Cardinality({}) = 0  BY FS_EmptySet
      <4> QED  BY <4>1, Zenon
    <3>4. writers # {} => Cardinality(writers) = 1
      <4> SUFFICES ASSUME writers # {} PROVE Cardinality(writers) = 1
        OBVIOUS
      <4>1. PICK d : d \in writers  OBVIOUS
      <4>2. writers = {d}  BY <3>2, <4>1
      <4>3. Cardinality({d}) = 1  BY FS_Singleton
      <4> QED  BY <4>2, <4>3, Zenon
    <3>5. Cardinality(writers) <= 1
      <4>1. Cardinality(writers) \in {0, 1}  BY <3>3, <3>4
      <4> QED  BY <4>1
    <3> QED  BY <3>5 DEF writers
  <2> QED  BY <2>1, <2>2 DEF WrittenOnce
<1> QED  BY <1>1, AutomationInvariance, PTL

\* SettledRunsAreCertain: a run shown as succeeded, failed or cancelled lists each of its
\* writes that took effect as succeeded.
THEOREM SettledIsTrue == AutomationSpec => []SettledRunsAreCertain
<1>1. AutomationInv => SettledRunsAreCertain
  BY DEF AutomationInv, RunInv, Certain, Listed, SettledRunsAreCertain
<1> QED  BY <1>1, AutomationInvariance, PTL
=============================================================================
