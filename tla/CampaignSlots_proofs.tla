------------------------ MODULE CampaignSlots_proofs ------------------------
(* Proofs about CampaignSlots for any number of campaigns and executions. *)
EXTENDS CampaignSlots, FiniteSetTheorems, TLAPS

USE SlotsAssumption

\* An execution that is not idle has a campaign, so it only ever adds a campaign to the
\* slots.
WellFormed ==
  /\ SlotsTypeOK
  /\ \A e \in SlotExec : ~AtPlace(e, {"idle"}) => Of(e) \in SlotCampaign

Execution == [of : SlotCampaign \cup {Free}, at : Place, lost : BOOLEAN]

\* A heartbeat that finds its lease gone changes nothing else of the execution.
LEMMA LossIsNoticed ==
  ASSUME NEW r \in Execution
  PROVE  /\ [r EXCEPT !.lost = TRUE] \in Execution
         /\ [r EXCEPT !.lost = TRUE].at = r.at
         /\ [r EXCEPT !.lost = TRUE].of = r.of
<1>1. [r EXCEPT !.lost = TRUE] \in Execution
  BY Zenon DEF Execution
<1>2. [r EXCEPT !.lost = TRUE].at = r.at /\ [r EXCEPT !.lost = TRUE].of = r.of
  BY DEF Execution
<1> QED  BY <1>1, <1>2

LEMMA WellFormedAlways == SlotsSpec => []WellFormed
<1>1. SlotsInit => WellFormed
  BY DEF SlotsInit, SlotsTypeOK, NoRun, Place, WellFormed, AtPlace
<1>2. WellFormed /\ [SlotsNext]_slotVars => WellFormed'
  <2> SUFFICES ASSUME WellFormed, [SlotsNext]_slotVars
               PROVE  WellFormed'
    OBVIOUS
  <2> USE DEF WellFormed, SlotsTypeOK, Place, Of, AtPlace, Move, Live
  <2>1. ASSUME NEW e \in SlotExec, NEW c \in SlotCampaign, TakeCampaign(e, c)
        PROVE  WellFormed'
    BY <2>1 DEF TakeCampaign
  <2>2. ASSUME NEW e \in SlotExec, LoadState(e)
        PROVE  WellFormed'
    BY <2>2 DEF LoadState
  <2>3. ASSUME NEW e \in SlotExec, AcquireUserSlot(e)
        PROVE  WellFormed'
    BY <2>3 DEF AcquireUserSlot, AcquireSlot
  <2>4. ASSUME NEW e \in SlotExec, WaitForSlot(e)
        PROVE  WellFormed'
    BY <2>4 DEF WaitForSlot, PurgeSlots, Delay
  <2>5. ASSUME NEW e \in SlotExec, EndRun(e)
        PROVE  WellFormed'
    BY <2>5 DEF EndRun, WaitForRecipients, YieldSlot, CompleteCampaign, SeeStopped,
      FailCampaign, Delay
  <2>6. ASSUME NEW e \in SlotExec, FailKeepingSlot(e)
        PROVE  WellFormed'
    BY <2>6 DEF FailKeepingSlot, Delay, Beats
  <2>7. ASSUME NEW e \in SlotExec, ReleaseSlot(e)
        PROVE  WellFormed'
    BY <2>7 DEF ReleaseSlot, RemoveSlot
  <2>8. ASSUME NEW e \in SlotExec, Unlock(e)
        PROVE  WellFormed'
    BY <2>8 DEF Unlock, NoRun
  <2>9. ASSUME NEW e \in SlotExec, HeartbeatLock(e) \/ HeartbeatSlot(e) \/ CrashExecution(e)
        PROVE  WellFormed'
    <3>0. ASSUME run' = [run EXCEPT ![e].lost = TRUE]
          PROVE  run' \in [SlotExec -> Execution]
                 /\ \A x \in SlotExec : run'[x].at = run[x].at /\ run'[x].of = run[x].of
      <4>1. run \in [SlotExec -> Execution]
        BY DEF Execution
      <4> HIDE DEF SlotsTypeOK, WellFormed
      <4>2. [run[e] EXCEPT !.lost = TRUE] \in Execution
        BY <4>1, LossIsNoticed
      <4> QED  BY <3>0, <4>1, <4>2, LossIsNoticed
    <3>1. CASE HeartbeatLock(e)
      BY <3>0, <3>1 DEF HeartbeatLock, Execution
    <3>2. CASE HeartbeatSlot(e)
      <4>1. CASE SlotGone(Of(e))
        BY <3>0, <3>2, <4>1 DEF HeartbeatSlot, Execution
      <4>2. CASE ~SlotGone(Of(e))
        BY <3>2, <4>2 DEF HeartbeatSlot
      <4> QED  BY <4>1, <4>2
    <3>3. CASE CrashExecution(e)
      BY <3>3 DEF CrashExecution, NoRun
    <3> QED  BY <2>9, <3>1, <3>2, <3>3
  <2>10. ASSUME NEW c \in SlotCampaign,
                StallJob(c) \/ ExpireExecutionLock(c) \/ ExpireSlot(c)
         PROVE  WellFormed'
    BY <2>10 DEF StallJob, ExpireExecutionLock, ExpireSlot, Lapse
  <2>11. ASSUME NEW c \in SlotCampaign,
                StartCampaign(c) \/ PauseCampaign(c) \/ DeleteCampaign(c)
         PROVE  WellFormed'
    BY <2>11 DEF StartCampaign, PauseCampaign, DeleteCampaign
  <2>12. CASE UNCHANGED slotVars
    BY <2>12 DEF slotVars
  <2> QED
    BY <2>1, <2>2, <2>3, <2>4, <2>5, <2>6, <2>7, <2>8, <2>9, <2>10, <2>11, <2>12
    DEF SlotsNext, ExecutionStep
<1> QED  BY <1>1, <1>2, PTL DEF SlotsSpec

\* The set of slots, the locks, the jobs and every execution stay well formed.
THEOREM SlotsTypeCorrect == SlotsSpec => []SlotsTypeOK
<1>1. SlotsSpec => []WellFormed
  BY WellFormedAlways
<1>2. WellFormed => SlotsTypeOK
  BY DEF WellFormed
<1> QED  BY <1>1, <1>2, PTL

(***************************************************************************)
(* Why no more campaigns run than the limit while live executions keep     *)
(* their leases: an execution that is not idle holds the lock of its       *)
(* campaign, so only one of a campaign can release its slot; one that      *)
(* sends has its campaign in a slot that has not expired; and these slots  *)
(* are within the limit.  None of the three is inductive without the       *)
(* others.                                                                 *)
(***************************************************************************)
LeasesKept ==
  /\ \A e \in SlotExec : ~AtPlace(e, {"idle"}) => executionLock[Of(e)] = e
  /\ \A e \in SlotExec : AtPlace(e, {"running"}) => Of(e) \in Live
  /\ Cardinality(Live) <= MaxRunning

SlotsInv == WellFormed /\ (lapses = 0 => LeasesKept)

LEMMA LiveIsFinite == ASSUME SlotsTypeOK PROVE IsFiniteSet(Live)
  BY FS_Subset DEF SlotsTypeOK, Live

\* Letting a campaign in keeps the live slots within the limit.
LEMMA AcquisitionIsBounded ==
  ASSUME SlotsTypeOK, NEW c \in SlotCampaign, HasRoom(c), Cardinality(Live) <= MaxRunning
  PROVE  Cardinality(Live \cup {c}) <= MaxRunning
<1>1. IsFiniteSet(Live) /\ Cardinality(Live) \in Nat
  BY LiveIsFinite, FS_CardinalityType
<1>2. Cardinality(Live \cup {c}) = IF c \in Live THEN Cardinality(Live)
                                               ELSE Cardinality(Live) + 1
  BY <1>1, FS_AddElement
<1> QED  BY <1>1, <1>2 DEF HasRoom

\* Giving a slot back keeps them within the limit.
LEMMA ReleaseIsBounded ==
  ASSUME SlotsTypeOK, NEW S \in SUBSET Live, Cardinality(Live) <= MaxRunning
  PROVE  Cardinality(S) <= MaxRunning
<1>1. IsFiniteSet(Live) /\ Cardinality(Live) \in Nat
  BY LiveIsFinite, FS_CardinalityType
<1>2. IsFiniteSet(S) /\ Cardinality(S) \in Nat /\ Cardinality(S) <= Cardinality(Live)
  BY <1>1, FS_Subset, FS_CardinalityType
<1> QED  BY <1>1, <1>2

\* One step of an execution keeps the leases.
LEMMA ExecutionKeepsLeases ==
  ASSUME WellFormed, LeasesKept, NEW e \in SlotExec, ExecutionStep(e)
  PROVE  LeasesKept'
<1> USE DEF WellFormed, SlotsTypeOK, Place, Of, AtPlace, Move, Live, LeasesKept
<1>1. ASSUME NEW c \in SlotCampaign, TakeCampaign(e, c)
      PROVE  LeasesKept'
  BY <1>1 DEF TakeCampaign
<1>2. CASE LoadState(e)
  BY <1>2 DEF LoadState
<1>3. CASE AcquireUserSlot(e)
  <2>1. Live' = Live \cup {Of(e)}
    BY <1>3 DEF AcquireUserSlot, AcquireSlot
  <2>2. Cardinality(Live') <= MaxRunning
    BY <1>3, <2>1, AcquisitionIsBounded DEF AcquireUserSlot
  <2> QED  BY <1>3, <2>1, <2>2 DEF AcquireUserSlot
<1>4. CASE WaitForSlot(e)
  BY <1>4 DEF WaitForSlot, PurgeSlots
<1>5. CASE EndRun(e)
  <2>1. CASE WaitForRecipients(e)
    BY <2>1 DEF WaitForRecipients
  <2>2. CASE YieldSlot(e)
    BY <2>2 DEF YieldSlot
  <2>3. CASE CompleteCampaign(e)
    BY <2>3 DEF CompleteCampaign
  <2>4. CASE SeeStopped(e)
    BY <2>4 DEF SeeStopped
  <2>5. CASE FailCampaign(e)
    BY <2>5 DEF FailCampaign
  <2> QED  BY <1>5, <2>1, <2>2, <2>3, <2>4, <2>5 DEF EndRun
<1>6. CASE FailKeepingSlot(e)
  BY <1>6 DEF FailKeepingSlot, Beats
<1>7. CASE ReleaseSlot(e)
  <2>1. Live' = Live \ {Of(e)}
    BY <1>7 DEF ReleaseSlot, RemoveSlot
  <2>2. Cardinality(Live') <= MaxRunning
    BY <2>1, ReleaseIsBounded
  <2>3. \A x \in SlotExec : AtPlace(x, {"running"}) => Of(x) # Of(e)
    BY <1>7 DEF ReleaseSlot
  <2> QED  BY <1>7, <2>1, <2>2, <2>3 DEF ReleaseSlot
<1>8. CASE Unlock(e)
  BY <1>8 DEF Unlock, NoRun
<1>9. CASE HeartbeatLock(e)
  BY <1>9 DEF HeartbeatLock
<1>10. CASE HeartbeatSlot(e)
  <2>1. ~SlotGone(Of(e))
    BY <1>10 DEF HeartbeatSlot, SlotGone
  <2>2. Live' = Live
    BY <1>10, <2>1 DEF HeartbeatSlot
  <2> QED  BY <1>10, <2>1, <2>2 DEF HeartbeatSlot
<1>11. CASE CrashExecution(e)
  BY <1>11 DEF CrashExecution, NoRun
<1> QED
  BY <1>1, <1>2, <1>3, <1>4, <1>5, <1>6, <1>7, <1>8, <1>9, <1>10, <1>11 DEF ExecutionStep

\* So does a lease that runs out without being one that a live execution renews, and
\* whatever the owner asks.
LEMMA OthersKeepLeases ==
  ASSUME WellFormed, LeasesKept, lapses = 0, lapses' = 0, NEW c \in SlotCampaign,
         \/ StallJob(c) \/ ExpireExecutionLock(c) \/ ExpireSlot(c)
         \/ StartCampaign(c) \/ PauseCampaign(c) \/ DeleteCampaign(c)
  PROVE  LeasesKept'
<1> USE DEF WellFormed, SlotsTypeOK, Place, Of, AtPlace, Live, LeasesKept
<1>1. CASE StallJob(c)
  BY <1>1 DEF StallJob
<1>2. CASE ExpireExecutionLock(c)
  <2>1. \A e \in SlotExec : ~AtPlace(e, {"idle"}) => Of(e) # c
    BY <1>2 DEF ExpireExecutionLock, Lapse, Owns
  <2> QED  BY <1>2, <2>1 DEF ExpireExecutionLock
<1>3. CASE ExpireSlot(c)
  <2>1. Live' = Live \ {c}
    BY <1>3 DEF ExpireSlot
  <2>2. Cardinality(Live') <= MaxRunning
    BY <2>1, ReleaseIsBounded
  <2>3. \A e \in SlotExec : AtPlace(e, {"running"}) => Of(e) # c
    BY <1>3 DEF ExpireSlot, Lapse, Renews
  <2> QED  BY <1>3, <2>1, <2>2, <2>3 DEF ExpireSlot
<1>4. CASE StartCampaign(c) \/ PauseCampaign(c) \/ DeleteCampaign(c)
  BY <1>4 DEF StartCampaign, PauseCampaign, DeleteCampaign
<1> QED  BY <1>1, <1>2, <1>3, <1>4

LEMMA SlotsInvAlways == SlotsSpec => []SlotsInv
<1>1. SlotsInit => SlotsInv
  BY FS_EmptySet DEF SlotsInit, SlotsInv, SlotsTypeOK, WellFormed, LeasesKept, Live, NoRun,
    Place, AtPlace
<1>2. SlotsInv /\ WellFormed' /\ [SlotsNext]_slotVars => SlotsInv'
  <2> SUFFICES ASSUME SlotsInv, WellFormed', [SlotsNext]_slotVars, lapses' = 0
               PROVE  LeasesKept'
    BY DEF SlotsInv
  <2>1. CASE UNCHANGED slotVars
    BY <2>1 DEF SlotsInv, LeasesKept, Live, AtPlace, Of, slotVars
  <2>2. ASSUME NEW e \in SlotExec, ExecutionStep(e)
        PROVE  LeasesKept'
    <3>1. lapses = 0
      BY <2>2 DEF ExecutionStep, TakeCampaign, LoadState, AcquireUserSlot, WaitForSlot,
        EndRun, WaitForRecipients, YieldSlot, CompleteCampaign, SeeStopped, FailCampaign,
        FailKeepingSlot, ReleaseSlot, Unlock, HeartbeatLock, HeartbeatSlot, CrashExecution
    <3> QED  BY <2>2, <3>1, ExecutionKeepsLeases DEF SlotsInv
  <2>3. ASSUME NEW c \in SlotCampaign,
               \/ StallJob(c) \/ ExpireExecutionLock(c) \/ ExpireSlot(c)
               \/ StartCampaign(c) \/ PauseCampaign(c) \/ DeleteCampaign(c)
        PROVE  LeasesKept'
    <3>1. lapses = 0
      BY <2>3 DEF SlotsInv, WellFormed, SlotsTypeOK, StallJob, ExpireExecutionLock,
        ExpireSlot, StartCampaign, PauseCampaign, DeleteCampaign, Lapse
    <3> QED  BY <2>3, <3>1, OthersKeepLeases DEF SlotsInv
  <2> QED  BY <2>1, <2>2, <2>3 DEF SlotsNext
<1> QED  BY <1>1, <1>2, WellFormedAlways, PTL DEF SlotsSpec

\* While live executions keep their leases, no more campaigns of an owner send than the
\* limit, for any number of campaigns, executions, crashes and requests.
THEOREM LimitIsKept == SlotsSpec => []RunningWithinLimit
<1>1. SlotsInv => RunningWithinLimit
  <2> SUFFICES ASSUME SlotsInv, lapses = 0
               PROVE  Cardinality(Running) <= MaxRunning
    BY DEF RunningWithinLimit
  <2>1. Running \in SUBSET Live
    BY DEF SlotsInv, LeasesKept, Running
  <2> QED  BY <2>1, ReleaseIsBounded DEF SlotsInv, LeasesKept, WellFormed
<1> QED  BY <1>1, SlotsInvAlways, PTL
=============================================================================
