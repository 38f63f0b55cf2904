---------------------------- MODULE CampaignSlots ----------------------------
(***************************************************************************)
(* The campaigns of one owner and the Redis slots that limit how many of   *)
(* them run at once (campaignUserSlots.ts), over every worker process.  An *)
(* execution takes the lock of its campaign, then a slot, renews both from *)
(* a timer and sends; it keeps the slot while its job only waits for       *)
(* recipients.  CampaignLifecycle looks inside one campaign, where a full  *)
(* house is a deferral; here are several, and only what moves a slot.      *)
(***************************************************************************)
EXTENDS Naturals, FiniteSets

CONSTANTS
  SlotCampaign,   \* campaigns of the owner
  SlotExec,       \* executions the workers run at once
  MaxRunning,     \* CAMPAIGN_MAX_RUNNING_PER_USER
  MaxSlotLapses,  \* leases a live execution loses: its slot, its lock or its job
  Free            \* no campaign, no holder

ASSUME SlotsAssumption ==
  /\ IsFiniteSet(SlotCampaign) /\ MaxRunning \in Nat \ {0} /\ MaxSlotLapses \in Nat
  /\ Free \notin SlotCampaign \cup SlotExec
  /\ "waiting" \notin SlotExec /\ "none" \notin SlotExec

VARIABLES
  slots,         \* members of campaign-user-slots:<owner>
  expired,       \* members whose score has passed, until the next acquisition
  executionLock, \* campaign-execution-lock of each campaign: its holder
  campaignJob,   \* its BullMQ job: none (or ended), waiting (or delayed), or who has it
  campaignState, \* its status; "ended" is failed or completed, "running" also scheduled
  run,           \* what each execution does, and whether its timer found it lost
  lapses

slotVars == <<slots, expired, executionLock, campaignJob, campaignState, run, lapses>>

Place == {"idle", "loading", "acquiring", "running", "releasing", "unlocking"}
NoRun == [of |-> Free, at |-> "idle", lost |-> FALSE]

SlotsTypeOK ==
  /\ slots \subseteq SlotCampaign /\ expired \subseteq slots
  /\ executionLock \in [SlotCampaign -> SlotExec \cup {Free}]
  /\ campaignJob \in [SlotCampaign -> SlotExec \cup {"none", "waiting"}]
  /\ campaignState \in [SlotCampaign -> {"running", "paused", "ended", "deleted"}]
  /\ run \in [SlotExec -> [of : SlotCampaign \cup {Free}, at : Place, lost : BOOLEAN]]
  /\ lapses \in 0..MaxSlotLapses

SlotsInit ==
  /\ slots = {} /\ expired = {}
  /\ executionLock = [c \in SlotCampaign |-> Free]
  /\ campaignJob = [c \in SlotCampaign |-> "waiting"]
  /\ campaignState = [c \in SlotCampaign |-> "running"]
  /\ run = [e \in SlotExec |-> NoRun]
  /\ lapses = 0

Of(e) == run[e].of
AtPlace(e, places) == run[e].at \in places
Move(e, place) == run' = [run EXCEPT ![e].at = place]

\* The timer is set behind the lock and cleared first of all at the end.
Beats(e) == AtPlace(e, {"loading", "acquiring", "running"})
\* The executions of c that renew its slot.
Renews(e, c) == AtPlace(e, {"running"}) /\ Of(e) = c
Owns(e, c) == ~AtPlace(e, {"idle"}) /\ Of(e) = c
-----------------------------------------------------------------------------
(***************************************************************************)
(* The three scripts on the sorted set.                                    *)
(***************************************************************************)
Live == slots \ expired

\* Mutant: a campaign is let in when the limit is reached.
HasRoomAtLimit(c) == c \in Live \/ Cardinality(Live) <= MaxRunning

HasRoom(c) == c \in Live \/ Cardinality(Live) < MaxRunning

AcquireSlot(c) == slots' = Live \cup {c} /\ expired' = {}
PurgeSlots == slots' = Live /\ expired' = {}
RemoveSlot(c) == slots' = slots \ {c} /\ expired' = expired \ {c}

\* Mutant: a slot that is gone is only noticed through the lock.
SlotGoneUnnoticed(c) == FALSE
SlotGone(c) == c \notin slots
-----------------------------------------------------------------------------
(***************************************************************************)
(* One execution.                                                          *)
(***************************************************************************)
\* job.moveToDelayed: refused when BullMQ no longer counts the job as e's.
Delay(e) ==
  /\ campaignJob[Of(e)] = e
  /\ campaignJob' = [campaignJob EXCEPT ![Of(e)] = "waiting"]

\* The job is taken and the lock set (SET NX).  Taking it while the lock is held, or while
\* the worker drains, only delays the job again.
TakeCampaign(e, c) ==
  /\ AtPlace(e, {"idle"}) /\ campaignJob[c] = "waiting" /\ executionLock[c] = Free
  /\ campaignJob' = [campaignJob EXCEPT ![c] = e]
  /\ executionLock' = [executionLock EXCEPT ![c] = e]
  /\ run' = [run EXCEPT ![e] = [of |-> c, at |-> "loading", lost |-> FALSE]]
  /\ UNCHANGED <<slots, expired, campaignState, lapses>>

\* A stopped campaign gives its slot back; a deleted one leaves it to expire.
LoadState(e) ==
  /\ AtPlace(e, {"loading"})
  /\ Move(e, CASE campaignState[Of(e)] = "running" -> "acquiring"
               [] campaignState[Of(e)] = "deleted" -> "unlocking"
               [] OTHER -> "releasing")
  /\ UNCHANGED <<slots, expired, executionLock, campaignJob, campaignState, lapses>>

AcquireUserSlot(e) ==
  /\ AtPlace(e, {"acquiring"})
  /\ HasRoom(Of(e))
  /\ AcquireSlot(Of(e))
  /\ Move(e, "running")
  /\ UNCHANGED <<executionLock, campaignJob, campaignState, lapses>>

WaitForSlot(e) ==
  /\ AtPlace(e, {"acquiring"})
  /\ ~HasRoom(Of(e))
  /\ PurgeSlots
  /\ Delay(e)
  /\ Move(e, "unlocking")
  /\ UNCHANGED <<executionLock, campaignState, lapses>>

\* The slot is kept: sender cooldown, recipients deferred or pending elsewhere.
WaitForRecipients(e) ==
  /\ AtPlace(e, {"running"})
  /\ Delay(e)
  /\ Move(e, "unlocking")
  /\ UNCHANGED <<slots, expired, executionLock, campaignState, lapses>>

\* A draining worker, or no database connection in time.
YieldSlot(e) ==
  /\ AtPlace(e, {"running"})
  /\ Delay(e) \/ (campaignJob[Of(e)] # e /\ UNCHANGED campaignJob)
  /\ Move(e, "releasing")
  /\ UNCHANGED <<slots, expired, executionLock, campaignState, lapses>>

CompleteCampaign(e) ==
  /\ AtPlace(e, {"running"}) /\ campaignState[Of(e)] = "running"
  /\ campaignState' = [campaignState EXCEPT ![Of(e)] = "ended"]
  /\ Move(e, "releasing")
  /\ UNCHANGED <<slots, expired, executionLock, campaignJob, lapses>>

SeeStopped(e) ==
  /\ AtPlace(e, {"running"}) /\ campaignState[Of(e)] # "running"
  /\ Move(e, "releasing")
  /\ UNCHANGED <<slots, expired, executionLock, campaignJob, campaignState, lapses>>

\* The database fails, or the error is caught on a campaign that is not running.  No
\* connection in time before there is a slot only delays the job.
FailKeepingSlot(e) ==
  /\ Beats(e)
  /\ UNCHANGED campaignJob \/ (~AtPlace(e, {"running"}) /\ Delay(e))
  /\ Move(e, "unlocking")
  /\ UNCHANGED <<slots, expired, executionLock, campaignState, lapses>>

\* Any other error, a lost lease among them: the campaign fails.
FailCampaign(e) ==
  /\ AtPlace(e, {"acquiring", "running"}) /\ campaignState[Of(e)] = "running"
  /\ campaignState' = [campaignState EXCEPT ![Of(e)] = "ended"]
  /\ Move(e, IF AtPlace(e, {"running"}) THEN "releasing" ELSE "unlocking")
  /\ UNCHANGED <<slots, expired, executionLock, campaignJob, lapses>>

ReleaseSlot(e) ==
  /\ AtPlace(e, {"releasing"})
  /\ RemoveSlot(Of(e))
  /\ Move(e, "unlocking")
  /\ UNCHANGED <<executionLock, campaignJob, campaignState, lapses>>

\* Compare and delete; then BullMQ settles the job, if it is still e's.
Unlock(e) ==
  /\ AtPlace(e, {"unlocking"})
  /\ executionLock' = [executionLock EXCEPT ![Of(e)] = IF @ = e THEN Free ELSE @]
  /\ campaignJob' = [campaignJob EXCEPT ![Of(e)] = IF @ = e THEN "none" ELSE @]
  /\ run' = [run EXCEPT ![e] = NoRun]
  /\ UNCHANGED <<slots, expired, campaignState, lapses>>

HeartbeatLock(e) ==
  /\ Beats(e) /\ executionLock[Of(e)] # e
  /\ run' = [run EXCEPT ![e].lost = TRUE]
  /\ UNCHANGED <<slots, expired, executionLock, campaignJob, campaignState, lapses>>

\* ZADD of a member that is present renews it, expired or not.
HeartbeatSlot(e) ==
  /\ AtPlace(e, {"running"})
  /\ IF SlotGone(Of(e))
       THEN run' = [run EXCEPT ![e].lost = TRUE] /\ UNCHANGED expired
       ELSE expired' = expired \ {Of(e)} /\ UNCHANGED run
  /\ UNCHANGED <<slots, executionLock, campaignJob, campaignState, lapses>>

CrashExecution(e) ==
  /\ ~AtPlace(e, {"idle"})
  /\ run' = [run EXCEPT ![e] = NoRun]
  /\ UNCHANGED <<slots, expired, executionLock, campaignJob, campaignState, lapses>>
-----------------------------------------------------------------------------
(***************************************************************************)
(* Leases that run out, of the dead and, a bounded number of times, of the *)
(* living; and the owner.                                                  *)
(***************************************************************************)
Lapse(alive) ==
  IF alive THEN lapses < MaxSlotLapses /\ lapses' = lapses + 1 ELSE UNCHANGED lapses

\* maxStalledCount is 0: a job whose lock ran out fails.
StallJob(c) ==
  /\ campaignJob[c] \in SlotExec
  /\ Lapse(Of(campaignJob[c]) = c)
  /\ campaignJob' = [campaignJob EXCEPT ![c] = "none"]
  /\ UNCHANGED <<slots, expired, executionLock, campaignState, run>>

ExpireExecutionLock(c) ==
  /\ executionLock[c] # Free
  /\ Lapse(Owns(executionLock[c], c))
  /\ executionLock' = [executionLock EXCEPT ![c] = Free]
  /\ UNCHANGED <<slots, expired, campaignJob, campaignState, run>>

ExpireSlot(c) ==
  /\ c \in Live
  /\ Lapse(\E e \in SlotExec : Renews(e, c))
  /\ expired' = expired \cup {c}
  /\ UNCHANGED <<slots, executionLock, campaignJob, campaignState, run>>

\* Start or resume.  A paused campaign whose job is active is refused, another one keeps
\* that job.
StartCampaign(c) ==
  /\ campaignState[c] # "deleted"
  /\ campaignJob[c] \in SlotExec => campaignState[c] # "paused"
  /\ campaignState' = [campaignState EXCEPT ![c] = "running"]
  /\ campaignJob' = [campaignJob EXCEPT ![c] = IF @ \in SlotExec THEN @ ELSE "waiting"]
  /\ UNCHANGED <<slots, expired, executionLock, run, lapses>>

PauseCampaign(c) ==
  /\ campaignState[c] = "running"
  /\ campaignState' = [campaignState EXCEPT ![c] = "paused"]
  /\ UNCHANGED <<slots, expired, executionLock, campaignJob, run, lapses>>

DeleteCampaign(c) ==
  /\ campaignState[c] \in {"paused", "ended"}
  /\ campaignState' = [campaignState EXCEPT ![c] = "deleted"]
  /\ UNCHANGED <<slots, expired, executionLock, campaignJob, run, lapses>>

\* How an execution that has its slot ends.
EndRun(e) ==
  \/ WaitForRecipients(e) \/ YieldSlot(e) \/ CompleteCampaign(e) \/ SeeStopped(e)
  \/ FailCampaign(e)

ExecutionStep(e) ==
  \/ \E c \in SlotCampaign : TakeCampaign(e, c)
  \/ LoadState(e) \/ AcquireUserSlot(e) \/ WaitForSlot(e)
  \/ EndRun(e) \/ FailKeepingSlot(e) \/ ReleaseSlot(e) \/ Unlock(e)
  \/ HeartbeatLock(e) \/ HeartbeatSlot(e) \/ CrashExecution(e)

SlotsNext ==
  \/ \E e \in SlotExec : ExecutionStep(e)
  \/ \E c \in SlotCampaign :
       \/ StallJob(c) \/ ExpireExecutionLock(c) \/ ExpireSlot(c)
       \/ StartCampaign(c) \/ PauseCampaign(c) \/ DeleteCampaign(c)

SlotsSpec == SlotsInit /\ [][SlotsNext]_slotVars

\* The timer fires; an execution that is lost stops at its next chunk of recipients.
SlotsFairness ==
  \A e \in SlotExec :
    WF_slotVars(HeartbeatSlot(e)) /\ WF_slotVars(run[e].lost /\ EndRun(e))
-----------------------------------------------------------------------------
(***************************************************************************)
(* Properties.                                                             *)
(***************************************************************************)
Running == {Of(e) : e \in {x \in SlotExec : AtPlace(x, {"running"})}}

\* While live executions keep their leases, no more campaigns of an owner send than the
\* limit, whatever workers crash, yield, keep or release slots (acquireCampaignUserSlot).
RunningWithinLimit == lapses = 0 => Cardinality(Running) <= MaxRunning

\* When a live execution lost its slot and another campaign took it, the heartbeat ends
\* one of the two.
OverLimitIsRepaired == Cardinality(Running) > MaxRunning ~> Cardinality(Running) <= MaxRunning
=============================================================================
