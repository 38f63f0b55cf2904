--------------------------- MODULE WabaOnboarding ---------------------------
(***************************************************************************)
(* Onboarding of one WhatsApp account.  Every Embedded Signup is a durable *)
(* onboarding row; workers claim rows under a lease, walk through Meta's   *)
(* setup and register the account's phone.  Before every Meta call a       *)
(* worker renews its lease; a worker that lost it writes nothing more.     *)
(* Onboardings are numbered in the order of created_at.                    *)
(***************************************************************************)
EXTENDS Integers

CONSTANTS
  Signups,          \* number of onboardings
  OnboardWorker,    \* processes that run the onboarding scheduler
  MaxSetupAttempts, \* waba_onboardings.max_attempts
  MaxNudges,        \* selections, retries by the user and account events
  MaxLeaseFaults,   \* crashes and leases that expire under a live worker
  SignupLoads,      \* the numbers of signups, nudges and faults that a run combines
  Unleased

ASSUME OnboardingAssumption ==
  /\ Signups \in Nat /\ MaxSetupAttempts \in Nat \ {0}
  /\ MaxNudges \in Nat /\ MaxLeaseFaults \in Nat
  /\ SignupLoads \subseteq
       [signups : 0..Signups, nudges : 0..MaxNudges, faults : 0..MaxLeaseFaults]
  /\ Unleased \notin OnboardWorker

Onboarding == 1..Signups

VARIABLES
  signup,      \* waba_onboardings rows
  account,     \* waba_accounts.current_onboarding_id, 0 before the account exists
  credential,  \* waba_credentials.onboarding_id
  setup,       \* the onboarding each worker processes, and how far it is
  phone,       \* the phone at Meta: "unregistered", "registering", "connected"
  dispatched,  \* register requests of an onboarding that Meta did not definitely refuse
  nudges, leaseFaults  \* those still to come

onboardingVars ==
  <<signup, account, credential, setup, phone, dispatched, nudges, leaseFaults>>

SignupRow == [status : {"absent", "none", "exchanging_code", "exchange_uncertain", "failed", "pending",
                        "processing", "needs_selection", "action_required", "connected"},
              lease : OnboardWorker \union {Unleased}, fresh : BOOLEAN,
              attempts : 0..(MaxSetupAttempts + MaxLeaseFaults + 1),
              registration : {"none", "uncertain", "refused", "accepted"},
              chosen : BOOLEAN, wakeable : BOOLEAN]
Setup == [of : 0..Signups, step : {"idle", "inspect", "account", "phone", "register", "dispatch",
                                   "accepted", "refused", "confirm", "connect"}]

OnboardingTypeOK ==
  /\ signup \in [Onboarding -> SignupRow]
  /\ account \in 0..Signups /\ credential \in 0..Signups
  /\ setup \in [OnboardWorker -> Setup]
  /\ phone \in {"unregistered", "registering", "connected"}
  /\ dispatched \in [Onboarding -> 0..2]
  /\ nudges \in 0..MaxNudges /\ leaseFaults \in 0..MaxLeaseFaults

OnboardingInit ==
  /\ \E load \in SignupLoads :
       /\ signup = [o \in Onboarding |-> [status |-> IF o <= load.signups THEN "none" ELSE "absent",
                                          lease |-> Unleased, fresh |-> FALSE,
                                          attempts |-> 0, registration |-> "none",
                                          chosen |-> FALSE, wakeable |-> FALSE]]
       /\ nudges = load.nudges /\ leaseFaults = load.faults
  /\ account = 0 /\ credential = 0
  /\ setup = [w \in OnboardWorker |-> [of |-> 0, step |-> "idle"]]
  /\ phone = "unregistered"
  /\ dispatched = [o \in Onboarding |-> 0]

Write(o, row) ==
  /\ signup' = [signup EXCEPT ![o] = row]
  /\ UNCHANGED <<account, credential, setup, phone, dispatched, nudges, leaseFaults>>
-----------------------------------------------------------------------------
(***************************************************************************)
(* The signup request: the row is reserved, then the code is exchanged for *)
(* a token once.                                                           *)
(***************************************************************************)
Reserve(o) ==
  /\ signup[o].status = "none" /\ \A older \in 1..(o - 1) : signup[older].status # "none"
  /\ Write(o, [signup[o] EXCEPT !.status = "exchanging_code"])

\* The token is saved, or Meta refuses the code, or its answer is lost or later than the
\* two minutes after which a claim writes the exchange off.
ExchangeCode(o) ==
  /\ signup[o].status = "exchanging_code"
  /\ \E outcome \in {"pending", "failed", "exchange_uncertain"} :
       Write(o, [signup[o] EXCEPT !.status = outcome])

Stopped(o) == signup[o].status \in {"needs_selection", "action_required"}
HasToken(o) == Stopped(o) \/ signup[o].status \in {"pending", "processing", "connected"}

Nudge == nudges > 0 /\ nudges' = nudges - 1

Restarted(o) == [signup[o] EXCEPT !.status = "pending", !.attempts = 0]

\* The user chooses the phone: work in progress loses its lease.
Select(o) ==
  /\ Nudge
  /\ HasToken(o) /\ signup[o].status # "connected" /\ ~signup[o].chosen
  /\ signup' = [signup EXCEPT ![o] =
                  [(IF Stopped(o) THEN [Restarted(o) EXCEPT !.wakeable = FALSE] ELSE @)
                     EXCEPT !.status = "pending", !.lease = Unleased, !.chosen = TRUE]]
  /\ UNCHANGED <<account, credential, setup, phone, dispatched, leaseFaults>>

Retry(o) ==
  /\ Nudge
  /\ Stopped(o)
  /\ signup' = [signup EXCEPT ![o] = [Restarted(o) EXCEPT !.wakeable = FALSE]]
  /\ UNCHANGED <<account, credential, setup, phone, dispatched, leaseFaults>>

\* An account_update webhook wakes the onboardings that wait for Meta.
AccountEvent ==
  LET Woken(o) == (Stopped(o) \/ signup[o].status = "pending") /\ signup[o].wakeable IN
  /\ Nudge
  /\ \E o \in Onboarding : Woken(o)
  /\ signup' = [o \in Onboarding |-> IF Woken(o) THEN Restarted(o) ELSE signup[o]]
  /\ UNCHANGED <<account, credential, setup, phone, dispatched, leaseFaults>>
-----------------------------------------------------------------------------
(***************************************************************************)
(* A worker.  Its lease token is new with every claim; as it works on one  *)
(* row at a time, the token is named after it.                             *)
(***************************************************************************)
\* Mutant: the row of a lost worker is not taken over.
ClaimablePending(o) == signup[o].status = "pending"

Claimable(o) ==
  \/ signup[o].status = "pending"
  \/ signup[o].status = "processing" /\ ~signup[o].fresh

ClaimSignup(w, o) ==
  /\ setup[w].step = "idle"
  /\ Claimable(o)
  /\ signup' = [signup EXCEPT ![o].status = "processing", ![o].lease = w, ![o].fresh = TRUE,
                              ![o].attempts = @ + 1]
  /\ setup' = [setup EXCEPT ![w] = [of |-> o, step |-> "inspect"]]
  /\ UNCHANGED <<account, credential, phone, dispatched, nudges, leaseFaults>>

Holds(w) == LET row == signup[setup[w].of] IN row.status = "processing" /\ row.lease = w

Go(w, step) == setup' = [setup EXCEPT ![w].step = step]
LeaveSetup(w) == setup' = [setup EXCEPT ![w] = [of |-> 0, step |-> "idle"]]

\* checkpoint: written under the lease, which it renews.
Renewed(w, row) == signup' = [signup EXCEPT ![setup[w].of] = [row EXCEPT !.fresh = TRUE]]

\* The status an error leaves: temporary ones are retried until the attempts are used up.
StatusAfter(o, error) ==
  CASE error = "selection" -> "needs_selection"
    [] error = "temporary" /\ signup[o].attempts < MaxSetupAttempts -> "pending"
    [] OTHER -> "action_required"

\* process() ends with an error, saved only under the lease.
FailWith(w, error) ==
  LET o == setup[w].of IN
  /\ signup' = IF Holds(w)
               THEN [signup EXCEPT ![o].status = StatusAfter(o, error), ![o].lease = Unleased,
                                   ![o].fresh = FALSE, ![o].wakeable = error = "temporary"]
               ELSE signup
  /\ LeaveSetup(w)

\* Before any Meta call the worker learns that its lease is gone.
LoseLease(w) ==
  /\ setup[w].step \notin {"idle", "dispatch"} /\ ~Holds(w)
  /\ LeaveSetup(w)
  /\ UNCHANGED <<signup, account, credential, phone, dispatched, nudges, leaseFaults>>

\* A Meta call, a check of its answer or the database fails before the phone is registered.
Fail(w) ==
  /\ setup[w].step \in {"inspect", "account", "phone", "register", "confirm", "connect"}
  /\ \E error \in {"temporary", "definite"} \union (IF setup[w].step = "inspect"
                                                   THEN {"selection"} ELSE {}) :
       FailWith(w, error)
  /\ UNCHANGED <<account, credential, phone, dispatched, nudges, leaseFaults>>

\* Grants, account and inventory are read, unless the restarts used up the attempts.
Inspected(w) ==
  /\ setup[w].step = "inspect" /\ Holds(w)
  /\ signup[setup[w].of].attempts <= MaxSetupAttempts
  /\ Renewed(w, signup[setup[w].of])
  /\ Go(w, "account")
  /\ UNCHANGED <<account, credential, phone, dispatched, nudges, leaseFaults>>

\* A newer signup that configures the account already is not displaced.
Superseded(o) == account > o

ClaimAccount(w) ==
  LET o == setup[w].of IN
  /\ setup[w].step = "account" /\ Holds(w)
  /\ IF Superseded(o)
     THEN FailWith(w, "definite") /\ account' = account
     ELSE account' = o /\ Go(w, "phone") /\ Renewed(w, signup[o])
  /\ UNCHANGED <<credential, phone, dispatched, nudges, leaseFaults>>

\* Mutant: an uncertain request is made again.
NotYetAccepted(o) == signup[o].registration # "accepted"

NotYetRequested(o) == signup[o].registration \in {"none", "refused"}

\* The phone is connected, or a request for it is saved as uncertain before it is made;
\* one that was made is never repeated blindly.
CheckPhone(w) ==
  LET o == setup[w].of IN
  /\ setup[w].step = "phone" /\ Holds(w)
  /\ CASE phone = "connected" -> Go(w, "connect") /\ Renewed(w, signup[o])
       [] phone # "connected" /\ NotYetRequested(o) ->
            /\ Go(w, "register")
            /\ Renewed(w, [signup[o] EXCEPT !.registration = "uncertain"])
       [] OTHER -> FailWith(w, "temporary")
  /\ UNCHANGED <<account, credential, phone, dispatched, nudges, leaseFaults>>

\* The heartbeat before the register call.
Heartbeat(w) ==
  /\ setup[w].step = "register" /\ Holds(w)
  /\ Renewed(w, signup[setup[w].of])
  /\ Go(w, "dispatch")
  /\ UNCHANGED <<account, credential, phone, dispatched, nudges, leaseFaults>>

\* Meta accepts, definitely refuses, or gives no answer and may or may not have accepted.
Register(w) ==
  LET o == setup[w].of
      counted == [dispatched EXCEPT ![o] = IF @ < 2 THEN @ + 1 ELSE @]
      Registering == phone' = IF phone = "connected" THEN phone ELSE "registering"
  IN
  /\ setup[w].step = "dispatch"
  /\ \/ Registering /\ dispatched' = counted /\ Go(w, "accepted") /\ signup' = signup
     \/ phone' = phone /\ dispatched' = dispatched /\ Go(w, "refused") /\ signup' = signup
     \/ (Registering \/ phone' = phone) /\ dispatched' = counted /\ FailWith(w, "temporary")
  /\ UNCHANGED <<account, credential, nudges, leaseFaults>>

PhoneConnects ==
  /\ phone = "registering"
  /\ phone' = "connected"
  /\ UNCHANGED <<signup, account, credential, setup, dispatched, nudges, leaseFaults>>

\* A refused request may be made again after the user corrected the setup.
SaveRefusal(w) ==
  LET o == setup[w].of IN
  /\ setup[w].step = "refused" /\ Holds(w)
  /\ LeaveSetup(w)
  /\ signup' = [signup EXCEPT ![o].registration = "refused", ![o].status = "action_required",
                              ![o].lease = Unleased, ![o].fresh = FALSE, ![o].wakeable = FALSE]
  /\ UNCHANGED <<account, credential, phone, dispatched, nudges, leaseFaults>>

SaveAccepted(w) ==
  /\ setup[w].step = "accepted" /\ Holds(w)
  /\ Renewed(w, [signup[setup[w].of] EXCEPT !.registration = "accepted"])
  /\ Go(w, "confirm")
  /\ UNCHANGED <<account, credential, phone, dispatched, nudges, leaseFaults>>

Confirm(w) ==
  LET o == setup[w].of IN
  /\ setup[w].step = "confirm" /\ Holds(w)
  /\ IF phone = "connected" THEN Go(w, "connect") /\ Renewed(w, signup[o])
     ELSE FailWith(w, "temporary")
  /\ UNCHANGED <<account, credential, phone, dispatched, nudges, leaseFaults>>

\* The last transaction: only the onboarding the account still belongs to is connected.
Connect(w) ==
  LET o == setup[w].of IN
  /\ setup[w].step = "connect" /\ Holds(w)
  /\ IF account = o
     THEN /\ credential' = o
          /\ LeaveSetup(w)
          /\ signup' = [signup EXCEPT ![o].status = "connected", ![o].lease = Unleased,
                                      ![o].fresh = FALSE, ![o].wakeable = FALSE]
     ELSE credential' = credential /\ FailWith(w, "definite")
  /\ UNCHANGED <<account, phone, dispatched, nudges, leaseFaults>>
-----------------------------------------------------------------------------
CrashOnboarding(w) ==
  /\ setup[w].step # "idle" /\ leaseFaults > 0
  /\ leaseFaults' = leaseFaults - 1
  /\ LeaveSetup(w)
  /\ UNCHANGED <<signup, account, credential, phone, dispatched, nudges>>

Tended(o) == \E w \in OnboardWorker : setup[w].of = o /\ signup[o].lease = w

\* Two minutes without a checkpoint: the worker is gone, or (a fault) only slow.
LeaseExpires(o) ==
  /\ signup[o].status = "processing" /\ signup[o].fresh
  /\ \/ ~Tended(o) /\ leaseFaults' = leaseFaults
     \/ Tended(o) /\ leaseFaults > 0 /\ leaseFaults' = leaseFaults - 1
  /\ signup' = [signup EXCEPT ![o].fresh = FALSE]
  /\ UNCHANGED <<account, credential, setup, phone, dispatched, nudges>>

SetupStep(w) ==
  \/ LoseLease(w) \/ Fail(w) \/ Inspected(w) \/ ClaimAccount(w) \/ CheckPhone(w) \/ Heartbeat(w)
  \/ Register(w) \/ SaveRefusal(w) \/ SaveAccepted(w) \/ Confirm(w) \/ Connect(w)

OnboardingNext ==
  \/ \E o \in Onboarding : Reserve(o) \/ ExchangeCode(o) \/ Select(o) \/ Retry(o) \/ LeaseExpires(o)
  \/ \E w \in OnboardWorker : SetupStep(w) \/ CrashOnboarding(w)
  \/ \E w \in OnboardWorker, o \in Onboarding : ClaimSignup(w, o)
  \/ AccountEvent \/ PhoneConnects

OnboardingSpec == OnboardingInit /\ [][OnboardingNext]_onboardingVars

\* Meta calls end, leases run out and the scheduler's cron keeps claiming what is due.
OnboardingFairness ==
  /\ \A w \in OnboardWorker : WF_onboardingVars(SetupStep(w))
  /\ \A o \in Onboarding :
       /\ WF_onboardingVars(LeaseExpires(o))
       /\ SF_onboardingVars(\E w \in OnboardWorker : ClaimSignup(w, o))
-----------------------------------------------------------------------------
(***************************************************************************)
(* Properties.                                                             *)
(***************************************************************************)
\* An onboarding makes at most one register request that Meta did not definitely refuse,
\* whatever crashes, expires, is retried or selected anew between its steps.
RegisterOnce == \A o \in Onboarding : dispatched[o] <= 1

\* No onboarding is retried for ever: what is pending or processing ends connected, or
\* waiting for the user, while Meta stays unavailable and leases keep being lost.
OnboardingRests ==
  \A o \in Onboarding : signup[o].status \in {"pending", "processing"} ~>
                          Stopped(o) \/ signup[o].status = "connected"
=============================================================================
