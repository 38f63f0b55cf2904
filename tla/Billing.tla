------------------------------ MODULE Billing ------------------------------
(***************************************************************************)
(* The money of one company: credit top-ups (CreditTopup) fill its wallet, *)
(* plan purchases, assignments, extensions and add-ons (PlanPurchase) are  *)
(* paid from it, and a super administrator grants credits.  The components *)
(* share companies.credit_balance and nothing else.                        *)
(***************************************************************************)
EXTENDS CreditTopup, PlanPurchase, FiniteSetsExt

\* A company makes finitely many requests.
ASSUME FiniteAssumption ==
  \A S \in {Topup, Purchase, Manual, Addon, Grant} : IsFiniteSet(S)

vars == <<walletVars, bounds, topupVars, planVars>>

TypeOK == WalletTypeOK /\ TopupTypeOK /\ PlanTypeOK

Init == WalletInit /\ TopupInit /\ PlanInit

Next ==
  \/ TopupNext /\ UNCHANGED planVars
  \/ PlanNext /\ UNCHANGED topupVars
  \/ \E g \in Grant : AddCredit(g) /\ UNCHANGED <<topupVars, planVars>>

Spec == Init /\ [][Next]_vars

\* Handlers go on once begun; Razorpay repeats an event until it is accepted, so some
\* delivery of it finds a free handler; the reconciler's cron keeps claiming what is due.
Fairness ==
  /\ \A h \in Handler : WF_vars(VerifyStep(h) /\ UNCHANGED planVars)
  /\ \A e \in Event : SF_vars(/\ e \notin acked /\ \E h \in Hook : Deliver(h, e)
                              /\ UNCHANGED planVars)
  /\ \A v \in Verifier : WF_vars(VerifyLinkStep(v) /\ UNCHANGED topupVars)
  /\ \A v \in Sweeper, o \in Purchase : SF_vars(Claim(v, o) /\ UNCHANGED topupVars)

LiveSpec == Spec /\ Fairness
-----------------------------------------------------------------------------
(***************************************************************************)
(* Properties of the composition.                                          *)
(***************************************************************************)
CreditsOf(t) == IF order[t].credited THEN Amount - order[t].refunded ELSE 0
CostOf(p) == (IF HasBegun(p) THEN plan[p].fee ELSE 0)
             + (IF plan[p].extensionFee = NoFee THEN 0 ELSE plan[p].extensionFee)

Received == Opening + GrantAmount * Cardinality(granted) + MapThenSumSet(CreditsOf, Topup)
Spent == MapThenSumSet(CostOf, Plan) + AddonFee * Cardinality({a \in Addon : bought[a] # NoPlan})

\* Every rupee is where the business rows say: the wallet of the company holds what was
\* granted and paid in, less what was returned and what its plans, extensions and add-ons
\* cost, and the platform holds exactly that cost.  A lost update of a balance, a payment
\* credited twice or a fee taken without its plan would break it.
AllMoneyAccounted ==
  /\ balance = Received - Spent
  /\ platform = Spent
=============================================================================
