------------------------------- MODULE Wallet -------------------------------
(***************************************************************************)
(* The prepaid wallet of one company (companies.credit_balance, in paise)  *)
(* and the wallet of the platform that its fees go to.  Every operation    *)
(* that moves money locks the row it reads first (SELECT ... FOR UPDATE)   *)
(* and commits balance, ledger entry and business row together, so each of *)
(* them is one step of the modules that extend this one: CreditTopup and   *)
(* PlanPurchase.                                                           *)
(***************************************************************************)
EXTENDS Integers, FiniteSets

CONSTANTS
  Opening,      \* the balance at the start
  Grant,        \* request_id values of a super administrator's credit grants
  GrantAmount,  \* what a grant adds
  Workloads     \* bounds: the sets of requests made, and how many things go wrong

ASSUME AmountsAssumption == Opening \in Nat /\ GrantAmount \in Nat
ASSUME WorkloadsAssumption == \A w \in Workloads : w.faults \in Nat

VARIABLES
  balance,  \* companies.credit_balance
  platform, \* users.credit_balance of the superadmin
  granted,  \* the grants with a ledger entry
  asks,     \* requests that clients still make, each once
  faults    \* failures, crashes and repeated deliveries that still happen

walletVars == <<balance, platform, granted>>
bounds == <<asks, faults>>

WalletTypeOK ==
  /\ balance \in Int
  /\ platform \in Int
  /\ granted \subseteq Grant
  /\ faults \in Nat

WalletInit ==
  /\ balance = Opening
  /\ platform = 0
  /\ granted = {}
  /\ \E w \in Workloads : asks = w.asks /\ faults = w.faults

\* A client makes request r.
Ask(r) == r \in asks /\ asks' = asks \ {r} /\ UNCHANGED faults

\* Something goes wrong.
Fault == faults > 0 /\ faults' = faults - 1 /\ UNCHANGED asks

NoFault == UNCHANGED bounds

Credit(amount) == balance' = balance + amount

\* Mutant of AddCredit: a repeated request is credited again.
AddCreditAgain(g) ==
  /\ g \in asks
  /\ Credit(GrantAmount)
  /\ granted' = granted \cup {g}
  /\ UNCHANGED <<platform, bounds>>

\* SuperAdminModel.addCredit: may be requested again at any time; a request_id
\* with a ledger entry is answered from that entry and changes nothing.
AddCredit(g) ==
  /\ g \in asks
  /\ g \notin granted
  /\ Credit(GrantAmount)
  /\ granted' = granted \cup {g}
  /\ UNCHANGED <<platform, bounds>>
=============================================================================
