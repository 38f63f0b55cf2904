------------------------- MODULE AtMostOnceDelivery -------------------------
(***************************************************************************)
(* What a campaign promises about its recipients, with no mention of       *)
(* workers, locks, rows or failures: Meta is asked at most once per phone  *)
(* number, and the campaign reports a recipient as sent only after Meta    *)
(* accepted that one request.  docs/campaign-no-retry.md states the policy *)
(* ("The message service makes one Meta request per invocation and never   *)
(* retries"; "Only the worker that changes this row may send").            *)
(* CampaignSend is shown to implement this module.                         *)
(***************************************************************************)
EXTENDS Naturals

CONSTANTS Row, Phone, phoneOf

VARIABLES
  asks,      \* [Phone -> Nat]: requests handed to Meta for the number
  accepted,  \* numbers whose request Meta accepted
  reported,  \* recipients the campaign shows as sent
  sentCount  \* the campaign's sent_count column

vars == <<asks, accepted, reported, sentCount>>

Init ==
  /\ asks = [p \in Phone |-> 0]
  /\ accepted = {}
  /\ reported = {}
  /\ sentCount = 0

Ask(p) ==
  /\ asks[p] = 0
  /\ asks' = [asks EXCEPT ![p] = 1]
  /\ UNCHANGED <<accepted, reported, sentCount>>

\* Meta may take a request it was given, once; nobody else can make it accepted.
Accept(p) ==
  /\ asks[p] = 1
  /\ p \notin accepted
  /\ accepted' = accepted \cup {p}
  /\ UNCHANGED <<asks, reported, sentCount>>

\* One accepted request is reported for one recipient and counted once.
Report(r) ==
  /\ phoneOf[r] \in accepted
  /\ \A q \in reported : phoneOf[q] # phoneOf[r]
  /\ reported' = reported \cup {r}
  /\ sentCount' = sentCount + 1
  /\ UNCHANGED <<asks, accepted>>

Next ==
  \/ \E p \in Phone : Ask(p) \/ Accept(p)
  \/ \E r \in Row : Report(r)

Spec == Init /\ [][Next]_vars
=============================================================================
