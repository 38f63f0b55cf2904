-------------------------------- MODULE Inbox --------------------------------
(***************************************************************************)
(* One business number and one customer: what Meta reports and forwards to *)
(* the webhook (MessageController.handleWebhook) beside what the campaigns *)
(* send.  Meta delivers at least once, in any order and to any process.  A *)
(* STOP or START of the customer decides whether campaigns may reach him;  *)
(* status reports decide what the history of a sent message shows.  Media, *)
(* names, sockets and the chatbot (module Chatbot) are left out.           *)
(***************************************************************************)
EXTENDS Naturals, Sequences, FiniteSets

CONSTANTS
  Notice,          \* webhook requests handled at once
  CampaignSends,   \* messages of campaigns to the customer
  MaxCommands,     \* messages the customer writes, at most
  MaxContacts,     \* contact rows of his number
  MaxSeconds,      \* of the clock that stamps reports and sends
  MaxInboxFaults,  \* requests and writes that break
  InboxLoads       \* how many commands, deleted contacts and status reports a behaviour has

ASSUME InboxAssumption ==
  /\ {MaxCommands, MaxContacts, MaxInboxFaults} \subseteq Nat /\ MaxSeconds \in Nat \ {0}
  /\ InboxLoads \subseteq [commands : 0..MaxCommands, deletions : 0..MaxContacts, reports : 0..3]

VARIABLES
  contacts,   \* rows of the identity: kept or deleted_at, is_opted_out
  commands,   \* what the customer wrote, oldest first
  stored,     \* which of it has its row in messages (unique wamid)
  notice,     \* what each webhook request does
  wish,       \* the preference last set, and by which command; 0 when by the owner
  outbound,   \* each message row of a campaign
  reports,    \* what Meta reported of each, in its order
  handled,    \* and what of it found its row
  seconds, inboxFaults,
  inboxLoad   \* which of InboxLoads

customerVars == <<contacts, commands, stored, notice, wish>>
sendVars == <<outbound, reports, handled, seconds>>
inboxVars == <<customerVars, sendVars, inboxFaults, inboxLoad>>

Command == 1..MaxCommands
ReportKind == {"sent", "delivered", "read", "failed"}
Report == [kind : ReportKind, second : 1..MaxSeconds]
NoSend == [at |-> "none", status |-> "queued", sent |-> 0, failed |-> 0, despite |-> "none"]

InboxTypeOK ==
  /\ contacts \in Seq([kept : BOOLEAN, out : BOOLEAN]) /\ Len(contacts) <= MaxContacts
  /\ commands \in Seq({"stop", "start", "other"}) /\ Len(commands) <= MaxCommands
  /\ stored \subseteq Command
  /\ notice \in [Notice -> [at : {"idle", "contact", "insert", "apply"}, of : 0..MaxCommands]]
  /\ wish \in [value : {"none", "stop", "start"}, of : 0..MaxCommands]
  /\ outbound \in [CampaignSends ->
       [at : {"none", "excluded", "waiting", "skipped", "created", "called", "ended", "known"},
        status : ReportKind \cup {"queued"},
        sent : 0..MaxSeconds, failed : 0..MaxSeconds,
        despite : {"none", "stop", "start"}]]
  /\ reports \in [CampaignSends -> Seq(Report)]
  /\ handled \in [CampaignSends -> SUBSET Report]
  /\ seconds \in 1..MaxSeconds /\ inboxFaults \in 0..MaxInboxFaults /\ inboxLoad \in InboxLoads

InboxInit ==
  /\ contacts = <<>> /\ commands = <<>> /\ stored = {}
  /\ notice = [q \in Notice |-> [at |-> "idle", of |-> 0]]
  /\ wish = [value |-> "none", of |-> 0]
  /\ outbound = [s \in CampaignSends |-> NoSend]
  /\ reports = [s \in CampaignSends |-> <<>>]
  /\ handled = [s \in CampaignSends |-> {}]
  /\ seconds = 1 /\ inboxFaults = 0 /\ inboxLoad \in InboxLoads
-----------------------------------------------------------------------------
(***************************************************************************)
(* Contacts and their preference.                                          *)
(***************************************************************************)
Kept == {n \in DOMAIN contacts : contacts[n].kept}
NewContact == Append(contacts, [kept |-> TRUE, out |-> FALSE])

\* isBlocked and excluded: deleted rows are not looked at.
Blocked == \E n \in Kept : contacts[n].out

\* set writes every row of the identity.
SetPreference(value) ==
  contacts' = [n \in DOMAIN contacts |-> [contacts[n] EXCEPT !.out = (value = "stop")]]

AddContact ==
  /\ Kept = {} /\ Len(contacts) < MaxContacts
  /\ contacts' = NewContact
  /\ UNCHANGED <<commands, stored, notice, wish, sendVars, inboxFaults, inboxLoad>>

DeleteContact ==
  /\ Len(contacts) - Cardinality(Kept) < inboxLoad.deletions
  /\ \E n \in Kept : contacts' = [contacts EXCEPT ![n].kept = FALSE]
  /\ UNCHANGED <<commands, stored, notice, wish, sendVars, inboxFaults, inboxLoad>>

UpdateContact(value) ==
  /\ Kept # {}
  /\ SetPreference(value)
  /\ wish' = [wish EXCEPT !.value = value]
  /\ UNCHANGED <<commands, stored, notice, sendVars, inboxFaults, inboxLoad>>
-----------------------------------------------------------------------------
(***************************************************************************)
(* Incoming messages (saveIncomingMessage).                                *)
(***************************************************************************)
\* The customer writes when what he wrote before has been stored and handled.
Write(meaning) ==
  /\ Len(commands) < inboxLoad.commands
  /\ DOMAIN commands \subseteq stored /\ \A q \in Notice : notice[q].at # "apply"
  /\ commands' = Append(commands, meaning)
  /\ UNCHANGED <<contacts, stored, notice, wish, sendVars, inboxFaults, inboxLoad>>

\* A first or repeated delivery; a known wamid ends the request.
Receive(q, m) ==
  /\ notice[q].at = "idle" /\ m \notin stored
  /\ notice' = [notice EXCEPT ![q] = [at |-> "contact", of |-> m]]
  /\ UNCHANGED <<contacts, commands, stored, wish, sendVars, inboxFaults, inboxLoad>>

\* findOrCreateIncoming; creation is serialised by an advisory lock on the identity.
FindOrCreate(q) ==
  /\ notice[q].at = "contact"
  /\ Kept # {} \/ Len(contacts) < MaxContacts
  /\ contacts' = IF Kept = {} THEN NewContact ELSE contacts
  /\ notice' = [notice EXCEPT ![q].at = "insert"]
  /\ UNCHANGED <<commands, stored, wish, sendVars, inboxFaults, inboxLoad>>

\* Mutant: the table takes a wamid twice, the earlier lookup is all there is.
InsertedTwice(m) == TRUE
\* onConflict('wamid').ignore()
Inserted(m) == m \notin stored

StoreMessage(q) ==
  /\ notice[q].at = "insert"
  /\ stored' = stored \cup {notice[q].of}
  /\ notice' = IF Inserted(notice[q].of) THEN [notice EXCEPT ![q].at = "apply"]
               ELSE [notice EXCEPT ![q] = [at |-> "idle", of |-> 0]]
  /\ UNCHANGED <<contacts, commands, wish, sendVars, inboxFaults, inboxLoad>>

\* contactOptOut.incoming
ApplyPreference(q) ==
  /\ notice[q].at = "apply"
  /\ LET m == notice[q].of IN
       IF commands[m] = "other" THEN UNCHANGED <<contacts, wish>>
       ELSE /\ SetPreference(commands[m])
            /\ wish' = IF m >= wish.of THEN [value |-> commands[m], of |-> m] ELSE wish
  /\ notice' = [notice EXCEPT ![q] = [at |-> "idle", of |-> 0]]
  /\ UNCHANGED <<commands, stored, sendVars, inboxFaults, inboxLoad>>

BreakNotice(q) ==
  /\ notice[q].at # "idle" /\ inboxFaults < MaxInboxFaults
  /\ inboxFaults' = inboxFaults + 1
  /\ notice' = [notice EXCEPT ![q] = [at |-> "idle", of |-> 0]]
  /\ UNCHANGED <<contacts, commands, stored, wish, sendVars, inboxLoad>>
-----------------------------------------------------------------------------
(***************************************************************************)
(* A campaign message to the customer (createCampaign, sendMessage).       *)
(***************************************************************************)
SendStep(s) == UNCHANGED <<customerVars, reports, handled, seconds, inboxLoad>>

CreateCampaign(s) ==
  /\ outbound[s].at = "none"
  /\ outbound' = [outbound EXCEPT ![s].at = IF Blocked THEN "excluded" ELSE "waiting"]
  /\ SendStep(s) /\ UNCHANGED inboxFaults

CheckRecipient(s) ==
  /\ outbound[s].at = "waiting"
  /\ outbound' = [outbound EXCEPT ![s].at = IF Blocked THEN "skipped" ELSE "created",
                                  ![s].despite = IF Blocked THEN @ ELSE wish.value]
  /\ SendStep(s) /\ UNCHANGED inboxFaults

CallMeta(s) ==
  /\ outbound[s].at = "created"
  /\ outbound' = [outbound EXCEPT ![s].at = "called"]
  /\ SendStep(s) /\ UNCHANGED inboxFaults

\* The answer of Meta names the wamid.
RecordSent(s) ==
  /\ outbound[s].at = "called"
  /\ outbound' = [outbound EXCEPT ![s].at = "known", ![s].status = "sent", ![s].sent = seconds]
  /\ SendStep(s) /\ UNCHANGED inboxFaults

\* An error is recorded, a database failure leaves the row queued; there is no wamid.
RecordError(s) ==
  /\ outbound[s].at \in {"created", "called"} /\ inboxFaults < MaxInboxFaults
  /\ inboxFaults' = inboxFaults + 1
  /\ \E status \in {"failed", "queued"} :
       outbound' = [outbound EXCEPT ![s].at = "ended", ![s].status = status,
                                    ![s].failed = IF status = "failed" THEN seconds ELSE 0]
  /\ SendStep(s)
-----------------------------------------------------------------------------
(***************************************************************************)
(* Status reports (handleStatusUpdate, MessageModel.updateStatus).         *)
(***************************************************************************)
Rank == [sent |-> 1, delivered |-> 2, read |-> 3, failed |-> 4]

\* External: Meta reports sent, delivered and read in this order, or, before the message
\* is delivered, failed; steps may be missing.
MetaReports(s, kind) ==
  /\ outbound[s].at \in {"called", "known"} /\ Len(reports[s]) < inboxLoad.reports
  /\ \A n \in DOMAIN reports[s] : Rank[reports[s][n].kind] < Rank[kind]
  /\ kind = "failed" => \A n \in DOMAIN reports[s] : reports[s][n].kind = "sent"
  /\ reports' = [reports EXCEPT ![s] = Append(@, [kind |-> kind, second |-> seconds])]
  /\ UNCHANGED <<customerVars, outbound, handled, seconds, inboxFaults, inboxLoad>>

PreviousStatuses ==
  [sent |-> {"queued", "failed"}, delivered |-> {"queued", "sent", "failed"},
   read |-> {"queued", "sent", "delivered", "failed"}, failed |-> {"queued", "sent"}]

\* Mutant: the status alone decides, whenever it was reported.
IsPrevious(m, r) == m.status \in PreviousStatuses[r.kind]
\* Times compare by the second: sent_at may be later than a failure in its second.
Applies(m, r) ==
  /\ m.status \in PreviousStatuses[r.kind]
  /\ r.kind = "sent" => m.failed = 0 \/ m.failed <= r.second
  /\ r.kind = "failed" => m.sent = 0 \/ m.sent <= r.second

\* Mutant: the end of the second is stored.
ReportedRoundedUp(m, r) ==
  [m EXCEPT !.status = r.kind,
            !.sent = IF r.kind = "sent" THEN r.second + 1 ELSE @,
            !.failed = IF r.kind = "failed" THEN r.second + 1 ELSE 0]
Reported(m, r) ==
  [m EXCEPT !.status = r.kind,
            !.sent = IF r.kind = "sent" THEN r.second ELSE @,
            !.failed = IF r.kind = "failed" THEN r.second ELSE 0]

\* A first, late or repeated delivery; a wamid nobody knows is acknowledged all the same.
HandleStatusUpdate(s, r) ==
  /\ outbound[s].at = "known"
  /\ outbound' = IF Applies(outbound[s], r)
                   THEN [outbound EXCEPT ![s] = Reported(outbound[s], r)] ELSE outbound
  /\ handled' = [handled EXCEPT ![s] = @ \cup {r}]
  /\ UNCHANGED <<customerVars, reports, seconds, inboxFaults, inboxLoad>>

NextSecond ==
  /\ seconds < MaxSeconds /\ seconds' = seconds + 1
  /\ UNCHANGED <<customerVars, outbound, reports, handled, inboxFaults, inboxLoad>>

InboxNext ==
  \/ AddContact \/ DeleteContact \/ NextSecond
  \/ \E value \in {"stop", "start"} : UpdateContact(value)
  \/ \E meaning \in {"stop", "start", "other"} : Write(meaning)
  \/ \E q \in Notice :
       \/ \E m \in DOMAIN commands : Receive(q, m)
       \/ FindOrCreate(q) \/ StoreMessage(q) \/ ApplyPreference(q) \/ BreakNotice(q)
  \/ \E s \in CampaignSends :
       \/ CreateCampaign(s) \/ CheckRecipient(s) \/ CallMeta(s) \/ RecordSent(s) \/ RecordError(s)
       \/ \E kind \in ReportKind : MetaReports(s, kind)
       \/ \E n \in DOMAIN reports[s] : HandleStatusUpdate(s, reports[s][n])

InboxSpec == InboxInit /\ [][InboxNext]_inboxVars
-----------------------------------------------------------------------------
(***************************************************************************)
(* Properties.                                                             *)
(***************************************************************************)
\* The last preference set holds while no contact is deleted: a repeated delivery of an
\* older message, in another process, does not undo it (createIncoming).
LastWordHolds ==
  Cardinality(Kept) = Len(contacts) /\ wish.value # "none" => Blocked = (wish.value = "stop")

\* Reordered and repeated reports end where the reports in order would have: read, else
\* delivered, else the later of sent and failed (MessageModel.updateStatus).
Times(s, kind) == {r.second : r \in {x \in handled[s] : x.kind = kind}}

ReceiptsDecide ==
  \A s \in CampaignSends : outbound[s].at = "known" =>
    CASE Times(s, "read") # {} -> outbound[s].status = "read"
      [] Times(s, "read") = {} /\ Times(s, "delivered") # {} -> outbound[s].status = "delivered"
      [] OTHER ->
           /\ outbound[s].status \in {"sent", "failed"}
           /\ outbound[s].status = "failed" =>
                \E f \in Times(s, "failed") :
                  f >= outbound[s].sent /\ \A t \in Times(s, "sent") : f >= t
           /\ outbound[s].status = "sent" =>
                \A f \in Times(s, "failed") : f <= outbound[s].sent

\* No campaign message passes its last check against the preference of the customer: an
\* opted-out record that was deleted still suppresses (docs/contact-opt-out.md).
SuppressedIsNotSent == \A s \in CampaignSends : outbound[s].despite # "stop"
=============================================================================
