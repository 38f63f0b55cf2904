--------------------------- MODULE ContactImport ---------------------------
(***************************************************************************)
(* One contact-import job and the contact allowance of its owner's plan.   *)
(* The job may run in two executions at once, when BullMQ thinks the first *)
(* has stalled, and again after a failure; meanwhile the API creates       *)
(* contacts under the same plan, and inbound messages create them without  *)
(* counting them.  The file's rows are the phones 1..Rows.                 *)
(***************************************************************************)
EXTENDS Integers, FiniteSets

CONSTANTS
  Rows,            \* rows of the file
  Phones,          \* phones that exist
  Limit,           \* contacts the plan allows
  Execution,       \* executions of the job that can be under way at once
  Creator,         \* API requests that create a contact
  MaxStarts,       \* times the job is started: attempts and stalled redeliveries
  MaxImportFaults, \* failures of the database, crashes and stalls
  MaxErrors,       \* errors of rows that a job's result has room for: 50, less the lines that
                   \* the parser refused
  NoHolder

ASSUME ImportAssumption ==
  /\ Rows \in Nat \ {0} /\ Phones \in Nat /\ Rows <= Phones
  /\ Limit \in Nat /\ MaxStarts \in Nat /\ MaxImportFaults \in Nat /\ MaxErrors \in Nat
  /\ NoHolder \notin Execution \union Creator /\ Execution \intersect Creator = {}

Phone == 1..Phones
Row == 1..Rows

VARIABLES
  entitlement,  \* user_plans.entitlement_version: 1 counts creations, 2 counts contacts
  usage,        \* user_plans.usage of contacts
  contacts,     \* phones the owner has a contact for
  planned,      \* those created under the plan
  ownerLock,    \* the transaction that holds the owner's users row
  creator,      \* what each API request does
  importJob,    \* the import_jobs row, with the failed rows its result counts and names
  lists,        \* contact_lists created for the job
  member,       \* contact_list_relations: list and phone
  execution,    \* what each execution does
  queued,       \* the BullMQ job
  importFaults

importVars == <<entitlement, usage, contacts, planned, ownerLock, creator, importJob, lists,
                member, execution, queued, importFaults>>

Unstarted == [step |-> "idle", row |-> 0, list |-> 0, failed |-> {}]

ImportTypeOK ==
  /\ entitlement \in {1, 2} /\ usage \in 0..Phones
  /\ contacts \subseteq Phone /\ planned \subseteq contacts
  /\ ownerLock \in Execution \union Creator \union {NoHolder}
  /\ creator \in [Creator -> [step : {"idle", "create", "done"}, phone : 0..Phones]]
  /\ importJob \in [status : {"pending", "processing", "completed", "failed"},
                    list : 0..MaxStarts, failed : 0..Rows, reported : SUBSET Row]
  /\ lists \in 0..MaxStarts /\ member \subseteq (1..MaxStarts) \X Row
  /\ execution \in [Execution ->
                     [step : {"idle", "assess", "list", "look", "count", "create", "join", "complete"},
                      row : 0..Rows, list : 0..MaxStarts, failed : SUBSET Row]]
  /\ queued \in [state : {"waiting", "active", "over"},
                 by : Execution \union {NoHolder}, starts : 0..MaxStarts]
  /\ importFaults \in 0..MaxImportFaults

ImportInit ==
  /\ entitlement \in {1, 2} /\ usage = 0
  /\ contacts = {} /\ planned = {}
  /\ ownerLock = NoHolder
  /\ creator = [c \in Creator |-> [step |-> "idle", phone |-> 0]]
  /\ importJob = [status |-> "pending", list |-> 0, failed |-> 0, reported |-> {}]
  /\ lists = 0 /\ member = {}
  /\ execution = [e \in Execution |-> Unstarted]
  /\ queued = [state |-> "waiting", by |-> NoHolder, starts |-> 0]
  /\ importFaults = 0
-----------------------------------------------------------------------------
(***************************************************************************)
(* Contacts under a plan.  run() holds the owner's row from the count to   *)
(* the insertion; an existing contact for the phone refuses another.       *)
(***************************************************************************)
Used == IF entitlement = 2 THEN Cardinality(contacts) ELSE usage

\* Mutant: the count takes no lock.
OwnerIgnored == TRUE

OwnerFree == ownerLock = NoHolder

Insert(p) ==
  /\ contacts' = contacts \union {p}
  /\ planned' = IF p \in contacts THEN planned ELSE planned \union {p}
  /\ usage' = IF p \in contacts THEN usage ELSE usage + 1

StartCreate(c, p) ==
  /\ creator[c].step = "idle" /\ OwnerFree
  /\ IF Used < Limit
     THEN /\ ownerLock' = c
          /\ creator' = [creator EXCEPT ![c] = [step |-> "create", phone |-> p]]
     ELSE /\ ownerLock' = ownerLock
          /\ creator' = [creator EXCEPT ![c] = [step |-> "done", phone |-> 0]]
  /\ UNCHANGED <<entitlement, usage, contacts, planned, importJob, lists, member, execution, queued,
                 importFaults>>

EndCreate(c) ==
  /\ creator[c].step = "create"
  /\ Insert(creator[c].phone)
  /\ ownerLock' = NoHolder
  /\ creator' = [creator EXCEPT ![c] = [step |-> "done", phone |-> 0]]
  /\ UNCHANGED <<entitlement, importJob, lists, member, execution, queued, importFaults>>

\* An inbound message creates its sender's contact, whatever the plan says.
CreateIncoming(p) ==
  /\ p \notin contacts
  /\ contacts' = contacts \union {p}
  /\ UNCHANGED <<entitlement, usage, planned, ownerLock, creator, importJob, lists, member,
                 execution, queued, importFaults>>
-----------------------------------------------------------------------------
(***************************************************************************)
(* An execution of the import.                                             *)
(***************************************************************************)
On(e, changes) == execution' = [execution EXCEPT ![e] = changes]
At(e, step) == execution[e].step = step

\* The queue is told the result only by the execution that still holds the job's lock.
Released(e, state) ==
  IF queued.state = "active" /\ queued.by = e
  THEN [queued EXCEPT !.state = state, !.by = NoHolder] ELSE queued

RetryState == IF queued.starts < MaxStarts THEN "waiting" ELSE "over"

\* A completed job is left alone; otherwise its row starts over.
Begin(e) ==
  /\ queued.state = "waiting" /\ At(e, "idle")
  /\ IF importJob.status = "completed"
     THEN /\ queued' = [queued EXCEPT !.state = "over"]
          /\ UNCHANGED <<importJob, execution>>
     ELSE /\ queued' = [state |-> "active", by |-> e, starts |-> queued.starts + 1]
          /\ importJob' = [importJob EXCEPT !.status = "processing"]
          /\ On(e, [Unstarted EXCEPT !.step = "assess"])
  /\ queued.starts < MaxStarts
  /\ UNCHANGED <<entitlement, usage, contacts, planned, ownerLock, creator, lists, member, importFaults>>

GiveUp(e) ==
  /\ On(e, Unstarted)
  /\ importJob' = [importJob EXCEPT !.status = "failed"]
  /\ queued' = Released(e, RetryState)

\* The file is refused as a whole when its new contacts do not fit.
Assess(e) ==
  /\ At(e, "assess")
  /\ IF Cardinality(Row \ contacts) > (IF Used < Limit THEN Limit - Used ELSE 0)
     THEN GiveUp(e)
     ELSE /\ On(e, [execution[e] EXCEPT !.step = "list"])
          /\ UNCHANGED <<importJob, queued>>
  /\ UNCHANGED <<entitlement, usage, contacts, planned, ownerLock, creator, lists, member, importFaults>>

\* Mutant: an earlier execution's list is not looked up.
ListForgotten == FALSE

\* The list and its place in the job's row are committed together.
HasList == importJob.list # 0

GetOrCreateList(e) ==
  LET list == IF HasList THEN importJob.list ELSE lists + 1 IN
  /\ At(e, "list")
  /\ lists' = IF HasList THEN lists ELSE lists + 1
  /\ importJob' = [importJob EXCEPT !.list = list]
  /\ On(e, [execution[e] EXCEPT !.step = "look", !.list = list, !.row = 1])
  /\ UNCHANGED <<entitlement, usage, contacts, planned, ownerLock, creator, member, queued, importFaults>>

LookUp(e) ==
  /\ At(e, "look")
  /\ On(e, [execution[e] EXCEPT !.step = IF execution[e].row \in contacts THEN "join" ELSE "count"])
  /\ UNCHANGED <<entitlement, usage, contacts, planned, ownerLock, creator, importJob, lists, member,
                 queued, importFaults>>

\* Mutant: off by one at the end of the file.
NextRowPastEnd(e, failed) ==
  On(e, [execution[e] EXCEPT !.failed = failed,
           !.step = IF execution[e].row <= Rows THEN "look" ELSE "complete", !.row = @ + 1])

\* The next row, or the end, after a row that was added or whose error is kept.
NextRow(e, failed) ==
  On(e, [execution[e] EXCEPT !.failed = failed,
           !.step = IF execution[e].row < Rows THEN "look" ELSE "complete",
           !.row = IF @ < Rows THEN @ + 1 ELSE @])

FailedToo(e) == execution[e].failed \union {execution[e].row}

CountUsage(e) ==
  /\ At(e, "count") /\ OwnerFree
  /\ IF Used < Limit
     THEN ownerLock' = e /\ On(e, [execution[e] EXCEPT !.step = "create"])
     ELSE ownerLock' = ownerLock /\ NextRow(e, FailedToo(e))
  /\ UNCHANGED <<entitlement, usage, contacts, planned, creator, importJob, lists, member, queued,
                 importFaults>>

\* A contact created since the look-up makes the row an error.
CreateContact(e) ==
  LET p == execution[e].row IN
  /\ At(e, "create")
  /\ Insert(p)
  /\ ownerLock' = NoHolder
  /\ IF p \in contacts THEN NextRow(e, FailedToo(e)) ELSE On(e, [execution[e] EXCEPT !.step = "join"])
  /\ UNCHANGED <<entitlement, creator, importJob, lists, member, queued, importFaults>>

\* Two executions that add the same contact at once: the unique index refuses one.
AddToList(e) ==
  LET relation == <<execution[e].list, execution[e].row>> IN
  /\ At(e, "join")
  /\ \/ /\ member' = member \union {relation}
        /\ NextRow(e, execution[e].failed)
     \/ /\ relation \in member /\ \E f \in Execution \ {e} : ~At(f, "idle")
        /\ member' = member
        /\ NextRow(e, FailedToo(e))
  /\ UNCHANGED <<entitlement, usage, contacts, planned, ownerLock, creator, importJob, lists, queued,
                 importFaults>>

\* The errors a result has room for; they were collected in the order of the rows.
FirstErrors(failed) == {p \in failed : Cardinality({q \in failed : q < p}) < MaxErrors}

\* The result counts all failed rows and names the first of them.
Complete(e) ==
  /\ At(e, "complete")
  /\ importJob' = [importJob EXCEPT !.status = "completed",
                                    !.failed = Cardinality(execution[e].failed),
                                    !.reported = FirstErrors(execution[e].failed)]
  /\ queued' = Released(e, "over")
  /\ On(e, Unstarted)
  /\ UNCHANGED <<entitlement, usage, contacts, planned, ownerLock, creator, lists, member, importFaults>>

Fault == importFaults < MaxImportFaults /\ importFaults' = importFaults + 1

\* The database fails under an execution, or its process dies; an open transaction is
\* rolled back, and the failure may or may not be saved.
Break(e) ==
  /\ Fault
  /\ ~At(e, "idle")
  /\ ownerLock' = IF ownerLock = e THEN NoHolder ELSE ownerLock
  /\ \/ GiveUp(e)
     \/ On(e, Unstarted) /\ queued' = Released(e, RetryState) /\ importJob' = importJob
  /\ UNCHANGED <<entitlement, usage, contacts, planned, creator, lists, member>>

\* BullMQ misses the lock's renewal and gives the job out again.
Stall ==
  /\ Fault
  /\ queued.state = "active"
  /\ queued' = [queued EXCEPT !.state = "waiting", !.by = NoHolder]
  /\ UNCHANGED <<entitlement, usage, contacts, planned, ownerLock, creator, importJob, lists, member,
                 execution>>

ImportStep(e) ==
  \/ Begin(e) \/ Assess(e) \/ GetOrCreateList(e) \/ LookUp(e) \/ CountUsage(e) \/ CreateContact(e)
  \/ AddToList(e) \/ Complete(e)

ImportNext ==
  \/ \E e \in Execution : ImportStep(e) \/ Break(e)
  \/ Stall
  \/ \E c \in Creator : EndCreate(c) \/ \E p \in Phone : StartCreate(c, p)
  \/ \E p \in Phone : CreateIncoming(p)

ImportSpec == ImportInit /\ [][ImportNext]_importVars
-----------------------------------------------------------------------------
(***************************************************************************)
(* Properties.                                                             *)
(***************************************************************************)
\* However imports, API requests and inbound messages interleave, the plan never lets
\* more contacts be created than it allows.
PlanLimitHolds == Cardinality(planned) <= Limit

\* Rows whose phone did not get into the job's list.
Missing == {p \in Row : <<importJob.list, p>> \notin member}

\* Whatever is repeated or runs twice, a job makes one list, and when it is reported
\* completed it counts at least as many failed rows as the list lacks, and names every row
\* the list lacks when its result has room for all errors.
ImportKeepsItsWord ==
  /\ lists <= 1
  /\ importJob.status = "completed" =>
       /\ Cardinality(Missing) <= importJob.failed
       /\ importJob.failed <= MaxErrors => Missing \subseteq importJob.reported
=============================================================================
