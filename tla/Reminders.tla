----------------------------- MODULE Reminders -----------------------------
(***************************************************************************)
(* Lead reminders: the schedulers of every process claim due occurrences,  *)
(* send them once and save the outcome, while Meta's delivery callbacks    *)
(* may overtake the result of the send and the owner edits, pauses,        *)
(* resumes or cancels.  A reminder has one row; every occurrence of it has *)
(* an attempt, whose id is also the id of the message it sends.            *)
(***************************************************************************)
EXTENDS Integers, FiniteSets, FiniteSetsExt

CONSTANTS
  Reminder,      \* reminders
  MaxAttempts,   \* attempt ids are taken in the order 1..MaxAttempts
  MaxTime,       \* the clock stops here
  Year,          \* distance of the occurrences of a yearly reminder
  MaxInterrupts, \* crashes, lost databases and missed heartbeats
  Status,        \* the statuses Meta reports
  Callback,      \* concurrent deliveries of Meta's status callbacks
  Never, Nothing

ASSUME RemindersAssumption ==
  /\ MaxAttempts \in Nat \ {0} /\ MaxTime \in Nat \ {0} /\ Year \in Nat \ {0}
  /\ MaxInterrupts \in Nat
  /\ Status \subseteq {"sent", "delivered", "read", "failed"}
  /\ Never \notin Int /\ Nothing \notin Reminder

Attempt == 1..MaxAttempts
Time == 0..MaxTime
Occurrence == 1..(MaxTime + Year)

VARIABLES
  now,        \* the clock the schedulers and the validations read
  frequency,  \* reminders.frequency
  reminder,   \* reminders rows: status, next_send_at, last_attempt_id
  attempt,    \* reminder_attempts rows
  message,    \* messages.status of the row with the attempt's id
  named,      \* attempts whose messages row knows its wamid
  linked,     \* attempts whose own row knows the wamid
  sender,     \* where the process that claimed the attempt is
  meta,       \* what Meta knows of the attempt's request
  events,     \* reminder_delivery_events, by attempt
  callback,   \* status callbacks in progress
  interrupts  \* interruptions so far

rowVars == <<reminder, attempt>>
messageVars == <<message, named, linked>>
reminderVars == <<now, frequency, rowVars, messageVars, sender, meta, events, callback, interrupts>>

ReminderRow == [status : {"upcoming", "sending", "sent", "failed", "paused", "cancelled"},
                next : Occurrence \union {Never}, last : 0..MaxAttempts]
AttemptRow == [of : Reminder \union {Nothing}, at : Occurrence \union {Never},
               status : {"none", "sending", "unknown", "sent", "failed"}]
Work == [about : Attempt, status : Status, todo : SUBSET {"message", "event", "attempt"}]

ASSUME WorkAssumption == Nothing \notin Work

RemindersTypeOK ==
  /\ now \in Time
  /\ frequency \in [Reminder -> {"once", "yearly"}]
  /\ reminder \in [Reminder -> ReminderRow]
  /\ attempt \in [Attempt -> AttemptRow]
  /\ message \in [Attempt -> {"none", "queued", "sent", "delivered", "read", "failed"}]
  /\ named \subseteq Attempt /\ linked \subseteq Attempt
  /\ sender \in [Attempt -> {"unused", "preparing", "posting", "answered", "refused",
                             "sent", "failed", "over"}]
  /\ meta \in [Attempt -> {"unasked", "delivers", "fails", "refuses"}]
  /\ events \in [Attempt -> SUBSET Status]
  /\ callback \in [Callback -> Work \union {Nothing}]
  /\ interrupts \in 0..MaxInterrupts

RemindersInit ==
  /\ now = 0
  /\ frequency \in [Reminder -> {"once", "yearly"}]
  /\ reminder \in [Reminder -> [status : {"upcoming"}, next : 1..MaxTime, last : {0}]]
  /\ attempt = [a \in Attempt |-> [of |-> Nothing, at |-> Never, status |-> "none"]]
  /\ message = [a \in Attempt |-> "none"]
  /\ named = {} /\ linked = {}
  /\ sender = [a \in Attempt |-> "unused"]
  /\ meta = [a \in Attempt |-> "unasked"]
  /\ events = [a \in Attempt |-> {}]
  /\ callback = [c \in Callback |-> Nothing]
  /\ interrupts = 0

PassTime ==
  /\ now < MaxTime
  /\ now' = now + 1
  /\ UNCHANGED <<frequency, rowVars, messageVars, sender, meta, events, callback, interrupts>>
-----------------------------------------------------------------------------
(***************************************************************************)
(* The owner.  nextSend refuses a time that is not in the future.          *)
(***************************************************************************)
Decide(r, row) ==
  /\ reminder' = [reminder EXCEPT ![r] = row]
  /\ UNCHANGED <<now, frequency, attempt, messageVars, sender, meta, events, callback, interrupts>>

\* A new time, always in the future; a paused reminder stays paused.
Edit(r) ==
  /\ reminder[r].status \in {"upcoming", "paused", "failed"}
  /\ \E t \in (now + 1)..MaxTime :
       Decide(r, [reminder[r] EXCEPT
                    !.status = IF @ = "paused" THEN "paused" ELSE "upcoming", !.next = t])

Pause(r) ==
  /\ reminder[r].status = "upcoming"
  /\ Decide(r, [reminder[r] EXCEPT !.status = "paused"])

Cancel(r) ==
  /\ reminder[r].status \in {"upcoming", "paused", "failed"}
  /\ Decide(r, [reminder[r] EXCEPT !.status = "cancelled", !.next = Never])

\* Mutant: an occurrence that is due right now counts as ahead.
FollowingFromNow(at) ==
  IF at >= now THEN at ELSE Min({t \in at..(now + Year) : t >= now /\ (t - at) % Year = 0})

\* The scheduled time while it is ahead, and then its first anniversary that is.
Following(at) ==
  IF at > now THEN at ELSE Min({t \in at..(now + Year) : t > now /\ (t - at) % Year = 0})

NextSend(r, at) == IF frequency[r] = "yearly" THEN Following(at) ELSE at

Resume(r) ==
  /\ reminder[r].status = "paused"
  /\ NextSend(r, reminder[r].next) > now
  /\ Decide(r, [reminder[r] EXCEPT !.status = "upcoming", !.next = NextSend(r, @)])
-----------------------------------------------------------------------------
(***************************************************************************)
(* A scheduler tick recovers stale claims, then claims and sends what is   *)
(* due.  sender[a] is the process that claimed attempt a; while it lives   *)
(* its heartbeat keeps the claim fresh.                                    *)
(***************************************************************************)
Unused == {a \in Attempt : sender[a] = "unused"}
Taken(r) == \E a \in Attempt : attempt[a].of = r /\ attempt[a].at = reminder[r].next
Due(r) == reminder[r].status = "upcoming" /\ reminder[r].next <= now

\* The earliest due reminder; the unique index on (reminder, time) refuses a second
\* attempt at one occurrence, and the tick fails there.
ClaimNextDue(r) ==
  /\ Unused # {}
  /\ Due(r) /\ \A other \in Reminder : Due(other) => reminder[r].next <= reminder[other].next
  /\ ~Taken(r)
  /\ LET a == Min(Unused) IN
       /\ attempt' = [attempt EXCEPT ![a] = [of |-> r, at |-> reminder[r].next,
                                             status |-> "sending"]]
       /\ reminder' = [reminder EXCEPT ![r].status = "sending", ![r].last = a]
       /\ sender' = [sender EXCEPT ![a] = "preparing"]
  /\ UNCHANGED <<now, frequency, messageVars, meta, events, callback, interrupts>>

\* Validation fails or the contact opted out: nothing is sent.
RefuseToSend(a) ==
  /\ sender[a] = "preparing"
  /\ sender' = [sender EXCEPT ![a] = "failed"]
  /\ UNCHANGED <<now, frequency, rowVars, messageVars, meta, events, callback, interrupts>>

\* The message row is queued and Meta is called, which decides what becomes of it.
Post(a) ==
  /\ sender[a] = "preparing"
  /\ sender' = [sender EXCEPT ![a] = "posting"]
  /\ message' = [message EXCEPT ![a] = "queued"]
  /\ \E fate \in {"delivers", "fails", "refuses"} : meta' = [meta EXCEPT ![a] = fate]
  /\ UNCHANGED <<now, frequency, rowVars, named, linked, events, callback, interrupts>>

Accepted(a) == meta[a] \in {"delivers", "fails"}

\* Meta's answer arrives, or it refuses or its answer is lost.
Hear(a) ==
  /\ sender[a] = "posting"
  /\ \/ /\ Accepted(a)
        /\ sender' = [sender EXCEPT ![a] = "answered"]
     \/ sender' = [sender EXCEPT ![a] = "refused"]
  /\ UNCHANGED <<now, frequency, rowVars, messageVars, meta, events, callback, interrupts>>

SaveSent(a) ==
  /\ sender[a] = "answered"
  /\ sender' = [sender EXCEPT ![a] = "sent"]
  /\ message' = [message EXCEPT ![a] = "sent"]
  /\ named' = named \union {a}
  /\ UNCHANGED <<now, frequency, rowVars, linked, meta, events, callback, interrupts>>

SaveFailure(a) ==
  /\ sender[a] = "refused"
  /\ sender' = [sender EXCEPT ![a] = "failed"]
  /\ message' = [message EXCEPT ![a] = "failed"]
  /\ UNCHANGED <<now, frequency, rowVars, named, linked, meta, events, callback, interrupts>>

\* Mutant: only the result of the send counts.
OutcomeOfSend(a) == IF sender[a] = "sent" THEN "sent" ELSE "failed"

\* A failed delivery that was recorded before the result of the send decides it.
Outcome(a) == IF sender[a] = "sent" /\ "failed" \notin events[a] THEN "sent" ELSE "failed"

\* The reminder after occurrence a: due again next year, or finished with the outcome.
Finished(a) ==
  LET r == attempt[a].of IN
  IF frequency[r] = "yearly"
  THEN [reminder[r] EXCEPT !.status = "upcoming", !.next = Following(attempt[a].at)]
  ELSE [reminder[r] EXCEPT !.status = Outcome(a), !.next = Never]

CompleteAttempt(a) ==
  LET r == attempt[a].of IN
  /\ sender[a] \in {"sent", "failed"}
  /\ sender' = [sender EXCEPT ![a] = "over"]
  /\ attempt' = [attempt EXCEPT ![a].status = Outcome(a)]
  /\ linked' = IF sender[a] = "sent" THEN linked \union {a} ELSE linked \ {a}
  /\ reminder' = IF reminder[r].status = "sending"
                 THEN [reminder EXCEPT ![r] = Finished(a)] ELSE reminder
  /\ UNCHANGED <<now, frequency, message, named, meta, events, callback, interrupts>>

\* The process dies or loses the database: the occurrence stays claimed.
Abandon(a) ==
  /\ interrupts < MaxInterrupts
  /\ interrupts' = interrupts + 1
  /\ sender[a] \notin {"unused", "over"}
  /\ sender' = [sender EXCEPT ![a] = "over"]
  /\ UNCHANGED <<now, frequency, rowVars, messageVars, meta, events, callback>>

\* Mutant: the heartbeat of any attempt, ended or not, keeps the claim.
BeatingForEver(r) == \E a \in Attempt : attempt[a].of = r

Beating(r) == \E a \in Attempt : attempt[a].of = r /\ sender[a] \notin {"unused", "over"}

\* No heartbeat for fifteen minutes: the sender is gone, or (an interruption) only late.
RecoverStaleClaim(r) ==
  /\ reminder[r].status = "sending"
  /\ \/ ~Beating(r) /\ interrupts' = interrupts
     \/ Beating(r) /\ interrupts < MaxInterrupts /\ interrupts' = interrupts + 1
  /\ attempt' = [a \in Attempt |->
                   IF attempt[a].of = r /\ attempt[a].status = "sending"
                   THEN [attempt[a] EXCEPT !.status = "unknown"] ELSE attempt[a]]
  /\ reminder' = [reminder EXCEPT ![r].status = "paused"]
  /\ UNCHANGED <<now, frequency, messageVars, sender, meta, events, callback>>
-----------------------------------------------------------------------------
(***************************************************************************)
(* Meta's status callbacks, repeated and in any order.  One callback       *)
(* updates the message row and, in parallel, records the event and then    *)
(* the attempt it is about.                                                *)
(***************************************************************************)
Receive(c, a, s) ==
  /\ callback[c] = Nothing
  /\ Accepted(a) /\ (s = "failed") = (meta[a] = "fails")
  /\ callback' = [callback EXCEPT ![c] = [about |-> a, status |-> s,
                                          todo |-> {"message", "event", "attempt"}]]
  /\ UNCHANGED <<now, frequency, rowVars, messageVars, sender, meta, events, interrupts>>

FinishPart(c, part) ==
  LET work == callback[c] IN
  callback' = [callback EXCEPT ![c] =
                 IF work.todo = {part} THEN Nothing ELSE [work EXCEPT !.todo = @ \ {part}]]

Previous(s) ==
  CASE s = "sent"      -> {"queued", "failed"}
    [] s = "delivered" -> {"queued", "sent", "failed"}
    [] s = "read"      -> {"queued", "sent", "delivered", "failed"}
    [] s = "failed"    -> {"queued", "sent"}

\* Timestamps may refuse "sent" after "failed" and "failed" after "sent".
UpdateStatus(c) ==
  LET a == callback[c].about  s == callback[c].status IN
  /\ callback[c] # Nothing /\ "message" \in callback[c].todo
  /\ FinishPart(c, "message")
  /\ \/ /\ a \in named /\ message[a] \in Previous(s)
        /\ message' = [message EXCEPT ![a] = s]
     \/ /\ a \in named /\ message[a] \in Previous(s) => s \in {"sent", "failed"}
        /\ message' = message
  /\ UNCHANGED <<now, frequency, rowVars, named, linked, sender, meta, events, interrupts>>

RecordEvent(c) ==
  /\ callback[c] # Nothing /\ "event" \in callback[c].todo
  /\ FinishPart(c, "event")
  /\ events' = [events EXCEPT ![callback[c].about] = @ \union {callback[c].status}]
  /\ UNCHANGED <<now, frequency, rowVars, messageVars, sender, meta, interrupts>>

\* The attempt is found by its own wamid or by its message's.
Known(a) == a \in named \union linked

RecordDelivery(c) ==
  LET a == callback[c].about
      r == attempt[a].of
      failed == Known(a) /\ callback[c].status = "failed"
      final == frequency[r] = "once" /\ reminder[r].status = "sent" /\ reminder[r].last = a
  IN
  /\ callback[c] # Nothing /\ callback[c].todo \intersect {"event", "attempt"} = {"attempt"}
  /\ FinishPart(c, "attempt")
  /\ linked' = IF Known(a) THEN linked \union {a} ELSE linked
  /\ attempt' = IF failed THEN [attempt EXCEPT ![a].status = "failed"] ELSE attempt
  /\ reminder' = IF failed /\ final THEN [reminder EXCEPT ![r].status = "failed"] ELSE reminder
  /\ UNCHANGED <<now, frequency, message, named, sender, meta, events, interrupts>>
-----------------------------------------------------------------------------
OwnerStep(r) == Edit(r) \/ Pause(r) \/ Cancel(r) \/ Resume(r)

SenderStep(a) ==
  RefuseToSend(a) \/ Post(a) \/ Hear(a) \/ SaveSent(a) \/ SaveFailure(a) \/ CompleteAttempt(a)

CallbackStep(c) == UpdateStatus(c) \/ RecordEvent(c) \/ RecordDelivery(c)

RemindersNext ==
  \/ PassTime
  \/ \E r \in Reminder : OwnerStep(r) \/ ClaimNextDue(r) \/ RecoverStaleClaim(r)
  \/ \E a \in Attempt : SenderStep(a) \/ Abandon(a)
  \/ \E c \in Callback, a \in Attempt, s \in Status : Receive(c, a, s)
  \/ \E c \in Callback : CallbackStep(c)

RemindersSpec == RemindersInit /\ [][RemindersNext]_reminderVars

\* Sends end, and every tick recovers what its sender left behind.
RemindersFairness ==
  /\ \A r \in Reminder : WF_reminderVars(RecoverStaleClaim(r))
  /\ \A a \in Attempt : WF_reminderVars(SenderStep(a))
-----------------------------------------------------------------------------
(***************************************************************************)
(* Properties.                                                             *)
(***************************************************************************)
\* The time a waiting reminder is scheduled for was never attempted before: otherwise the
\* unique index fails every tick at that row, and no later reminder is sent either.
OccurrenceUntaken == \A r \in Reminder : reminder[r].status = "upcoming" => ~Taken(r)

Handling(a, s) == \E c \in Callback : callback[c] # Nothing /\ callback[c].about = a
                                      /\ callback[c].status = s
\* A claim was recovered under its sender, which may still complete it.
Overtaken(r) == \E a \in Attempt : attempt[a].of = r /\ a # reminder[r].last

\* Once Meta's failed callback about an attempt is handled, neither the attempt nor its
\* one-time reminder says "sent", whichever of the callback, the message's wamid and the
\* result of the send was saved first.
FailureDecides ==
  \A a \in Attempt : "failed" \in events[a] /\ ~Handling(a, "failed") =>
    /\ attempt[a].status # "sent"
    /\ LET r == attempt[a].of IN
         frequency[r] = "once" /\ ~Overtaken(r) => reminder[r].status # "sent"

\* A claimed occurrence does not stay claimed: it completes or, its sender gone, is paused.
ClaimsAreSettled ==
  \A r \in Reminder : reminder[r].status = "sending" ~> reminder[r].status # "sending"
=============================================================================
