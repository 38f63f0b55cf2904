-------------------------- MODULE Messaging_proofs --------------------------
(***************************************************************************)
(* Theorems about what surrounds the sending of a campaign: the inbox and  *)
(* the preference of the customer, what status reports make of a message,  *)
(* the chatbot, and the composition of these with the slots.               *)
(***************************************************************************)
EXTENDS Messaging, CampaignSlots_proofs, FiniteSums

(***************************************************************************)
(* The inbox: the preference of the customer.                              *)
(***************************************************************************)
ContactRow == [kept : BOOLEAN, out : BOOLEAN]
NoticeRow == [at : {"idle", "contact", "insert", "apply"}, of : 0..MaxCommands]
Preference == [value : {"none", "stop", "start"}, of : 0..MaxCommands]
Meaning == {"stop", "start", "other"}

CustomerTyped ==
  /\ contacts \in Seq(ContactRow) /\ Len(contacts) <= MaxContacts
  /\ commands \in Seq(Meaning) /\ Len(commands) <= MaxCommands
  /\ stored \subseteq Command
  /\ notice \in [Notice -> NoticeRow]
  /\ wish \in Preference

AllKept == \A n \in DOMAIN contacts : contacts[n].kept
AllMarked(value) == \A n \in DOMAIN contacts : contacts[n].out = (value = "stop")

\* What is applied is the newest thing the customer wrote: everything before was stored,
\* so an old notice that arrives again ends at its insert.  While no contact was deleted
\* there is at most one, and its mark is what was wished last.
CustomerInv ==
  /\ CustomerTyped
  /\ \A m \in DOMAIN commands : m = Len(commands) \/ m \in stored
  /\ \A q \in Notice :
       /\ notice[q].at # "idle" => notice[q].of \in DOMAIN commands
       /\ notice[q].at = "apply" => notice[q].of = Len(commands)
       /\ notice[q].at \in {"insert", "apply"} => contacts # <<>>
  /\ wish.of <= Len(commands)
  /\ wish.value # "none" => contacts # <<>>
  /\ AllKept => AllMarked(wish.value)

LEMMA CustomerFacts ==
  ASSUME CustomerTyped
  PROVE  /\ DOMAIN contacts = 1..Len(contacts) /\ Len(contacts) \in Nat
         /\ contacts \in [1..Len(contacts) -> ContactRow]
         /\ DOMAIN commands = 1..Len(commands) /\ Len(commands) \in Nat
         /\ commands \in [1..Len(commands) -> Meaning]
         /\ Len(contacts) <= MaxContacts /\ Len(commands) <= MaxCommands
         /\ MaxContacts \in Nat /\ MaxCommands \in Nat
<1>1. contacts \in Seq(ContactRow) /\ commands \in Seq(Meaning)
      /\ Len(contacts) <= MaxContacts /\ Len(commands) <= MaxCommands
  BY DEF CustomerTyped
<1>2. MaxContacts \in Nat /\ MaxCommands \in Nat
  BY InboxAssumption
<1> QED  BY <1>1, <1>2

\* What becomes of the rows of the identity.
LEMMA NewRow ==
  ASSUME CustomerInv, Kept = {}, Len(contacts) < MaxContacts, contacts' = NewContact
  PROVE  /\ contacts' \in Seq(ContactRow) /\ Len(contacts') <= MaxContacts /\ contacts' # <<>>
         /\ AllKept' => wish.value = "none" /\ AllMarked("none")'
<1> DEFINE row == [kept |-> TRUE, out |-> FALSE]
           k == Len(contacts)
<1>0. /\ k \in Nat /\ contacts \in Seq(ContactRow) /\ contacts \in [1..k -> ContactRow]
      /\ MaxContacts \in Nat /\ DOMAIN contacts = 1..k
  BY CustomerFacts DEF CustomerInv, CustomerTyped
<1>1. row \in ContactRow  BY DEF ContactRow
<1>2. contacts' = Append(contacts, row)  BY DEF NewContact
<1> HIDE DEF row
<1>3. /\ contacts' \in Seq(ContactRow) /\ Len(contacts') = k + 1 /\ DOMAIN contacts' = 1..(k + 1)
      /\ contacts'[k + 1] = row /\ \A n \in 1..k : contacts'[n] = contacts[n]
  BY <1>0, <1>1, <1>2
<1>4. ASSUME AllKept' PROVE wish.value = "none" /\ AllMarked("none")'
  <2>1. k = 0
    <3>1. \A n \in 1..k : n \in 1..(k + 1)  BY <1>0
    <3>2. \A n \in 1..k : contacts[n].kept  BY <1>3, <1>4, <3>1 DEF AllKept
    <3>3. \A n \in 1..k : n \in Kept  BY <1>0, <3>2 DEF Kept
    <3>4. k # 0 => k \in 1..k  BY <1>0
    <3> QED  BY <3>3, <3>4
  <2>2. wish.value = "none"
    <3>1. contacts = <<>>  BY <1>0, <2>1
    <3> QED  BY <3>1 DEF CustomerInv
  <2>3. \A n \in DOMAIN contacts' : contacts'[n] = row  BY <1>3, <2>1
  <2>4. row.out = FALSE  BY DEF row
  <2>5. ~("none" = "stop")  OBVIOUS
  <2>6. \A n \in DOMAIN contacts' : contacts'[n].out = ("none" = "stop")
    BY <2>3, <2>4, <2>5, Zenon
  <2> QED  BY <2>2, <2>6, Zenon DEF AllMarked
<1> QED  BY <1>0, <1>3, <1>4

LEMMA Marking ==
  ASSUME CustomerInv, NEW value, SetPreference(value)
  PROVE  /\ contacts' \in Seq(ContactRow) /\ Len(contacts') = Len(contacts)
         /\ contacts # <<>> => contacts' # <<>>
         /\ AllMarked(value)'
<1> DEFINE k == Len(contacts)
           marked == [n \in 1..k |-> [contacts[n] EXCEPT !.out = (value = "stop")]]
<1>0. k \in Nat /\ contacts \in [1..k -> ContactRow] /\ contacts \in Seq(ContactRow)
      /\ DOMAIN contacts = 1..k
  BY CustomerFacts DEF CustomerInv, CustomerTyped
<1>1. ASSUME NEW row \in ContactRow, NEW out \in BOOLEAN
      PROVE  [row EXCEPT !.out = out] \in ContactRow /\ [row EXCEPT !.out = out].out = out
  BY Zenon DEF ContactRow
<1>2. (value = "stop") \in BOOLEAN  OBVIOUS
<1>3. \A n \in 1..k : /\ [contacts[n] EXCEPT !.out = (value = "stop")] \in ContactRow
                      /\ [contacts[n] EXCEPT !.out = (value = "stop")].out = (value = "stop")
  <2> TAKE n \in 1..k
  <2>1. PICK row \in ContactRow : row = contacts[n]  BY <1>0
  <2> QED  BY <1>1, <1>2, <2>1, Zenon
<1>4. marked \in [1..k -> ContactRow] /\ \A n \in 1..k : marked[n].out = (value = "stop")
  BY <1>3, Zenon
<1>5. contacts' = marked  BY <1>0 DEF SetPreference
<1> HIDE DEF marked
<1>6. contacts' \in Seq(ContactRow) /\ Len(contacts') = k /\ DOMAIN contacts' = 1..k
  BY <1>0, <1>4, <1>5
<1>7. AllMarked(value)'
  BY <1>4, <1>5, <1>6, Zenon DEF AllMarked
<1>8. contacts # <<>> => contacts' # <<>>
  <2>1. contacts # <<>> => k # 0  BY <1>0
  <2>2. k # 0 => contacts' # <<>>  BY <1>0, <1>6
  <2> QED  BY <2>1, <2>2
<1> QED  BY <1>6, <1>7, <1>8

LEMMA Deleting ==
  ASSUME CustomerInv, NEW n \in Kept, contacts' = [contacts EXCEPT ![n].kept = FALSE]
  PROVE  /\ contacts' \in Seq(ContactRow) /\ Len(contacts') = Len(contacts) /\ contacts' # <<>>
         /\ ~AllKept'
<1> DEFINE k == Len(contacts)
<1>0. k \in Nat /\ contacts \in [1..k -> ContactRow] /\ contacts \in Seq(ContactRow)
      /\ DOMAIN contacts = 1..k /\ n \in 1..k
  BY CustomerFacts DEF CustomerInv, CustomerTyped, Kept
<1>1. PICK row \in ContactRow : row = contacts[n]  BY <1>0
<1>2. [row EXCEPT !.kept = FALSE] \in ContactRow /\ ~[row EXCEPT !.kept = FALSE].kept
  BY Zenon DEF ContactRow
<1>3. PICK gone \in ContactRow : gone = [row EXCEPT !.kept = FALSE] /\ ~gone.kept  BY <1>2, Zenon
<1>4. contacts' = [contacts EXCEPT ![n] = gone]  BY <1>1, <1>3, Zenon
<1>5. contacts' \in [1..k -> ContactRow] /\ contacts'[n] = gone  BY <1>0, <1>4
<1>6. contacts' \in Seq(ContactRow) /\ Len(contacts') = k /\ DOMAIN contacts' = 1..k
  BY <1>0, <1>5
<1>7. ~AllKept'  BY <1>0, <1>3, <1>5, <1>6 DEF AllKept
<1> QED  BY <1>0, <1>6, <1>7

LEMMA LoadsAreBounded ==
  ASSUME inboxLoad \in InboxLoads
  PROVE  /\ inboxLoad.commands \in 0..MaxCommands /\ inboxLoad.deletions \in 0..MaxContacts
         /\ inboxLoad.reports \in 0..3
<1>1. inboxLoad \in [commands : 0..MaxCommands, deletions : 0..MaxContacts, reports : 0..3]
  BY InboxAssumption
<1> QED  BY <1>1

LEMMA CustomerStep ==
  ASSUME CustomerInv, inboxLoad \in InboxLoads,
         \/ AddContact \/ DeleteContact
         \/ \E value \in {"stop", "start"} : UpdateContact(value)
         \/ \E meaning \in Meaning : Write(meaning)
         \/ \E q \in Notice : \/ \E m \in DOMAIN commands : Receive(q, m)
                              \/ FindOrCreate(q) \/ StoreMessage(q) \/ ApplyPreference(q)
                              \/ BreakNotice(q)
  PROVE  CustomerInv'
<1>0. /\ DOMAIN commands = 1..Len(commands) /\ Len(commands) \in Nat
      /\ commands \in Seq(Meaning) /\ commands \in [1..Len(commands) -> Meaning]
      /\ contacts \in Seq(ContactRow) /\ Len(contacts) \in Nat
      /\ Len(contacts) <= MaxContacts /\ MaxContacts \in Nat
      /\ Len(commands) <= MaxCommands /\ MaxCommands \in Nat
      /\ stored \subseteq Command /\ notice \in [Notice -> NoticeRow] /\ wish \in Preference
  BY CustomerFacts DEF CustomerInv, CustomerTyped
<1>1. /\ \A m \in DOMAIN commands : m = Len(commands) \/ m \in stored
      /\ \A q \in Notice :
           /\ notice[q].at # "idle" => notice[q].of \in DOMAIN commands
           /\ notice[q].at = "apply" => notice[q].of = Len(commands)
           /\ notice[q].at \in {"insert", "apply"} => contacts # <<>>
      /\ wish.of <= Len(commands) /\ wish.of \in Nat
      /\ wish.value # "none" => contacts # <<>>
      /\ AllKept => AllMarked(wish.value)
  BY <1>0 DEF CustomerInv, Preference
\* The rows change, the notices and what the customer wrote do not.
<1>2. ASSUME contacts' \in Seq(ContactRow), Len(contacts') <= MaxContacts, wish' \in Preference,
             contacts # <<>> => contacts' # <<>>, wish'.of = wish.of,
             wish'.value # "none" => contacts' # <<>>,
             AllKept' => AllMarked(wish.value)', UNCHANGED <<commands, stored, notice>>
      PROVE  CustomerInv'
  BY <1>0, <1>1, <1>2 DEF CustomerInv, CustomerTyped
<1>3. CASE AddContact
  <2>1. Kept = {} /\ Len(contacts) < MaxContacts /\ contacts' = NewContact
        /\ UNCHANGED <<commands, stored, notice, wish>>
    BY <1>3 DEF AddContact
  <2>2. /\ contacts' \in Seq(ContactRow) /\ Len(contacts') <= MaxContacts /\ contacts' # <<>>
        /\ AllKept' => wish.value = "none" /\ AllMarked("none")'
    BY <2>1, NewRow
  <2> QED  BY <1>0, <1>2, <2>1, <2>2
<1>4. CASE DeleteContact
  <2>1. PICK n \in Kept : contacts' = [contacts EXCEPT ![n].kept = FALSE]
    BY <1>4 DEF DeleteContact
  <2>2. /\ contacts' \in Seq(ContactRow) /\ Len(contacts') = Len(contacts) /\ contacts' # <<>>
        /\ ~AllKept'
    BY <2>1, Deleting
  <2>3. UNCHANGED <<commands, stored, notice, wish>>
    BY <1>4 DEF DeleteContact
  <2> QED  BY <1>0, <1>1, <1>2, <2>2, <2>3
<1>5. CASE \E value \in {"stop", "start"} : UpdateContact(value)
  <2>1. PICK value \in {"stop", "start"} : UpdateContact(value)  BY <1>5
  <2>2. Kept # {} /\ SetPreference(value) /\ wish' = [wish EXCEPT !.value = value]
        /\ UNCHANGED <<commands, stored, notice>>
    BY <2>1 DEF UpdateContact
  <2>3. contacts # <<>>
    <3>1. contacts = <<>> => Len(contacts) = 0  OBVIOUS
    <3>2. DOMAIN contacts = 1..Len(contacts)  BY <1>0
    <3> QED  BY <2>2, <3>1, <3>2 DEF Kept
  <2>4. contacts' \in Seq(ContactRow) /\ Len(contacts') = Len(contacts) /\ contacts' # <<>>
        /\ AllMarked(value)'
    BY <2>2, <2>3, Marking
  <2>5. wish' \in Preference /\ wish'.of = wish.of /\ wish'.value = value
    BY <1>0, <2>2 DEF Preference
  <2> QED  BY <1>0, <1>2, <2>2, <2>4, <2>5
<1>6. CASE \E meaning \in Meaning : Write(meaning)
  <2>1. PICK meaning \in Meaning : Write(meaning)  BY <1>6
  <2>2. Len(commands) < inboxLoad.commands /\ inboxLoad.commands \in 0..MaxCommands
    BY <2>1, LoadsAreBounded DEF Write
  <2>3. /\ DOMAIN commands \subseteq stored /\ \A q \in Notice : notice[q].at # "apply"
        /\ commands' = Append(commands, meaning) /\ UNCHANGED <<contacts, stored, notice, wish>>
    BY <2>1 DEF Write
  <2>4. /\ commands' \in Seq(Meaning) /\ Len(commands') = Len(commands) + 1
        /\ DOMAIN commands' = 1..(Len(commands) + 1)
    BY <1>0, <2>3
  <2>5. Len(commands') <= MaxCommands /\ wish'.of <= Len(commands')
    BY <1>0, <1>1, <2>2, <2>3, <2>4
  <2>6. \A m \in DOMAIN commands' : m = Len(commands') \/ m \in stored'
    BY <1>0, <2>3, <2>4
  <2>7. \A m \in DOMAIN commands : m \in DOMAIN commands'
    BY <1>0, <2>4
  <2>8. AllKept' = AllKept /\ AllMarked(wish.value)' = AllMarked(wish.value)
    BY <2>3 DEF AllKept, AllMarked
  <2> QED  BY <1>0, <1>1, <2>3, <2>4, <2>5, <2>6, <2>7, <2>8 DEF CustomerInv, CustomerTyped
\* A notice takes a step.
<1>7. ASSUME NEW q \in Notice, NEW row \in NoticeRow, notice' = [notice EXCEPT ![q] = row],
             commands' = commands, stored' \in SUBSET Command, stored \subseteq stored',
             row.at # "idle" => row.of \in DOMAIN commands,
             row.at = "apply" => row.of = Len(commands),
             row.at \in {"insert", "apply"} => contacts' # <<>>,
             contacts' \in Seq(ContactRow), Len(contacts') <= MaxContacts, wish' \in Preference,
             contacts # <<>> => contacts' # <<>>, wish'.of <= Len(commands),
             wish'.value # "none" => contacts' # <<>>, AllKept' => AllMarked(wish.value)'
      PROVE  CustomerInv'
  <2>1. notice' \in [Notice -> NoticeRow] /\ \A p \in Notice : notice'[p] = IF p = q THEN row ELSE notice[p]
    BY <1>0, <1>7
  <2>2. CustomerTyped'  BY <1>0, <1>7, <2>1 DEF CustomerTyped
  <2>3. \A p \in Notice :
          /\ notice'[p].at # "idle" => notice'[p].of \in DOMAIN commands'
          /\ notice'[p].at = "apply" => notice'[p].of = Len(commands')
          /\ notice'[p].at \in {"insert", "apply"} => contacts' # <<>>
    <3> TAKE p \in Notice
    <3>1. CASE p = q  BY <1>7, <2>1, <3>1
    <3>2. CASE p # q
      <4>1. notice'[p] = notice[p]  BY <2>1, <3>2
      <4> QED  BY <1>1, <1>7, <4>1
    <3> QED  BY <3>1, <3>2
  <2>4. \A m \in DOMAIN commands' : m = Len(commands') \/ m \in stored'
    BY <1>1, <1>7
  <2>5. wish'.of <= Len(commands')  BY <1>7
  <2>6. wish'.value # "none" => contacts' # <<>>  BY <1>7
  <2>7. AllKept' => AllMarked(wish.value)'  BY <1>7
  <2> QED  BY <2>2, <2>3, <2>4, <2>5, <2>6, <2>7 DEF CustomerInv
<1>8. /\ AllKept /\ UNCHANGED contacts => AllKept'
      /\ UNCHANGED contacts => AllKept' = AllKept
      /\ UNCHANGED <<contacts, wish>> => AllMarked(wish.value)' = AllMarked(wish.value)
  BY DEF AllKept, AllMarked
<1>idle. [at |-> "idle", of |-> 0] \in NoticeRow /\ [at |-> "idle", of |-> 0].at = "idle"
  BY <1>0 DEF NoticeRow
<1>9. CASE \E q \in Notice : \E m \in DOMAIN commands : Receive(q, m)
  <2>1. PICK q \in Notice, m \in DOMAIN commands : Receive(q, m)  BY <1>9
  <2>2. /\ notice' = [notice EXCEPT ![q] = [at |-> "contact", of |-> m]]
        /\ UNCHANGED <<contacts, commands, stored, wish>>
    BY <2>1 DEF Receive
  <2>3. m \in 0..MaxCommands  BY <1>0, <2>1
  <2>4. PICK row \in NoticeRow : row = [at |-> "contact", of |-> m]
    BY <2>3 DEF NoticeRow
  <2> QED  BY <1>0, <1>1, <1>7, <1>8, <2>1, <2>2, <2>4
<1>10. CASE \E q \in Notice : FindOrCreate(q)
  <2>1. PICK q \in Notice : FindOrCreate(q)  BY <1>10
  <2>2. /\ notice[q].at = "contact" /\ (Kept # {} \/ Len(contacts) < MaxContacts)
        /\ contacts' = IF Kept = {} THEN NewContact ELSE contacts
        /\ notice' = [notice EXCEPT ![q].at = "insert"]
        /\ UNCHANGED <<commands, stored, wish>>
    BY <2>1 DEF FindOrCreate
  <2>3. PICK old \in NoticeRow : old = notice[q]  BY <1>0
  <2>4. PICK row \in NoticeRow : row = [old EXCEPT !.at = "insert"] /\ row.at = "insert" /\ row.of = old.of
    <3>1. /\ [old EXCEPT !.at = "insert"] \in NoticeRow /\ [old EXCEPT !.at = "insert"].at = "insert"
          /\ [old EXCEPT !.at = "insert"].of = old.of
      BY DEF NoticeRow
    <3> QED  BY <3>1, Zenon
  <2>5. notice' = [notice EXCEPT ![q] = row]  BY <2>2, <2>3, <2>4, Zenon
  <2>6. row.of \in DOMAIN commands  BY <1>1, <2>2, <2>3, <2>4
  <2>7. CASE Kept = {}
    <3>1. /\ contacts' \in Seq(ContactRow) /\ Len(contacts') <= MaxContacts /\ contacts' # <<>>
          /\ AllKept' => wish.value = "none" /\ AllMarked("none")'
      BY <2>2, <2>7, NewRow
    <3>2. AllKept' => AllMarked(wish.value)'  BY <2>2, <3>1
    <3> QED  BY <1>0, <1>1, <1>7, <2>2, <2>4, <2>5, <2>6, <3>1, <3>2
  <2>8. CASE Kept # {}
    <3>1. contacts' = contacts  BY <2>2, <2>8
    <3>2. contacts # <<>>
      <4>1. contacts = <<>> => Len(contacts) = 0  OBVIOUS
      <4>2. DOMAIN contacts = 1..Len(contacts)  BY <1>0
      <4> QED  BY <2>8, <4>1, <4>2 DEF Kept
    <3>3. AllKept' => AllMarked(wish.value)'
      <4>1. AllKept => AllMarked(wish.value)  BY <1>1
      <4>2. AllKept' = AllKept /\ AllMarked(wish.value)' = AllMarked(wish.value)
        BY <1>8, <2>2, <3>1
      <4> QED  BY <4>1, <4>2
    <3>4. contacts' \in Seq(ContactRow) /\ Len(contacts') <= MaxContacts /\ contacts' # <<>>
      BY <1>0, <3>1, <3>2
    <3>5. wish' \in Preference /\ wish'.of <= Len(commands)
      BY <1>0, <1>1, <2>2
    <3> QED  BY <1>0, <1>7, <2>2, <2>4, <2>5, <2>6, <3>3, <3>4, <3>5
  <2> QED  BY <2>7, <2>8
<1>11. CASE \E q \in Notice : StoreMessage(q)
  <2>1. PICK q \in Notice : StoreMessage(q)  BY <1>11
  <2>2. PICK old \in NoticeRow : old = notice[q]  BY <1>0
  <2>3. /\ old.at = "insert" /\ stored' = stored \cup {old.of}
        /\ notice' = IF old.of \notin stored THEN [notice EXCEPT ![q].at = "apply"]
                     ELSE [notice EXCEPT ![q] = [at |-> "idle", of |-> 0]]
        /\ UNCHANGED <<contacts, commands, wish>>
    BY <2>1, <2>2 DEF StoreMessage, Inserted
  <2>4. old.of \in DOMAIN commands /\ contacts # <<>>  BY <1>1, <2>2, <2>3
  <2>5. stored' \in SUBSET Command /\ stored \subseteq stored'
    BY <1>0, <2>3, <2>4 DEF Command
  <2>6. CASE old.of \notin stored
    <3>1. PICK row \in NoticeRow : row = [old EXCEPT !.at = "apply"] /\ row.at = "apply" /\ row.of = old.of
      <4>1. /\ [old EXCEPT !.at = "apply"] \in NoticeRow /\ [old EXCEPT !.at = "apply"].at = "apply"
            /\ [old EXCEPT !.at = "apply"].of = old.of
        BY DEF NoticeRow
      <4> QED  BY <4>1, Zenon
    <3>2. notice' = [notice EXCEPT ![q] = row]  BY <2>2, <2>3, <2>6, <3>1, Zenon
    <3>3. row.of = Len(commands)  BY <1>1, <2>4, <2>6, <3>1
    <3> QED  BY <1>0, <1>1, <1>7, <1>8, <2>3, <2>4, <2>5, <3>1, <3>2, <3>3
  <2>7. CASE old.of \in stored
    <3>1. PICK row \in NoticeRow : row = [at |-> "idle", of |-> 0] /\ row.at = "idle"
      BY <1>idle, Zenon
    <3> QED  BY <1>0, <1>1, <1>7, <1>8, <2>3, <2>5, <2>7, <3>1
  <2> QED  BY <2>6, <2>7
<1>12. CASE \E q \in Notice : ApplyPreference(q)
  <2>1. PICK q \in Notice : ApplyPreference(q)  BY <1>12
  <2>2. PICK m \in DOMAIN commands : m = notice[q].of /\ m = Len(commands) /\ contacts # <<>>
    BY <1>1, <2>1 DEF ApplyPreference
  <2>3. PICK row \in NoticeRow : row = [at |-> "idle", of |-> 0] /\ row.at = "idle"
    BY <1>idle, Zenon
  <2>4. notice' = [notice EXCEPT ![q] = row] /\ UNCHANGED <<commands, stored>>
    BY <2>1, <2>3 DEF ApplyPreference
  <2>5. CASE commands[m] = "other"
    <3>1. UNCHANGED <<contacts, wish>>  BY <2>1, <2>2, <2>5 DEF ApplyPreference
    <3> QED  BY <1>0, <1>1, <1>7, <1>8, <2>3, <2>4, <3>1
  <2>6. CASE commands[m] # "other"
    <3>1. PICK value \in {"stop", "start"} : value = commands[m]  BY <1>0, <2>6 DEF Meaning
    <3>2. SetPreference(value) /\ wish' = IF m >= wish.of THEN [value |-> value, of |-> m] ELSE wish
      BY <2>1, <2>2, <2>6, <3>1 DEF ApplyPreference
    <3>3. m >= wish.of /\ m \in 0..MaxCommands  BY <1>0, <1>1, <2>2
    <3>4. wish' = [value |-> value, of |-> m]  BY <3>2, <3>3
    <3>5. wish' \in Preference /\ wish'.value = value /\ wish'.of = m
      BY <3>3, <3>4 DEF Preference
    <3>6. /\ contacts' \in Seq(ContactRow) /\ Len(contacts') = Len(contacts) /\ contacts' # <<>>
          /\ AllMarked(value)'
      BY <2>2, <3>2, Marking
    <3>7. AllMarked(wish.value)'  BY <3>5, <3>6
    <3>8. wish'.of <= Len(commands)  BY <1>0, <2>2, <3>5
    <3> QED  BY <1>0, <1>1, <1>7, <2>3, <2>4, <3>5, <3>6, <3>7, <3>8
  <2> QED  BY <2>5, <2>6
<1>13. CASE \E q \in Notice : BreakNotice(q)
  <2>1. PICK q \in Notice : BreakNotice(q)  BY <1>13
  <2>2. PICK row \in NoticeRow : row = [at |-> "idle", of |-> 0] /\ row.at = "idle"
    BY <1>idle, Zenon
  <2>3. notice' = [notice EXCEPT ![q] = row] /\ UNCHANGED <<contacts, commands, stored, wish>>
    BY <2>1, <2>2 DEF BreakNotice
  <2> QED  BY <1>0, <1>1, <1>7, <1>8, <2>2, <2>3
<1> QED  BY <1>3, <1>4, <1>5, <1>6, <1>9, <1>10, <1>11, <1>12, <1>13

\* While every contact is kept, the last preference set holds.
LEMMA CustomerIsHeard ==
  ASSUME CustomerInv
  PROVE  LastWordHolds
<1> SUFFICES ASSUME Cardinality(Kept) = Len(contacts), wish.value # "none"
             PROVE  Blocked = (wish.value = "stop")
  BY DEF LastWordHolds
<1> DEFINE k == Len(contacts)
<1>0. k \in Nat /\ DOMAIN contacts = 1..k /\ contacts \in Seq(ContactRow)
      /\ contacts \in [1..k -> ContactRow]
  BY CustomerFacts DEF CustomerInv, CustomerTyped
<1>1. Kept \subseteq 1..k  BY <1>0 DEF Kept
<1>2. IsFiniteSet(1..k) /\ Cardinality(1..k) = k
  <2>1. 1 \in Int /\ k \in Int  BY <1>0
  <2> HIDE DEF k
  <2>2. IsFiniteSet(1..k) /\ Cardinality(1..k) = IF 1 > k THEN 0 ELSE k - 1 + 1
    BY <2>1, FS_Interval, Zenon
  <2> QED  BY <1>0, <2>2
<1>3. Kept = 1..k  BY <1>1, <1>2, FS_Subset
<1>4. AllKept  BY <1>0, <1>3 DEF AllKept, Kept
<1>5. AllMarked(wish.value) /\ contacts # <<>>  BY <1>4 DEF CustomerInv
<1>6. 1 \in 1..k
  <2>1. k # 0  BY <1>0, <1>5
  <2> QED  BY <1>0, <2>1
<1>7. \A n \in 1..k : contacts[n].out = (wish.value = "stop")
  BY <1>0, <1>5 DEF AllMarked
<1>8. CASE wish.value = "stop"  BY <1>3, <1>6, <1>7, <1>8, Zenon DEF Blocked
<1>9. CASE wish.value # "stop"  BY <1>3, <1>7, <1>9, Zenon DEF Blocked
<1> QED  BY <1>8, <1>9

-----------------------------------------------------------------------------
(***************************************************************************)
(* The inbox: what the reports say of a message.                           *)
(***************************************************************************)
Status == ReportKind \cup {"queued"}
Stand == {"none", "excluded", "waiting", "skipped", "created", "called", "ended", "known"}
Outbound == [at : Stand, status : Status, sent : 0..MaxSeconds, failed : 0..MaxSeconds,
             despite : {"none", "stop", "start"}]

SendTyped ==
  /\ outbound \in [CampaignSends -> Outbound]
  /\ reports \in [CampaignSends -> Seq(Report)]
  /\ handled \in [CampaignSends -> SUBSET Report]
  /\ seconds \in 1..MaxSeconds

\* Meta reports in the order of the kinds and of the clock.
InOrder(s) ==
  /\ \A m, n \in DOMAIN reports[s] : m < n =>
       /\ Rank[reports[s][m].kind] < Rank[reports[s][n].kind]
       /\ reports[s][m].second <= reports[s][n].second
  /\ \A n \in DOMAIN reports[s] : reports[s][n].second <= seconds
WasReported(s) == \A r \in handled[s] : \E n \in DOMAIN reports[s] : r = reports[s][n]

\* What the row of a message tells, of the reports that were handled.
Has(some, kind) == \E r \in some : r.kind = kind
Tells(row, some) ==
  \/ row.status = "read" /\ Has(some, "read")
  \/ row.status = "delivered" /\ Has(some, "delivered") /\ ~Has(some, "read")
  \/ /\ row.status = "failed" /\ ~Has(some, "read") /\ ~Has(some, "delivered")
     /\ \E r \in some : r.kind = "failed" /\ r.second = row.failed
     /\ row.failed >= row.sent
  \/ /\ row.status = "sent" /\ ~Has(some, "read") /\ ~Has(some, "delivered")
     /\ \A r \in some : r.kind = "failed" => r.second <= row.sent

\* A row is handled from when its wamid is known.
ReportInv(s) ==
  /\ InOrder(s)
  /\ WasReported(s)
  /\ outbound[s].at # "known" => handled[s] = {}
  /\ outbound[s].at = "known" => Tells(outbound[s], handled[s])

SendInv == SendTyped /\ \A s \in CampaignSends : ReportInv(s)

LEMMA Ranks ==
  /\ \A kind \in ReportKind : Rank[kind] \in 1..4
  /\ Rank["sent"] = 1 /\ Rank["failed"] = 4
BY DEF Rank, ReportKind

\* One report of a kind; a failure is not reported before the sending.
Consistent(some) ==
  \A r, t \in some :
    /\ r.kind = t.kind => r = t
    /\ r.kind = "sent" /\ t.kind = "failed" => r.second <= t.second

LEMMA ReportsAreConsistent ==
  ASSUME NEW s \in CampaignSends, reports \in [CampaignSends -> Seq(Report)], InOrder(s),
         NEW some \in SUBSET Report,
         \A r \in some : \E n \in DOMAIN reports[s] : r = reports[s][n]
  PROVE  Consistent(some)
<1> SUFFICES ASSUME NEW r \in some, NEW t \in some
             PROVE  /\ r.kind = t.kind => r = t
                    /\ r.kind = "sent" /\ t.kind = "failed" => r.second <= t.second
  BY DEF Consistent
<1>1. reports[s] \in Seq(Report) /\ DOMAIN reports[s] = 1..Len(reports[s]) /\ Len(reports[s]) \in Nat
  OBVIOUS
<1>2. PICK m \in DOMAIN reports[s] : r = reports[s][m]  OBVIOUS
<1>3. PICK n \in DOMAIN reports[s] : t = reports[s][n]  OBVIOUS
<1>4. m \in Nat /\ n \in Nat  BY <1>1, <1>2, <1>3
<1>5. r \in Report /\ t \in Report  OBVIOUS
<1>6. Rank[r.kind] \in 1..4 /\ Rank[t.kind] \in 1..4 /\ r.second \in Nat /\ t.second \in Nat
  BY <1>5, Ranks DEF Report
<1>7. m < n => Rank[r.kind] < Rank[t.kind] /\ r.second <= t.second
  BY <1>2, <1>3 DEF InOrder
<1>8. n < m => Rank[t.kind] < Rank[r.kind] /\ t.second <= r.second
  BY <1>2, <1>3 DEF InOrder
<1>9. m = n => r = t  BY <1>2, <1>3
<1>10. r.kind = t.kind => r = t
  <2> SUFFICES ASSUME r.kind = t.kind PROVE r = t  OBVIOUS
  <2>1. Rank[r.kind] = Rank[t.kind]  OBVIOUS
  <2> QED  BY <1>4, <1>6, <1>7, <1>8, <1>9, <2>1
<1>11. ASSUME r.kind = "sent", t.kind = "failed" PROVE r.second <= t.second
  <2>1. Rank[r.kind] = 1 /\ Rank[t.kind] = 4  BY <1>11, Ranks
  <2>2. m < n  BY <1>4, <1>8, <1>9, <1>11, <2>1
  <2> QED  BY <1>7, <2>2
<1> QED  BY <1>10, <1>11

\* A report that is handled, first, late or again, keeps what the row tells.
LEMMA Handling ==
  ASSUME NEW row \in Outbound, NEW some \in SUBSET Report, NEW r \in Report,
         Tells(row, some), Consistent(some \cup {r}), MaxSeconds \in Nat
  PROVE  /\ Applies(row, r) => Reported(row, r) \in Outbound /\ Reported(row, r).at = row.at
         /\ Tells(IF Applies(row, r) THEN Reported(row, r) ELSE row, some \cup {r})
<1>1. /\ row.status \in Status /\ row.sent \in Nat /\ row.failed \in Nat
      /\ r.kind \in ReportKind /\ r.second \in 1..MaxSeconds /\ r.second \in Nat
      /\ \A t \in some : t.second \in Nat
  BY DEF Outbound, Report
<1>2. /\ Has(some \cup {r}, "read") <=> Has(some, "read") \/ r.kind = "read"
      /\ Has(some \cup {r}, "delivered") <=> Has(some, "delivered") \/ r.kind = "delivered"
  BY DEF Has
<1>3. \A t \in some : t.kind = r.kind => t = r
  BY DEF Consistent
<1>4. PICK new : new = Reported(row, r)  OBVIOUS
<1>5. /\ new \in Outbound /\ new.at = row.at /\ new.status = r.kind
      /\ new.sent = IF r.kind = "sent" THEN r.second ELSE row.sent
      /\ new.failed = IF r.kind = "failed" THEN r.second ELSE 0
  <2>1. PICK sent \in 0..MaxSeconds : sent = IF r.kind = "sent" THEN r.second ELSE row.sent
    BY <1>1 DEF Outbound
  <2>2. PICK failed \in 0..MaxSeconds : failed = IF r.kind = "failed" THEN r.second ELSE 0
    BY <1>1
  <2>3. r.kind \in Status  BY <1>1 DEF Status
  <2>4. new = [row EXCEPT !.status = r.kind, !.sent = sent, !.failed = failed]
    BY <1>4, <2>1, <2>2, Zenon DEF Reported
  <2>5. /\ new \in Outbound /\ new.at = row.at /\ new.status = r.kind
        /\ new.sent = sent /\ new.failed = failed
    BY <2>1, <2>2, <2>3, <2>4 DEF Outbound
  <2> QED  BY <2>1, <2>2, <2>5
<1>6. Applies(row, r) <=> /\ row.status \in PreviousStatuses[r.kind]
                          /\ r.kind = "sent" => row.failed = 0 \/ row.failed <= r.second
                          /\ r.kind = "failed" => row.sent = 0 \/ row.sent <= r.second
  BY DEF Applies
<1>7. ASSUME Applies(row, r) PROVE Tells(new, some \cup {r})
  <2>1. CASE r.kind = "read"  BY <1>2, <1>5, <2>1 DEF Tells
  <2>2. CASE r.kind = "delivered"
    <3>1. row.status # "read" /\ row.status # "delivered"
      BY <1>6, <1>7, <2>2 DEF PreviousStatuses
    <3>2. ~Has(some, "read")  BY <3>1 DEF Tells
    <3> QED  BY <1>2, <1>5, <2>2, <3>2 DEF Tells
  <2>3. CASE r.kind = "failed"
    <3>1. row.status = "sent"
      BY <1>6, <1>7, <2>3 DEF PreviousStatuses, Tells
    <3>2. ~Has(some, "read") /\ ~Has(some, "delivered")  BY <3>1 DEF Tells
    <3>3. new.failed = r.second /\ new.failed >= new.sent  BY <1>1, <1>5, <1>6, <1>7, <2>3
    <3> QED  BY <1>2, <1>5, <2>3, <3>2, <3>3 DEF Tells
  <2>4. CASE r.kind = "sent"
    <3>1. row.status = "failed"
      BY <1>6, <1>7, <2>4 DEF PreviousStatuses, Tells
    <3>2. ~Has(some, "read") /\ ~Has(some, "delivered")  BY <3>1 DEF Tells
    <3>3. PICK f \in some : f.kind = "failed" /\ f.second = row.failed  BY <3>1 DEF Tells
    <3>4. \A t \in some : t.kind = "failed" => t = f  BY <3>3 DEF Consistent
    <3>5. row.failed <= r.second  BY <1>1, <1>6, <1>7, <2>4
    <3>6. \A t \in some \cup {r} : t.kind = "failed" => t.second <= new.sent
      BY <1>5, <2>4, <3>3, <3>4, <3>5
    <3> QED  BY <1>2, <1>5, <2>4, <3>2, <3>6 DEF Tells
  <2> QED  BY <1>1, <2>1, <2>2, <2>3, <2>4 DEF ReportKind
<1>8. ASSUME ~Applies(row, r) PROVE Tells(row, some \cup {r})
  <2>1. CASE row.status = "read"  BY <1>2, <2>1 DEF Tells
  <2>2. CASE row.status = "delivered"
    <3>1. r.kind # "read"  BY <1>6, <1>8, <2>2 DEF PreviousStatuses
    <3> QED  BY <1>2, <2>2, <3>1 DEF Tells
  <2>3. CASE row.status = "failed"
    <3>1. r.kind # "read" /\ r.kind # "delivered"  BY <1>6, <1>8, <2>3 DEF PreviousStatuses
    <3>2. \E t \in some \cup {r} : t.kind = "failed" /\ t.second = row.failed  BY <2>3 DEF Tells
    <3> QED  BY <1>2, <2>3, <3>1, <3>2 DEF Tells
  <2>4. CASE row.status = "sent"
    <3>1. r.kind # "read" /\ r.kind # "delivered"  BY <1>6, <1>8, <2>4 DEF PreviousStatuses
    <3>2. r.kind = "failed" => r.second <= row.sent
      BY <1>1, <1>6, <1>8, <2>4 DEF PreviousStatuses
    <3>3. \A t \in some \cup {r} : t.kind = "failed" => t.second <= row.sent  BY <2>4, <3>2 DEF Tells
    <3> QED  BY <1>2, <2>4, <3>1, <3>3 DEF Tells
  <2> QED  BY <2>1, <2>2, <2>3, <2>4 DEF Tells
<1> QED  BY <1>4, <1>5, <1>7, <1>8

\* A row takes a step before its wamid is known, or becomes known.
LEMMA RowSteps ==
  ASSUME SendInv, NEW s \in CampaignSends, NEW row \in Outbound,
         outbound' = [outbound EXCEPT ![s] = row], UNCHANGED <<reports, handled, seconds>>,
         handled[s] = {}, row.at = "known" => row.status = "sent"
  PROVE  SendInv'
<1>1. outbound \in [CampaignSends -> Outbound]  BY DEF SendInv, SendTyped
<1>2. outbound' \in [CampaignSends -> Outbound]
      /\ \A t \in CampaignSends : outbound'[t] = IF t = s THEN row ELSE outbound[t]
  BY <1>1
<1>3. SendTyped'  BY <1>2 DEF SendInv, SendTyped
<1>4. ASSUME NEW t \in CampaignSends PROVE ReportInv(t)'
  <2>1. ReportInv(t)  BY DEF SendInv
  <2>2. InOrder(t)' /\ WasReported(t)'  BY <2>1 DEF ReportInv, InOrder, WasReported
  <2>3. CASE t = s
    <3>1. outbound'[t] = row /\ handled'[t] = {}  BY <1>2, <2>3
    <3>2. row.at = "known" => Tells(row, {})  BY DEF Tells, Has
    <3> QED  BY <2>2, <3>1, <3>2 DEF ReportInv
  <2>4. CASE t # s
    <3>1. outbound'[t] = outbound[t] /\ handled'[t] = handled[t]  BY <1>2, <2>4
    <3> QED  BY <2>1, <2>2, <3>1 DEF ReportInv
  <2> QED  BY <2>3, <2>4
<1> QED  BY <1>3, <1>4 DEF SendInv

LEMMA ReportKeepsOrder ==
  ASSUME SendInv, NEW s \in CampaignSends, NEW kind \in ReportKind, MetaReports(s, kind)
  PROVE  SendInv'
<1> DEFINE report == [kind |-> kind, second |-> seconds]
           k == Len(reports[s])
<1>1. reports \in [CampaignSends -> Seq(Report)] /\ seconds \in 1..MaxSeconds
  BY DEF SendInv, SendTyped
<1>2. report \in Report /\ report.kind = kind /\ report.second = seconds  BY <1>1 DEF Report
<1>3. /\ \A n \in DOMAIN reports[s] : Rank[reports[s][n].kind] < Rank[kind]
      /\ reports' = [reports EXCEPT ![s] = Append(reports[s], report)]
      /\ UNCHANGED <<outbound, handled, seconds>>
  BY DEF MetaReports
<1> HIDE DEF report
<1>4. PICK more \in Seq(Report) : more = Append(reports[s], report)
  <2>1. PICK old \in Seq(Report) : old = reports[s]  BY <1>1
  <2>2. Append(old, report) \in Seq(Report)  BY <1>2
  <2> QED  BY <2>1, <2>2, Zenon
<1>5. /\ k \in Nat /\ DOMAIN reports[s] = 1..k /\ DOMAIN more = 1..(k + 1)
      /\ more[k + 1] = report /\ \A n \in 1..k : more[n] = reports[s][n]
  BY <1>1, <1>2, <1>4
<1>6. reports' \in [CampaignSends -> Seq(Report)]
      /\ \A t \in CampaignSends : reports'[t] = IF t = s THEN more ELSE reports[t]
  BY <1>1, <1>3, <1>4
<1>7. SendTyped'  BY <1>3, <1>6 DEF SendInv, SendTyped
<1>8. ASSUME NEW t \in CampaignSends PROVE ReportInv(t)'
  <2>1. ReportInv(t)  BY DEF SendInv
  <2>2. CASE t = s
    <3>1. reports'[t] = more  BY <1>6, <2>2
    <3>2. \A m, n \in DOMAIN more : m < n =>
            /\ Rank[more[m].kind] < Rank[more[n].kind] /\ more[m].second <= more[n].second
      <4> SUFFICES ASSUME NEW m \in DOMAIN more, NEW n \in DOMAIN more, m < n
                   PROVE  /\ Rank[more[m].kind] < Rank[more[n].kind]
                          /\ more[m].second <= more[n].second
        OBVIOUS
      <4>1. m \in 1..k /\ more[m] = reports[s][m]  BY <1>5
      <4>2. CASE n = k + 1
        <5>1. more[n].kind = kind /\ more[n].second = seconds  BY <1>2, <1>5, <4>2
        <5>2. Rank[reports[s][m].kind] < Rank[kind]  BY <1>3, <1>5, <4>1
        <5>3. reports[s][m].second <= seconds  BY <1>5, <2>1, <2>2, <4>1 DEF ReportInv, InOrder
        <5> QED  BY <4>1, <5>1, <5>2, <5>3
      <4>3. CASE n # k + 1
        <5>1. n \in 1..k /\ more[n] = reports[s][n]  BY <1>5, <4>3
        <5> QED  BY <1>5, <2>1, <2>2, <4>1, <5>1 DEF ReportInv, InOrder
      <4> QED  BY <4>2, <4>3
    <3>3. \A n \in DOMAIN more : more[n].second <= seconds
      <4> SUFFICES ASSUME NEW n \in DOMAIN more PROVE more[n].second <= seconds  OBVIOUS
      <4>1. CASE n = k + 1  BY <1>1, <1>2, <1>5, <4>1
      <4>2. CASE n # k + 1
        <5>1. n \in 1..k /\ more[n] = reports[s][n]  BY <1>5, <4>2
        <5> QED  BY <1>5, <2>1, <2>2, <5>1 DEF ReportInv, InOrder
      <4> QED  BY <4>1, <4>2
    <3>4. InOrder(t)'  BY <1>3, <3>1, <3>2, <3>3 DEF InOrder
    <3>5. ASSUME NEW r \in handled[t] PROVE \E n \in DOMAIN more : r = more[n]
      <4>1. PICK n \in DOMAIN reports[s] : r = reports[s][n]
        BY <2>1, <2>2 DEF ReportInv, WasReported
      <4>2. n \in DOMAIN more /\ more[n] = r  BY <1>5, <4>1
      <4> QED  BY <4>2
    <3>6. WasReported(t)'  BY <1>3, <3>1, <3>5 DEF WasReported
    <3> QED  BY <1>3, <2>1, <3>4, <3>6 DEF ReportInv
  <2>3. CASE t # s
    <3>1. reports'[t] = reports[t]  BY <1>6, <2>3
    <3> QED  BY <1>3, <2>1, <3>1 DEF ReportInv, InOrder, WasReported
  <2> QED  BY <2>2, <2>3
<1> QED  BY <1>7, <1>8 DEF SendInv

LEMMA HandlingKeeps ==
  ASSUME SendInv, NEW s \in CampaignSends, NEW n \in DOMAIN reports[s],
         HandleStatusUpdate(s, reports[s][n])
  PROVE  SendInv'
<1>1. /\ outbound \in [CampaignSends -> Outbound] /\ handled \in [CampaignSends -> SUBSET Report]
      /\ reports \in [CampaignSends -> Seq(Report)] /\ MaxSeconds \in Nat
  BY InboxAssumption DEF SendInv, SendTyped
<1>2. PICK r \in Report : r = reports[s][n]  BY <1>1
<1>3. PICK some \in SUBSET Report : some = handled[s]  BY <1>1
<1>4. PICK row \in Outbound : row = outbound[s]  BY <1>1
<1>5. ReportInv(s)  BY DEF SendInv
<1>6. /\ row.at = "known"
      /\ outbound' = IF Applies(row, r) THEN [outbound EXCEPT ![s] = Reported(row, r)] ELSE outbound
      /\ handled' = [handled EXCEPT ![s] = some \cup {r}] /\ UNCHANGED <<reports, seconds>>
  BY <1>2, <1>3, <1>4 DEF HandleStatusUpdate
<1>7. /\ handled' \in [CampaignSends -> SUBSET Report]
      /\ \A t \in CampaignSends : handled'[t] = IF t = s THEN some \cup {r} ELSE handled[t]
  BY <1>1, <1>6
<1>8. WasReported(s)'
  <2>1. \A t \in some \cup {r} : \E m \in DOMAIN reports[s] : t = reports[s][m]
    BY <1>2, <1>3, <1>5 DEF ReportInv, WasReported
  <2> QED  BY <1>6, <1>7, <2>1 DEF WasReported
<1>9. Consistent(some \cup {r})
  <2>1. \A t \in some \cup {r} : \E m \in DOMAIN reports[s] : t = reports[s][m]
    BY <1>2, <1>3, <1>5 DEF ReportInv, WasReported
  <2> QED  BY <1>1, <1>5, <2>1, ReportsAreConsistent DEF ReportInv
<1>10. Tells(row, some)  BY <1>3, <1>4, <1>5, <1>6 DEF ReportInv
<1>11. /\ Applies(row, r) => Reported(row, r) \in Outbound /\ Reported(row, r).at = row.at
       /\ Tells(IF Applies(row, r) THEN Reported(row, r) ELSE row, some \cup {r})
  BY <1>1, <1>9, <1>10, Handling
<1>12. PICK new \in Outbound : /\ new = IF Applies(row, r) THEN Reported(row, r) ELSE row
                               /\ new.at = row.at
  BY <1>11
<1>13. outbound' \in [CampaignSends -> Outbound]
       /\ \A t \in CampaignSends : outbound'[t] = IF t = s THEN new ELSE outbound[t]
  <2>1. CASE Applies(row, r)
    <3>1. outbound' = [outbound EXCEPT ![s] = new]  BY <1>6, <1>12, <2>1
    <3> QED  BY <1>1, <3>1
  <2>2. CASE ~Applies(row, r)
    <3>1. outbound' = outbound /\ new = row  BY <1>6, <1>12, <2>2
    <3> QED  BY <1>1, <1>4, <3>1
  <2> QED  BY <2>1, <2>2
<1>14. SendTyped'  BY <1>6, <1>7, <1>13 DEF SendInv, SendTyped
<1>15. ASSUME NEW t \in CampaignSends PROVE ReportInv(t)'
  <2>1. ReportInv(t)  BY DEF SendInv
  <2>2. InOrder(t)'  BY <1>6, <2>1 DEF ReportInv, InOrder
  <2>3. CASE t = s
    <3>1. outbound'[t] = new /\ handled'[t] = some \cup {r}  BY <1>7, <1>13, <2>3
    <3>2. new.at = "known" /\ Tells(new, some \cup {r})  BY <1>6, <1>11, <1>12
    <3> QED  BY <1>8, <2>2, <2>3, <3>1, <3>2 DEF ReportInv
  <2>4. CASE t # s
    <3>1. outbound'[t] = outbound[t] /\ handled'[t] = handled[t]  BY <1>7, <1>13, <2>4
    <3>2. WasReported(t)'  BY <1>6, <2>1, <3>1 DEF ReportInv, WasReported
    <3> QED  BY <2>1, <2>2, <3>1, <3>2 DEF ReportInv
  <2> QED  BY <2>3, <2>4
<1> QED  BY <1>14, <1>15 DEF SendInv

LEMMA SendSteps ==
  ASSUME SendInv, wish \in Preference, NEW s \in CampaignSends,
         \/ CreateCampaign(s) \/ CheckRecipient(s) \/ CallMeta(s) \/ RecordSent(s) \/ RecordError(s)
         \/ \E kind \in ReportKind : MetaReports(s, kind)
         \/ \E n \in DOMAIN reports[s] : HandleStatusUpdate(s, reports[s][n])
  PROVE  SendInv' /\ UNCHANGED customerVars /\ inboxLoad' = inboxLoad
<1>1. outbound \in [CampaignSends -> Outbound] /\ seconds \in 1..MaxSeconds /\ MaxSeconds \in Nat
  BY InboxAssumption DEF SendInv, SendTyped
<1>2. PICK row \in Outbound : row = outbound[s]  BY <1>1
<1>3. row.at # "known" => handled[s] = {}
  BY <1>2 DEF SendInv, ReportInv
\* The fields a row may be given.
<1>4. /\ \A at \in Stand : /\ [row EXCEPT !.at = at] \in Outbound
                           /\ [row EXCEPT !.at = at].at = at
      /\ \A at \in Stand, despite \in {"none", "stop", "start"} :
           /\ [row EXCEPT !.at = at, !.despite = despite] \in Outbound
           /\ [row EXCEPT !.at = at, !.despite = despite].at = at
      /\ \A at \in Stand, status \in Status, sent \in 0..MaxSeconds :
           /\ [row EXCEPT !.at = at, !.status = status, !.sent = sent] \in Outbound
           /\ [row EXCEPT !.at = at, !.status = status, !.sent = sent].at = at
           /\ [row EXCEPT !.at = at, !.status = status, !.sent = sent].status = status
      /\ \A at \in Stand, status \in Status, failed \in 0..MaxSeconds :
           /\ [row EXCEPT !.at = at, !.status = status, !.failed = failed] \in Outbound
           /\ [row EXCEPT !.at = at, !.status = status, !.failed = failed].at = at
  BY DEF Outbound
<1>5. /\ "called" \in Stand /\ "known" \in Stand /\ "ended" \in Stand /\ "sent" \in Status
      /\ 0 \in 0..MaxSeconds /\ seconds \in 0..MaxSeconds
  BY <1>1 DEF Stand, Status, ReportKind
<1>6. row.despite \in {"none", "stop", "start"}  BY DEF Outbound
<1>7. CASE CreateCampaign(s)
  <2>1. PICK at \in Stand : at # "known" /\ at = IF Blocked THEN "excluded" ELSE "waiting"
    BY DEF Stand
  <2>2. /\ row.at = "none" /\ outbound' = [outbound EXCEPT ![s].at = at]
        /\ UNCHANGED <<reports, handled, seconds, customerVars, inboxLoad>>
    BY <1>2, <1>7, <2>1 DEF CreateCampaign, SendStep
  <2>3. PICK new \in Outbound : new = [row EXCEPT !.at = at] /\ new.at = at  BY <1>4, Zenon
  <2>4. outbound' = [outbound EXCEPT ![s] = new]  BY <1>2, <2>2, <2>3, Zenon
  <2> QED  BY <1>3, <2>1, <2>2, <2>3, <2>4, RowSteps
<1>8. CASE CheckRecipient(s)
  <2>1. PICK at \in Stand : at # "known" /\ at = IF Blocked THEN "skipped" ELSE "created"
    BY DEF Stand
  <2>2. PICK despite \in {"none", "stop", "start"} :
          despite = IF Blocked THEN row.despite ELSE wish.value
    BY <1>6 DEF Preference
  <2>3. /\ row.at = "waiting"
        /\ outbound' = [outbound EXCEPT ![s].at = at, ![s].despite = despite]
        /\ UNCHANGED <<reports, handled, seconds, customerVars, inboxLoad>>
    BY <1>2, <1>8, <2>1, <2>2 DEF CheckRecipient, SendStep
  <2>4. PICK new \in Outbound :
          /\ new = [row EXCEPT !.at = at, !.despite = despite]
          /\ new.at = at
    BY <1>4, Zenon
  <2>5. outbound' = [outbound EXCEPT ![s] = new]  BY <1>2, <2>3, <2>4, Zenon
  <2>6. handled[s] = {} /\ new.at # "known"  BY <1>3, <2>1, <2>3, <2>4
  <2>7. SendInv'  BY <2>3, <2>5, <2>6, RowSteps
  <2> QED  BY <2>3, <2>7
<1>9. CASE CallMeta(s)
  <2>2. /\ row.at = "created" /\ outbound' = [outbound EXCEPT ![s].at = "called"]
        /\ UNCHANGED <<reports, handled, seconds, customerVars, inboxLoad>>
    BY <1>2, <1>9 DEF CallMeta, SendStep
  <2>3. PICK new \in Outbound : new = [row EXCEPT !.at = "called"] /\ new.at = "called"
    BY <1>4, <1>5, Zenon
  <2>4. outbound' = [outbound EXCEPT ![s] = new]  BY <1>2, <2>2, <2>3, Zenon
  <2> QED  BY <1>3, <2>2, <2>3, <2>4, RowSteps
<1>10. CASE RecordSent(s)
  <2>2. /\ row.at = "called"
        /\ outbound' = [outbound EXCEPT ![s].at = "known", ![s].status = "sent", ![s].sent = seconds]
        /\ UNCHANGED <<reports, handled, seconds, customerVars, inboxLoad>>
    BY <1>2, <1>10 DEF RecordSent, SendStep
  <2>3. PICK new \in Outbound :
          /\ new = [row EXCEPT !.at = "known", !.status = "sent", !.sent = seconds]
          /\ new.at = "known" /\ new.status = "sent"
    <3>1. /\ [row EXCEPT !.at = "known", !.status = "sent", !.sent = seconds] \in Outbound
          /\ [row EXCEPT !.at = "known", !.status = "sent", !.sent = seconds].at = "known"
          /\ [row EXCEPT !.at = "known", !.status = "sent", !.sent = seconds].status = "sent"
      BY <1>5 DEF Outbound
    <3> QED  BY <3>1, Zenon
  <2>4. outbound' = [outbound EXCEPT ![s] = new]  BY <1>2, <2>2, <2>3, Zenon
  <2> QED  BY <1>3, <2>2, <2>3, <2>4, RowSteps
<1>11. CASE RecordError(s)
  <2>1. PICK status \in {"failed", "queued"} :
          outbound' = [outbound EXCEPT ![s].at = "ended", ![s].status = status,
                                       ![s].failed = IF status = "failed" THEN seconds ELSE 0]
    BY <1>11 DEF RecordError
  <2>2. /\ row.at \in {"created", "called"}
        /\ UNCHANGED <<reports, handled, seconds, customerVars, inboxLoad>>
    BY <1>2, <1>11 DEF RecordError, SendStep
  <2>3. PICK failed \in 0..MaxSeconds : failed = IF status = "failed" THEN seconds ELSE 0
    BY <1>5
  <2>s. status \in Status  BY DEF Status, ReportKind
  <2>4. PICK new \in Outbound :
          /\ new = [row EXCEPT !.at = "ended", !.status = status, !.failed = failed]
          /\ new.at = "ended"
    <3>1. /\ [row EXCEPT !.at = "ended", !.status = status, !.failed = failed] \in Outbound
          /\ [row EXCEPT !.at = "ended", !.status = status, !.failed = failed].at = "ended"
      BY <1>4, <1>5, <2>s
    <3> QED  BY <3>1, Zenon
  <2>5. outbound' = [outbound EXCEPT ![s] = new]  BY <1>2, <2>1, <2>3, <2>4, Zenon
  <2> QED  BY <1>3, <2>2, <2>4, <2>5, RowSteps
<1>12. CASE \E kind \in ReportKind : MetaReports(s, kind)
  <2>1. PICK kind \in ReportKind : MetaReports(s, kind)  BY <1>12
  <2>2. SendInv'  BY <2>1, ReportKeepsOrder
  <2> QED  BY <2>1, <2>2 DEF MetaReports
<1>13. CASE \E n \in DOMAIN reports[s] : HandleStatusUpdate(s, reports[s][n])
  <2>1. PICK n \in DOMAIN reports[s] : HandleStatusUpdate(s, reports[s][n])  BY <1>13
  <2>2. SendInv'  BY <2>1, HandlingKeeps
  <2> QED  BY <2>1, <2>2 DEF HandleStatusUpdate
<1> QED  BY <1>7, <1>8, <1>9, <1>10, <1>11, <1>12, <1>13

\* What was reported decides what the row shows.
LEMMA RowsTell ==
  ASSUME SendInv
  PROVE  ReceiptsDecide
<1> SUFFICES ASSUME NEW s \in CampaignSends, outbound[s].at = "known"
             PROVE  CASE Times(s, "read") # {} -> outbound[s].status = "read"
                      [] Times(s, "read") = {} /\ Times(s, "delivered") # {} ->
                           outbound[s].status = "delivered"
                      [] OTHER ->
                           /\ outbound[s].status \in {"sent", "failed"}
                           /\ outbound[s].status = "failed" =>
                                \E f \in Times(s, "failed") :
                                  f >= outbound[s].sent /\ \A t \in Times(s, "sent") : f >= t
                           /\ outbound[s].status = "sent" =>
                                \A f \in Times(s, "failed") : f <= outbound[s].sent
  BY DEF ReceiptsDecide
<1>1. PICK some \in SUBSET Report : some = handled[s]  BY DEF SendInv, SendTyped
<1>2. PICK row \in Outbound : row = outbound[s]  BY DEF SendInv, SendTyped
<1>3. Tells(row, some) /\ InOrder(s) /\ WasReported(s)  BY <1>1, <1>2 DEF SendInv, ReportInv
<1>4. Consistent(some)
  BY <1>1, <1>3, ReportsAreConsistent DEF SendInv, SendTyped, WasReported
<1>5. \A kind : Times(s, kind) # {} <=> Has(some, kind)
  BY <1>1 DEF Times, Has
<1>6. \A kind : \A f : f \in Times(s, kind) <=> \E r \in some : r.kind = kind /\ r.second = f
  BY <1>1 DEF Times
<1>7. CASE row.status = "read"  BY <1>2, <1>3, <1>5, <1>7 DEF Tells
<1>8. CASE row.status = "delivered"  BY <1>2, <1>3, <1>5, <1>8 DEF Tells
<1>9. CASE row.status = "failed"
  <2>1. Times(s, "read") = {} /\ Times(s, "delivered") = {}  BY <1>3, <1>5, <1>9 DEF Tells
  <2>2. PICK r \in some : r.kind = "failed" /\ r.second = row.failed  BY <1>3, <1>9 DEF Tells
  <2>3. r.second \in Times(s, "failed") /\ r.second >= row.sent  BY <1>3, <1>6, <1>9, <2>2 DEF Tells
  <2>4. \A t \in Times(s, "sent") : r.second >= t
    <3> TAKE t \in Times(s, "sent")
    <3>1. PICK x \in some : x.kind = "sent" /\ x.second = t  BY <1>6
    <3>2. x.second <= r.second  BY <1>4, <2>2, <3>1 DEF Consistent
    <3>3. x.second \in Nat /\ r.second \in Nat  BY DEF Report
    <3> QED  BY <3>1, <3>2, <3>3
  <2> QED  BY <1>2, <1>9, <2>1, <2>3, <2>4
<1>10. CASE row.status = "sent"
  <2>1. Times(s, "read") = {} /\ Times(s, "delivered") = {}  BY <1>3, <1>5, <1>10 DEF Tells
  <2>2. \A f \in Times(s, "failed") : f <= row.sent  BY <1>3, <1>6, <1>10 DEF Tells
  <2> QED  BY <1>2, <1>10, <2>1, <2>2
<1> QED  BY <1>3, <1>7, <1>8, <1>9, <1>10 DEF Tells

InboxInv == CustomerInv /\ SendInv /\ inboxLoad \in InboxLoads /\ inboxFaults \in 0..MaxInboxFaults

LEMMA InboxStarts == InboxInit => InboxInv
<1> SUFFICES ASSUME InboxInit PROVE InboxInv  OBVIOUS
<1>0. /\ MaxCommands \in Nat /\ MaxContacts \in Nat /\ MaxSeconds \in Nat /\ MaxInboxFaults \in Nat
  BY InboxAssumption
<1>1. /\ contacts = <<>> /\ commands = <<>> /\ stored = {}
      /\ notice = [q \in Notice |-> [at |-> "idle", of |-> 0]]
      /\ wish = [value |-> "none", of |-> 0]
      /\ outbound = [s \in CampaignSends |-> NoSend]
      /\ reports = [s \in CampaignSends |-> <<>>]
      /\ handled = [s \in CampaignSends |-> {}]
      /\ seconds = 1 /\ inboxFaults = 0 /\ inboxLoad \in InboxLoads
  BY DEF InboxInit
<1>2. CustomerInv
  <2>1. contacts \in Seq(ContactRow) /\ Len(contacts) = 0 /\ DOMAIN contacts = 1..0
    BY <1>1
  <2>2. commands \in Seq(Meaning) /\ Len(commands) = 0 /\ DOMAIN commands = 1..0
    BY <1>1
  <2>3. wish \in Preference /\ wish.value = "none" /\ wish.of = 0
    BY <1>0, <1>1 DEF Preference
  <2>4. PICK row \in NoticeRow : row = [at |-> "idle", of |-> 0] /\ row.at = "idle"
    <3>1. [at |-> "idle", of |-> 0] \in NoticeRow /\ [at |-> "idle", of |-> 0].at = "idle"
      BY <1>0 DEF NoticeRow
    <3> QED  BY <3>1, Zenon
  <2>5. notice \in [Notice -> NoticeRow] /\ \A q \in Notice : notice[q] = row
    BY <1>1, <2>4
  <2>6. CustomerTyped
    BY <1>0, <1>1, <2>1, <2>2, <2>3, <2>5 DEF CustomerTyped
  <2>7. AllMarked(wish.value)  BY <2>1 DEF AllMarked
  <2> QED  BY <2>2, <2>3, <2>4, <2>5, <2>6, <2>7 DEF CustomerInv
<1>3. SendInv
  <2>1. NoSend \in Outbound /\ NoSend.at = "none"
    BY <1>0 DEF NoSend, Outbound, Stand, Status
  <2>2. <<>> \in Seq(Report) /\ DOMAIN << >> = {}  OBVIOUS
  <2>3. \A s \in CampaignSends : outbound[s] = NoSend /\ reports[s] = <<>> /\ handled[s] = {}
    BY <1>1
  <2>4. 1 \in 1..MaxSeconds  BY InboxAssumption
  <2>5. SendTyped  BY <1>1, <2>1, <2>2, <2>4 DEF SendTyped
  <2>6. \A s \in CampaignSends : ReportInv(s)
    BY <2>1, <2>2, <2>3 DEF ReportInv, InOrder, WasReported
  <2> QED  BY <2>5, <2>6 DEF SendInv
<1> QED  BY <1>0, <1>1, <1>2, <1>3 DEF InboxInv

LEMMA InboxGoesOn == InboxInv /\ [InboxNext]_inboxVars => InboxInv'
<1> SUFFICES ASSUME InboxInv, [InboxNext]_inboxVars PROVE InboxInv'  OBVIOUS
<1>0. /\ CustomerInv /\ SendInv /\ inboxLoad \in InboxLoads
      /\ inboxFaults \in 0..MaxInboxFaults /\ MaxInboxFaults \in Nat /\ MaxSeconds \in Nat
  BY InboxAssumption DEF InboxInv
<1>1. wish \in Preference  BY <1>0 DEF CustomerInv, CustomerTyped
<1>2. UNCHANGED customerVars => CustomerInv'
  <2> SUFFICES ASSUME UNCHANGED customerVars PROVE CustomerInv'  OBVIOUS
  <2> QED  BY <1>0 DEF customerVars, CustomerInv, CustomerTyped, AllKept, AllMarked
<1>3. UNCHANGED sendVars => SendInv'
  <2> SUFFICES ASSUME UNCHANGED sendVars PROVE SendInv'  OBVIOUS
  <2> QED  BY <1>0 DEF sendVars, SendInv, SendTyped, ReportInv, InOrder, WasReported
<1>4. CASE \/ AddContact \/ DeleteContact
           \/ \E value \in {"stop", "start"} : UpdateContact(value)
           \/ \E meaning \in Meaning : Write(meaning)
           \/ \E q \in Notice : \/ \E m \in DOMAIN commands : Receive(q, m)
                                \/ FindOrCreate(q) \/ StoreMessage(q) \/ ApplyPreference(q)
                                \/ BreakNotice(q)
  <2>1. CustomerInv'  BY <1>0, <1>4, CustomerStep
  <2>2. UNCHANGED <<sendVars, inboxLoad>> /\ inboxFaults' \in 0..MaxInboxFaults
    BY <1>0, <1>4 DEF AddContact, DeleteContact, UpdateContact, Write, Receive, FindOrCreate,
                      StoreMessage, ApplyPreference, BreakNotice
  <2> QED  BY <1>0, <1>3, <2>1, <2>2 DEF InboxInv
<1>5. CASE NextSecond
  <2>1. SendInv'
    <3>1. /\ seconds \in 1..MaxSeconds /\ seconds' = seconds + 1 /\ seconds' \in 1..MaxSeconds
          /\ UNCHANGED <<outbound, reports, handled>>
      BY <1>0, <1>5 DEF NextSecond, SendInv, SendTyped
    <3>2. SendTyped'  BY <1>0, <3>1 DEF SendInv, SendTyped
    <3>3. ASSUME NEW s \in CampaignSends PROVE ReportInv(s)'
      <4>1. ReportInv(s) /\ reports[s] \in Seq(Report)  BY <1>0 DEF SendInv, SendTyped
      <4>2. \A n \in DOMAIN reports[s] : reports[s][n].second \in Nat /\ reports[s][n].second <= seconds
        <5> TAKE n \in DOMAIN reports[s]
        <5>1. reports[s][n] \in Report  BY <4>1
        <5> QED  BY <4>1, <5>1 DEF ReportInv, InOrder, Report
      <4>3. \A n \in DOMAIN reports[s] : reports[s][n].second <= seconds'
        BY <3>1, <4>2
      <4>4. InOrder(s)'  BY <3>1, <4>1, <4>3 DEF ReportInv, InOrder
      <4> QED  BY <3>1, <4>1, <4>4 DEF ReportInv, WasReported
    <3> QED  BY <3>2, <3>3 DEF SendInv
  <2>2. UNCHANGED <<customerVars, inboxFaults, inboxLoad>>  BY <1>5 DEF NextSecond
  <2> QED  BY <1>0, <1>2, <2>1, <2>2 DEF InboxInv
<1>6. CASE \E s \in CampaignSends :
             \/ CreateCampaign(s) \/ CheckRecipient(s) \/ CallMeta(s) \/ RecordSent(s)
             \/ RecordError(s) \/ \E kind \in ReportKind : MetaReports(s, kind)
             \/ \E n \in DOMAIN reports[s] : HandleStatusUpdate(s, reports[s][n])
  <2>1. SendInv' /\ UNCHANGED customerVars /\ inboxLoad' = inboxLoad
    BY <1>0, <1>1, <1>6, SendSteps
  <2>2. inboxFaults' \in 0..MaxInboxFaults
    <3>1. \/ inboxFaults' = inboxFaults
          \/ inboxFaults < MaxInboxFaults /\ inboxFaults' = inboxFaults + 1
      BY <1>6, Zenon DEF CreateCampaign, CheckRecipient, CallMeta, RecordSent, RecordError,
                         MetaReports, HandleStatusUpdate
    <3> QED  BY <1>0, <3>1
  <2> QED  BY <1>0, <1>2, <2>1, <2>2 DEF InboxInv
<1>7. CASE UNCHANGED inboxVars
  <2>1. UNCHANGED <<customerVars, sendVars, inboxFaults, inboxLoad>>  BY <1>7 DEF inboxVars
  <2> QED  BY <1>0, <1>2, <1>3, <2>1 DEF InboxInv
<1> QED  BY <1>4, <1>5, <1>6, <1>7 DEF InboxNext, Meaning

LEMMA InboxInvariance == InboxSpec => []InboxInv
BY InboxStarts, InboxGoesOn, PTL DEF InboxSpec

\* An older message that arrives again does not undo a younger preference: while nobody
\* deletes a contact, campaigns are blocked exactly when the last preference says stop.
THEOREM LastWord == InboxSpec => []LastWordHolds
<1>1. InboxInv => LastWordHolds  BY CustomerIsHeard DEF InboxInv
<1> QED  BY <1>1, InboxInvariance, PTL

\* Reports late, repeated and out of order leave a row that tells what was reported.
THEOREM ReceiptsAreRight == InboxSpec => []ReceiptsDecide
<1>1. InboxInv => ReceiptsDecide  BY RowsTell DEF InboxInv
<1> QED  BY <1>1, InboxInvariance, PTL

\* The variables of the inbox keep their types.
THEOREM InboxTypeCorrect == InboxSpec => []InboxTypeOK
<1>1. InboxInv => InboxTypeOK
  BY DEF InboxInv, CustomerInv, CustomerTyped, SendInv, SendTyped, InboxTypeOK, ContactRow,
         Meaning, NoticeRow, Preference, Outbound, Stand, Status
<1> QED  BY <1>1, InboxInvariance, PTL

-----------------------------------------------------------------------------
(***************************************************************************)
(* The chatbot.                                                            *)
(***************************************************************************)
Session == [open : BOOLEAN, node : FlowNode \cup {NoNode}, token : 0..MaxPauses]
Stage == {"absent", "restart", "find", "clear", "create", "choose", "advance", "walk", "queue",
          "answer", "silence", "queued", "resume", "done"}
Turn == [at : Stage, chat : Chat \cup {NoChat}, node : FlowNode \cup {NoNode},
         token : 0..MaxPauses]
Pause == [chat : Chat \cup {NoChat}, node : FlowNode \cup {NoNode}]

\* An open conversation stands somewhere in the flow, and who moves it knows where.  Who
\* queues a delay has a token of his own; its job exists once the data is saved.
Standing ==
  /\ \A c \in Chat : chat[c].open => chat[c].node \in FlowNode
  /\ \A a \in Actor :
       /\ actor[a].at \in {"choose", "advance", "walk", "queue", "resume"} => Held(a) \in Chat
       /\ actor[a].at \in {"choose", "walk", "queue"} => actor[a].node \in FlowNode
       /\ actor[a].at \in {"queued", "resume"} => a \in Token
       /\ actor[a].at = "queue" =>
            /\ actor[a].token \in 1..pauses /\ actor[actor[a].token].at = "absent"
            /\ \A b \in Actor : actor[b].at = "queue" /\ actor[b].token = actor[a].token => a = b
  /\ \A p \in Token : actor[p].at # "absent" =>
       p <= pauses /\ pauseOf[p].chat \in Chat /\ pauseOf[p].node \in FlowNode

TalkInv == ChatbotTypeOK /\ Standing

\* A token belongs to one conversation, and whoever else starts over there with it does
\* not write it.  After the flow went on no conversation has the token.
TokenInv(opening) ==
  /\ \A c \in Chat : chat[c].token <= pauses
  /\ \A a \in Actor :
       /\ actor[a].at \in {"choose", "advance"} => actor[a].token = 0
       /\ actor[a].at = "walk" => actor[a].token = 0 \/ actor[a].node \in opening
       /\ actor[a].at = "queue" => \A c \in Chat : chat[c].token = actor[a].token => c = Held(a)
  /\ \A p \in Token :
       /\ actor[p].at # "absent" => \A c \in Chat : chat[c].token = p => c = pauseOf[p].chat
       /\ actor[p].at = "resume" =>
            actor[p].token = p /\ Held(p) = pauseOf[p].chat /\ resumed[p] = 0
       /\ resumed[p] \in {0, 1}
       /\ resumed[p] = 1 => actor[p].at # "absent" /\ \A c \in Chat : chat[c].token # p

\* Of some positions one is the last.
LEMMA LastPosition ==
  ASSUME NEW S, IsFiniteSet(S), S # {}, \A x \in S : x \in Int
  PROVE  \E n \in S : \A m \in S : m <= n
<1> DEFINE above == [x \in S |-> {y \in S : x < y}]
<1>1. above \in [S -> SUBSET S]
  OBVIOUS
<1>2. \A x \in S : \A y \in above[x] : above[y] \subseteq above[x] /\ y \notin above[y]
  OBVIOUS
<1>3. \A x, y \in S : y \notin above[x] => y <= x
  OBVIOUS
<1> HIDE DEF above
<1>4. PICK x \in S : above[x] = {}
  BY <1>1, <1>2, TopMember
<1> QED  BY <1>3, <1>4

LEMMA LatestIsOpen ==
  ASSUME ChatbotTypeOK
  PROVE  LatestChat = NoChat \/ (LatestChat \in Chat /\ chat[LatestChat].open)
<1> DEFINE open == {n \in DOMAIN byUpdate : chat[byUpdate[n]].open}
           last == CHOOSE n \in open : \A m \in open : m <= n
<1>1. DOMAIN byUpdate = 1..Len(byUpdate) /\ Len(byUpdate) \in Nat
      /\ \A n \in DOMAIN byUpdate : byUpdate[n] \in Chat
  BY DEF ChatbotTypeOK
<1>2. CASE open = {}
  BY <1>2 DEF LatestChat
<1>3. CASE open # {}
  <2>1. \E n \in open : \A m \in open : m <= n
    <3>1. IsFiniteSet(1..Len(byUpdate))  BY <1>1, FS_Interval
    <3>2. IsFiniteSet(open)  BY <1>1, <3>1, FS_Subset
    <3>3. \A x \in open : x \in Int  BY <1>1
    <3> HIDE DEF open
    <3> QED  BY <1>3, <3>2, <3>3, LastPosition
  <2>2. last \in open
    BY <2>1
  <2>3. LatestChat = byUpdate[last]
    BY <1>3 DEF LatestChat
  <2> QED  BY <1>1, <2>2, <2>3
<1> QED  BY <1>2, <1>3

LEMMA TouchIsTyped ==
  ASSUME ChatbotTypeOK, NEW c \in Chat, Touch(c)
  PROVE  byUpdate' \in Seq(Chat)
<1>1. /\ byUpdate \in Seq(Chat) /\ DOMAIN byUpdate = 1..Len(byUpdate) /\ Len(byUpdate) \in Nat
      /\ \A n \in 1..Len(byUpdate) : byUpdate[n] \in Chat
  BY DEF ChatbotTypeOK
<1>2. byUpdate' \in [1..Len(byUpdate) -> Chat]
  BY <1>1 DEF Touch
<1> QED  BY <1>1, <1>2

\* What most updates of conversations have in common: whoever is open stands in the flow,
\* and no token is written that was not there, except that of a new pause.
Calm(opening) ==
  /\ chat' \in [Chat -> Session]
  /\ \A c \in Chat : /\ chat'[c].open => chat'[c].node \in FlowNode
                     /\ Opens(opening) => chat'[c].token \in {0, chat[c].token}

Succeeds(opening, t, s) ==
  /\ t \in Session /\ (t.open => t.node \in FlowNode)
  /\ Opens(opening) => t.token \in {0, s.token}

LEMMA SessionUpdates ==
  ASSUME NEW s \in Session, s.open => s.node \in FlowNode, NEW n \in FlowNode,
         NEW k \in 0..MaxPauses, NEW opening, Opens(opening) => k = 0
  PROVE  /\ Succeeds(opening, [s EXCEPT !.node = n], s)
         /\ Succeeds(opening, [s EXCEPT !.node = n, !.token = k], s)
         /\ Succeeds(opening, [s EXCEPT !.token = k], s)
         /\ Succeeds(opening, [s EXCEPT !.open = FALSE], s)
         /\ Succeeds(opening, [s EXCEPT !.open = FALSE, !.node = NoNode], s)
<1>2. /\ [s EXCEPT !.node = n] \in Session
      /\ [s EXCEPT !.node = n].node = n /\ [s EXCEPT !.node = n].token = s.token
  BY Zenon DEF Session
<1>3. /\ [s EXCEPT !.node = n, !.token = k] \in Session
      /\ [s EXCEPT !.node = n, !.token = k].node = n
      /\ [s EXCEPT !.node = n, !.token = k].token = k
  BY Zenon DEF Session
<1>4. /\ [s EXCEPT !.token = k] \in Session
      /\ [s EXCEPT !.token = k].token = k /\ [s EXCEPT !.token = k].node = s.node
      /\ [s EXCEPT !.token = k].open = s.open
  BY Zenon DEF Session
<1>5. /\ [s EXCEPT !.open = FALSE] \in Session
      /\ ~[s EXCEPT !.open = FALSE].open /\ [s EXCEPT !.open = FALSE].token = s.token
  BY Zenon DEF Session
<1>6. /\ [s EXCEPT !.open = FALSE, !.node = NoNode] \in Session
      /\ ~[s EXCEPT !.open = FALSE, !.node = NoNode].open
      /\ [s EXCEPT !.open = FALSE, !.node = NoNode].token = s.token
  BY Zenon DEF Session
<1>7. Succeeds(opening, [s EXCEPT !.node = n], s)  BY <1>2, Zenon DEF Succeeds
<1>8. Succeeds(opening, [s EXCEPT !.node = n, !.token = k], s)  BY <1>3, Zenon DEF Succeeds
<1>9. Succeeds(opening, [s EXCEPT !.token = k], s)  BY <1>4, Zenon DEF Succeeds
<1>10. Succeeds(opening, [s EXCEPT !.open = FALSE], s)  BY <1>5, Zenon DEF Succeeds
<1>11. Succeeds(opening, [s EXCEPT !.open = FALSE, !.node = NoNode], s)  BY <1>6, Zenon DEF Succeeds
<1> QED  BY <1>7, <1>8, <1>9, <1>10, <1>11

LEMMA CalmUpdates ==
  ASSUME TalkInv, NEW c \in Chat, NEW n \in FlowNode, NEW opening,
         NEW k \in 0..MaxPauses, Opens(opening) => k = 0
  PROVE  /\ MoveChat(c, n) => Calm(opening)
         /\ MoveWithVariables(c, n, k) => Calm(opening)
         /\ EndChat(c) => Calm(opening)
         /\ EndEveryChat => Calm(opening)
         /\ UNCHANGED chat => Calm(opening)
         /\ chat' = [chat EXCEPT ![c].token = k] => Calm(opening)
         /\ chat' = [chat EXCEPT ![c].open = FALSE] => Calm(opening)
         /\ chat' = [chat EXCEPT ![c] = [open |-> TRUE, node |-> StartNode, token |-> 0]] => Calm(opening)
<1>1. /\ chat \in [Chat -> Session] /\ 0 \in 0..MaxPauses
      /\ \A d \in Chat : chat[d].open => chat[d].node \in FlowNode
      /\ StartNode \in FlowNode
  BY ChatbotAssumption DEF TalkInv, Standing, ChatbotTypeOK, Session
<1>a. ASSUME NEW s, chat' = [chat EXCEPT ![c] = s],
             Succeeds(opening, s, chat[c])
      PROVE  Calm(opening)
  BY <1>1, <1>a DEF Calm, Succeeds
<1>2. /\ MoveChat(c, n) => Calm(opening)
      /\ MoveWithVariables(c, n, k) => Calm(opening)
      /\ EndChat(c) => Calm(opening)
  <2>1. ASSUME MoveChat(c, n) PROVE Calm(opening)
    <3> DEFINE s == [chat[c] EXCEPT !.node = n]
    <3>1. Succeeds(opening, s, chat[c])  BY <1>1, SessionUpdates, Zenon
    <3>2. chat' = [chat EXCEPT ![c] = s]  BY <2>1 DEF MoveChat
    <3> HIDE DEF s
    <3> QED  BY <1>a, <3>1, <3>2
  <2>2. ASSUME MoveWithVariables(c, n, k) PROVE Calm(opening)
    <3> DEFINE s == [chat[c] EXCEPT !.node = n, !.token = k]
    <3>1. Succeeds(opening, s, chat[c])  BY <1>1, SessionUpdates, Zenon
    <3>2. chat' = [chat EXCEPT ![c] = s]  BY <1>1, <2>2 DEF MoveWithVariables
    <3> HIDE DEF s
    <3> QED  BY <1>a, <3>1, <3>2
  <2>3. ASSUME EndChat(c) PROVE Calm(opening)
    <3> DEFINE s == [chat[c] EXCEPT !.open = FALSE, !.node = NoNode]
    <3>1. Succeeds(opening, s, chat[c])  BY <1>1, SessionUpdates, Zenon
    <3>2. chat' = [chat EXCEPT ![c] = s]  BY <1>1, <2>3 DEF EndChat
    <3> HIDE DEF s
    <3> QED  BY <1>a, <3>1, <3>2
  <2> QED  BY <2>1, <2>2, <2>3
<1>3. EndEveryChat => Calm(opening)
  <2> SUFFICES ASSUME EndEveryChat PROVE Calm(opening)  OBVIOUS
  <2>1. ASSUME NEW d \in Chat
        PROVE  /\ chat'[d] \in Session /\ chat'[d].token = chat[d].token
               /\ chat'[d].open => chat'[d].node \in FlowNode
    BY <1>1, <2>1 DEF EndEveryChat, Session
  <2>2. chat' = [d \in Chat |-> chat'[d]]
    BY DEF EndEveryChat
  <2> QED  BY <2>1, <2>2 DEF Calm
<1>4. /\ UNCHANGED chat => Calm(opening)
      /\ chat' = [chat EXCEPT ![c].token = k] => Calm(opening)
      /\ chat' = [chat EXCEPT ![c].open = FALSE] => Calm(opening)
      /\ chat' = [chat EXCEPT ![c] = [open |-> TRUE, node |-> StartNode, token |-> 0]] => Calm(opening)
  <2>1. UNCHANGED chat => Calm(opening)  BY <1>1 DEF Calm
  <2>2. ASSUME chat' = [chat EXCEPT ![c].token = k] PROVE Calm(opening)
    <3> DEFINE s == [chat[c] EXCEPT !.token = k]
    <3>1. Succeeds(opening, s, chat[c])  BY <1>1, SessionUpdates, Zenon
    <3>2. chat' = [chat EXCEPT ![c] = s]  BY <2>2
    <3> HIDE DEF s
    <3> QED  BY <1>a, <3>1, <3>2
  <2>3. ASSUME chat' = [chat EXCEPT ![c].open = FALSE] PROVE Calm(opening)
    <3> DEFINE s == [chat[c] EXCEPT !.open = FALSE]
    <3>1. Succeeds(opening, s, chat[c])  BY <1>1, SessionUpdates, Zenon
    <3>2. chat' = [chat EXCEPT ![c] = s]  BY <2>3
    <3> HIDE DEF s
    <3> QED  BY <1>a, <3>1, <3>2
  <2>4. Succeeds(opening, [open |-> TRUE, node |-> StartNode, token |-> 0], chat[c])
    BY <1>1 DEF Session, Succeeds
  <2> QED  BY <1>a, <2>1, <2>2, <2>3, <2>4
<1> QED  BY <1>2, <1>3, <1>4

LEMMA CalmIfUnchanged == ASSUME TalkInv, UNCHANGED chat, NEW opening PROVE Calm(opening)
BY DEF Calm, TalkInv, Standing, ChatbotTypeOK, Session

LEMMA EndingIsCalm == ASSUME TalkInv, EndEveryChat, NEW opening PROVE Calm(opening)
<1>1. CASE Chat = {}  BY <1>1 DEF Calm, EndEveryChat
<1>2. ASSUME NEW c \in Chat PROVE Calm(opening)
  <2>1. 0 \in 0..MaxPauses /\ StartNode \in FlowNode  BY ChatbotAssumption
  <2> QED  BY <2>1, CalmUpdates
<1> QED  BY <1>1, <1>2

LEMMA ClosingIsCalm ==
  ASSUME TalkInv, NEW c \in Chat, NEW opening
  PROVE  /\ chat' = [chat EXCEPT ![c].open = FALSE] => Calm(opening)
         /\ EndChat(c) => Calm(opening)
<1>1. 0 \in 0..MaxPauses /\ StartNode \in FlowNode  BY ChatbotAssumption
<1> QED  BY <1>1, CalmUpdates

LEMMA OpeningIsCalm ==
  ASSUME TalkInv, NEW c \in Chat, NEW opening,
         chat' = [chat EXCEPT ![c] = [open |-> TRUE, node |-> StartNode, token |-> 0]]
  PROVE  Calm(opening)
<1>1. 0 \in 0..MaxPauses /\ StartNode \in FlowNode  BY ChatbotAssumption
<1> QED  BY <1>1, CalmUpdates

\* What a message handler or a delay job may become, unless it queues a pause.
Fits(opening, a, r) ==
  /\ r \in Turn /\ r.at \notin {"absent", "queue"}
  /\ a \in Token => actor[a].at # "absent"
  /\ r.at \in {"choose", "advance", "walk", "resume"} => r.chat \in Chat
  /\ r.at \in {"choose", "walk"} => r.node \in FlowNode
  /\ r.at \in {"queued", "resume"} => a \in Token
  /\ Opens(opening) =>
       /\ r.at \in {"choose", "advance"} => r.token = 0
       /\ r.at = "walk" => r.token = 0 \/ r.node \in opening
       /\ r.at = "resume" => r.token = a /\ r.chat = pauseOf[a].chat /\ resumed[a] = 0

\* Only a job that goes on is counted, when it took its token out of the conversation.
Counts(a) ==
  \A p \in Token :
    resumed'[p] # resumed[p] =>
      /\ p = a /\ resumed'[p] = 1 /\ actor'[p].at # "resume"
      /\ \A c \in Chat : chat'[c].token # p

Turns(opening, a) ==
  /\ Calm(opening) /\ UNCHANGED <<pauses, pauseOf>> /\ (Opens(opening) => Counts(a))
  /\ \E r \in Turn : Fits(opening, a, r) /\ actor' = [actor EXCEPT ![a] = r]

LEMMA TurnsKeepTokens ==
  ASSUME NEW opening \in SUBSET FlowNode, TalkInv, NEW a \in Actor, Turns(opening, a)
  PROVE  /\ actor' \in [Actor -> Turn] /\ Standing'
         /\ Opens(opening) /\ TokenInv(opening) => TokenInv(opening)'
<1>1. PICK r \in Turn : Fits(opening, a, r) /\ actor' = [actor EXCEPT ![a] = r]
  BY DEF Turns
<1>2. /\ actor \in [Actor -> Turn] /\ \A p \in Token : p \in Actor
      /\ pauses \in Nat /\ \A c \in Chat : chat[c].token \in Nat
  BY ChatbotAssumption DEF TalkInv, ChatbotTypeOK, Turn, Stage, Actor, Session, Token
<1>3. /\ actor'[a] = r /\ \A b \in Actor : b # a => actor'[b] = actor[b]
      /\ actor' \in [Actor -> Turn]
  BY <1>1, <1>2
<1>4. /\ \A c \in Chat : /\ chat'[c].open => chat'[c].node \in FlowNode
                         /\ Opens(opening) => chat'[c].token \in {0, chat[c].token}
      /\ pauses' = pauses /\ pauseOf' = pauseOf
  BY DEF Turns, Calm
<1>5. Standing'
  <2>1. \A c \in Chat : chat'[c].open => chat'[c].node \in FlowNode
    BY <1>4
  <2>2. ASSUME NEW b \in Actor
        PROVE  /\ actor'[b].at \in {"choose", "advance", "walk", "queue", "resume"}
                    => actor'[b].chat \in Chat
               /\ actor'[b].at \in {"choose", "walk", "queue"} => actor'[b].node \in FlowNode
               /\ actor'[b].at \in {"queued", "resume"} => b \in Token
    BY <1>1, <1>3, <2>2 DEF Fits, TalkInv, Standing, Held
  <2>3. ASSUME NEW p \in Token, actor'[p].at # "absent"
        PROVE  p <= pauses' /\ pauseOf'[p].chat \in Chat /\ pauseOf'[p].node \in FlowNode
    BY <1>1, <1>2, <1>3, <1>4, <2>3 DEF Fits, TalkInv, Standing
  <2>4. ASSUME NEW b \in Actor, actor'[b].at = "queue"
        PROVE  /\ actor'[b].token \in 1..pauses'
               /\ actor'[actor'[b].token].at = "absent"
               /\ \A d \in Actor : actor'[d].at = "queue" /\ actor'[d].token = actor'[b].token
                                     => b = d
    <3>1. b # a /\ actor'[b] = actor[b]
      BY <1>1, <1>3, <2>4 DEF Fits
    <3>2. /\ actor[b].token \in 1..pauses
          /\ actor[actor[b].token].at = "absent"
          /\ \A d \in Actor : actor[d].at = "queue" /\ actor[d].token = actor[b].token => b = d
      BY <2>4, <3>1 DEF TalkInv, Standing
    <3>3. actor[b].token \in Token
      BY <1>2, <3>2 DEF Token, TalkInv, ChatbotTypeOK
    <3>4. actor[b].token # a
      BY <1>1, <3>2, <3>3 DEF Fits
    <3>5. actor'[actor[b].token] = actor[actor[b].token]
      BY <1>2, <1>3, <3>3, <3>4
    <3>6. \A d \in Actor : actor'[d].at = "queue" => actor'[d] = actor[d]
      BY <1>1, <1>3 DEF Fits
    <3> QED  BY <1>4, <3>1, <3>2, <3>5, <3>6
  <2> QED  BY <2>1, <2>2, <2>3, <2>4 DEF Standing, Held
<1>6. ASSUME Opens(opening), TokenInv(opening) PROVE TokenInv(opening)'
  <2>1. \A c \in Chat : chat'[c].token <= pauses'
    BY <1>6, <1>2, <1>4 DEF TokenInv
  <2>2. ASSUME NEW b \in Actor
        PROVE  /\ actor'[b].at \in {"choose", "advance"} => actor'[b].token = 0
               /\ actor'[b].at = "walk" => actor'[b].token = 0 \/ actor'[b].node \in opening
    BY <1>6, <1>1, <1>3, <2>2 DEF Fits, TokenInv
  <2>3. ASSUME NEW b \in Actor, actor'[b].at = "queue"
        PROVE  \A c \in Chat : chat'[c].token = actor'[b].token => c = actor'[b].chat
    <3>1. b # a /\ actor'[b] = actor[b]
      BY <1>6, <1>1, <1>3, <2>3 DEF Fits
    <3>2. \A c \in Chat : chat[c].token = actor[b].token => c = Held(b)
      BY <2>3, <3>1, <1>6 DEF TokenInv
    <3>3. actor[b].token \in 1..pauses
      BY <2>3, <3>1 DEF TalkInv, Standing
    <3>4. \A c \in Chat : chat'[c].token = actor[b].token => chat[c].token = actor[b].token
      BY <1>2, <1>4, <1>6, <3>3
    <3> QED  BY <3>1, <3>2, <3>4 DEF Held
  <2>4. ASSUME NEW p \in Token
        PROVE  /\ actor'[p].at # "absent" => \A c \in Chat : chat'[c].token = p => c = pauseOf'[p].chat
               /\ actor'[p].at = "resume" =>
                    actor'[p].token = p /\ actor'[p].chat = pauseOf'[p].chat /\ resumed'[p] = 0
               /\ resumed'[p] \in {0, 1}
               /\ resumed'[p] = 1 => actor'[p].at # "absent" /\ \A c \in Chat : chat'[c].token # p
    <3>1. actor'[p].at # "absent" <=> actor[p].at # "absent"
      BY <1>6, <1>1, <1>2, <1>3, <2>4 DEF Fits
    <3>2. \A c \in Chat : chat'[c].token = p => chat[c].token = p
      BY <1>6, <1>4, <2>4 DEF Token
    <3>3. resumed'[p] # resumed[p] =>
            /\ p = a /\ resumed'[p] = 1 /\ actor'[p].at # "resume"
            /\ \A c \in Chat : chat'[c].token # p
      BY <1>6, <2>4 DEF Turns, Counts
    <3>4. actor'[a].at # "absent"  BY <1>6, <1>1, <1>3 DEF Fits
    <3> QED  BY <1>6, <1>1, <1>2, <1>3, <1>4, <2>4, <3>1, <3>2, <3>3, <3>4 DEF Fits, TokenInv, Held
  <2> QED  BY <2>1, <2>2, <2>3, <2>4 DEF TokenInv, Held
<1> QED  BY <1>3, <1>5, <1>6

\* A new pause: its token is in no other conversation, and nobody else holds it.
LEMMA PauseKeepsTokens ==
  ASSUME NEW opening \in SUBSET FlowNode, TalkInv, NEW a \in Actor, PauseChat(a)
  PROVE  /\ actor' \in [Actor -> Turn] /\ chat' \in [Chat -> Session] /\ Standing'
         /\ TokenInv(opening) => TokenInv(opening)'
<1> DEFINE t == pauses + 1
<1>1. /\ actor \in [Actor -> Turn] /\ chat \in [Chat -> Session] /\ \A p \in Token : p \in Actor
      /\ pauses \in Nat /\ \A c \in Chat : chat[c].token \in Nat
      /\ pauseOf' = pauseOf /\ resumed' = resumed /\ pauses' = t
  BY ChatbotAssumption DEF TalkInv, ChatbotTypeOK, Turn, Stage, Actor, Session, Token, PauseChat
<1>2. t \in Token /\ t \in 0..MaxPauses /\ t \in 1..t /\ t \in Nat
  BY <1>1, ChatbotAssumption DEF PauseChat, Token
<1>3. actor[a].at = "walk" /\ Held(a) \in Chat /\ actor[a].node \in FlowNode
  BY DEF PauseChat, Here, Stands, TalkInv, Standing
<1>4. /\ actor' = [actor EXCEPT ![a] = [actor[a] EXCEPT !.at = "queue", !.token = t]]
      /\ chat' = [chat EXCEPT ![Held(a)] = [chat[Held(a)] EXCEPT !.node = actor[a].node, !.token = t]]
  BY <1>1, <1>3 DEF PauseChat, MoveWithVariables
<1>5. PICK q \in Turn : q = actor[a]  BY <1>1
<1>6. PICK s \in Session : s = chat[Held(a)]  BY <1>1, <1>3
<1> HIDE DEF t
<1>7. PICK r \in Turn : r = [q EXCEPT !.at = "queue", !.token = t] /\ r.at = "queue" /\ r.token = t
                        /\ r.chat = q.chat /\ r.node = q.node
  <2>1. /\ [q EXCEPT !.at = "queue", !.token = t] \in Turn
        /\ [q EXCEPT !.at = "queue", !.token = t].at = "queue"
        /\ [q EXCEPT !.at = "queue", !.token = t].token = t
        /\ [q EXCEPT !.at = "queue", !.token = t].chat = q.chat
        /\ [q EXCEPT !.at = "queue", !.token = t].node = q.node
    BY <1>2 DEF Turn, Stage
  <2> QED  BY <2>1
<1>8. PICK u \in Session : u = [s EXCEPT !.node = actor[a].node, !.token = t]
                           /\ u.token = t /\ u.node = actor[a].node /\ u.open = s.open
  <2>1. PICK n \in FlowNode : n = actor[a].node  BY <1>3
  <2>2. /\ [s EXCEPT !.node = n, !.token = t] \in Session
        /\ [s EXCEPT !.node = n, !.token = t].token = t
        /\ [s EXCEPT !.node = n, !.token = t].node = n
        /\ [s EXCEPT !.node = n, !.token = t].open = s.open
    BY <1>2, Zenon DEF Session
  <2> QED  BY <2>1, <2>2, Zenon
<1>9. actor' = [actor EXCEPT ![a] = r] /\ chat' = [chat EXCEPT ![Held(a)] = u]
  BY <1>4, <1>5, <1>6, <1>7, <1>8, Zenon
<1>10. /\ actor'[a] = r /\ \A b \in Actor : b # a => actor'[b] = actor[b]
       /\ actor' \in [Actor -> Turn]
  BY <1>1, <1>9
<1>11. /\ chat'[Held(a)] = u /\ \A c \in Chat : c # Held(a) => chat'[c] = chat[c]
       /\ chat' \in [Chat -> Session]
  BY <1>1, <1>3, <1>9
<1>12. r.chat = Held(a) /\ r.node \in FlowNode
  BY <1>3, <1>5, <1>7 DEF Held
\* The token is new.
<1>13. /\ actor[t].at = "absent" /\ t # a
       /\ TokenInv(opening) => resumed[t] = 0 /\ \A c \in Chat : chat[c].token # t
       /\ \A b \in Actor : actor[b].at = "queue" => actor[b].token # t
  <2>1. ~(t <= pauses)  BY <1>1 DEF t
  <2>2. actor[t].at = "absent" /\ t # a
    BY <1>2, <1>3, <2>1 DEF TalkInv, Standing
  <2>3. TokenInv(opening) => \A c \in Chat : chat[c].token # t  BY <2>1 DEF TokenInv
  <2>4. TokenInv(opening) => resumed[t] = 0  BY <1>2, <2>2 DEF TokenInv
  <2>5. \A b \in Actor : actor[b].at = "queue" => actor[b].token # t
    BY <1>1, <2>1 DEF TalkInv, Standing
  <2> QED  BY <2>2, <2>3, <2>4, <2>5
<1>14. Standing'
  <2>1. \A c \in Chat : chat'[c].open => chat'[c].node \in FlowNode
    <3>1. \A c \in Chat : chat[c].open => chat[c].node \in FlowNode
      BY DEF TalkInv, Standing
    <3>2. chat'[Held(a)].node \in FlowNode  BY <1>3, <1>8, <1>11
    <3> QED  BY <1>11, <3>1, <3>2
  <2>2. ASSUME NEW b \in Actor
        PROVE  /\ actor'[b].at \in {"choose", "advance", "walk", "queue", "resume"}
                    => actor'[b].chat \in Chat
               /\ actor'[b].at \in {"choose", "walk", "queue"} => actor'[b].node \in FlowNode
               /\ actor'[b].at \in {"queued", "resume"} => b \in Token
    BY <1>3, <1>7, <1>10, <1>12, <2>2 DEF TalkInv, Standing, Held
  <2>3. ASSUME NEW p \in Token, actor'[p].at # "absent"
        PROVE  p <= pauses' /\ pauseOf'[p].chat \in Chat /\ pauseOf'[p].node \in FlowNode
    <3>1. actor[p].at # "absent"  BY <1>1, <1>3, <1>10, <2>3
    <3>2. p <= pauses /\ pauseOf[p].chat \in Chat /\ pauseOf[p].node \in FlowNode
      BY <2>3, <3>1 DEF TalkInv, Standing
    <3> QED  BY <1>1, <2>3, <3>2 DEF t, Token
  <2>4. ASSUME NEW b \in Actor, actor'[b].at = "queue"
        PROVE  /\ actor'[b].token \in 1..pauses'
               /\ actor'[actor'[b].token].at = "absent"
               /\ \A d \in Actor : actor'[d].at = "queue" /\ actor'[d].token = actor'[b].token
                                     => b = d
    <3>1. CASE b = a
      <4>1. actor'[b].token = t  BY <1>7, <1>10, <3>1
      <4>2. actor'[t].at = "absent"  BY <1>1, <1>2, <1>10, <1>13
      <4>3. \A d \in Actor : actor'[d].at = "queue" /\ actor'[d].token = t => b = d
        BY <1>10, <1>13, <3>1
      <4> QED  BY <1>1, <1>2, <4>1, <4>2, <4>3
    <3>2. CASE b # a
      <4>0. actor'[b] = actor[b]  BY <1>10, <3>2
      <4>1. /\ actor[b].token \in 1..pauses
            /\ actor[actor[b].token].at = "absent"
            /\ \A d \in Actor : actor[d].at = "queue" /\ actor[d].token = actor[b].token => b = d
            /\ actor[b].token # t
        BY <1>13, <2>4, <4>0 DEF TalkInv, Standing
      <4>2. actor[b].token \in Token /\ actor[b].token # a /\ actor[b].token \in 1..t
        BY <1>1, <1>3, <4>1 DEF Token, TalkInv, ChatbotTypeOK, t
      <4>3. actor'[actor[b].token].at = "absent"  BY <1>1, <1>10, <4>1, <4>2
      <4>4. \A d \in Actor : actor'[d].at = "queue" /\ actor'[d].token = actor[b].token => b = d
        BY <1>7, <1>10, <4>1
      <4> QED  BY <1>1, <4>0, <4>2, <4>3, <4>4
    <3> QED  BY <3>1, <3>2
  <2> QED  BY <2>1, <2>2, <2>3, <2>4 DEF Standing, Held
<1>15. ASSUME TokenInv(opening) PROVE TokenInv(opening)'
  <2>1. \A c \in Chat : chat'[c].token <= pauses'
    <3>1. \A c \in Chat : chat[c].token <= pauses  BY <1>15 DEF TokenInv
    <3>2. \A c \in Chat : chat[c].token <= t  BY <1>1, <3>1 DEF t
    <3>3. t <= t  BY <1>2
    <3>4. chat'[Held(a)].token = t /\ \A c \in Chat : c # Held(a) => chat'[c] = chat[c]
      BY <1>8, <1>11
    <3> QED  BY <1>1, <3>2, <3>3, <3>4, Zenon
  <2>2. ASSUME NEW b \in Actor
        PROVE  /\ actor'[b].at \in {"choose", "advance"} => actor'[b].token = 0
               /\ actor'[b].at = "walk" => actor'[b].token = 0 \/ actor'[b].node \in opening
    <3>1. /\ actor[b].at \in {"choose", "advance"} => actor[b].token = 0
          /\ actor[b].at = "walk" => actor[b].token = 0 \/ actor[b].node \in opening
      BY <1>15, <2>2 DEF TokenInv
    <3> QED  BY <1>7, <1>10, <2>2, <3>1
  <2>3. ASSUME NEW b \in Actor, actor'[b].at = "queue"
        PROVE  \A c \in Chat : chat'[c].token = actor'[b].token => c = actor'[b].chat
    <3>1. CASE b = a
      <4>1. actor'[b].token = t /\ actor'[b].chat = Held(a)  BY <1>7, <1>10, <1>12, <3>1
      <4>2. \A c \in Chat : chat'[c].token = t => c = Held(a)  BY <1>11, <1>13, <1>15
      <4> QED  BY <4>1, <4>2
    <3>2. CASE b # a
      <4>0. actor'[b] = actor[b]  BY <1>10, <3>2
      <4>1. /\ \A c \in Chat : chat[c].token = actor[b].token => c = Held(b)
            /\ actor[b].token # t
        BY <1>13, <1>15, <2>3, <4>0 DEF TokenInv
      <4>2. \A c \in Chat : chat'[c].token = actor[b].token => c = Held(b)
        BY <1>8, <1>11, <4>1
      <4> QED  BY <4>0, <4>2 DEF Held
    <3> QED  BY <3>1, <3>2
  <2>4. ASSUME NEW p \in Token
        PROVE  /\ actor'[p].at # "absent" => \A c \in Chat : chat'[c].token = p => c = pauseOf'[p].chat
               /\ actor'[p].at = "resume" =>
                    actor'[p].token = p /\ actor'[p].chat = pauseOf'[p].chat /\ resumed'[p] = 0
               /\ resumed'[p] \in {0, 1}
               /\ resumed'[p] = 1 => actor'[p].at # "absent" /\ \A c \in Chat : chat'[c].token # p
    <3>1. actor'[p].at # "absent" <=> actor[p].at # "absent"
      BY <1>1, <1>3, <1>7, <1>10, <2>4
    <3>2. actor[p].at # "absent" => p # t
      BY <1>13, <1>15, <2>4
    <3>3. p # t => \A c \in Chat : chat'[c].token = p => chat[c].token = p
      BY <1>8, <1>11, <2>4
    <3>4. p # a => actor'[p] = actor[p]  BY <1>1, <1>10, <2>4
    <3>5. p = a => actor'[p].at = "queue"  BY <1>7, <1>10
    <3>6. /\ actor[p].at # "absent" => \A c \in Chat : chat[c].token = p => c = pauseOf[p].chat
          /\ actor[p].at = "resume" => actor[p].token = p /\ Held(p) = pauseOf[p].chat /\ resumed[p] = 0
          /\ resumed[p] \in {0, 1}
          /\ resumed[p] = 1 => actor[p].at # "absent" /\ \A c \in Chat : chat[c].token # p
      BY <1>15, <2>4 DEF TokenInv
    <3> QED  BY <1>1, <3>1, <3>2, <3>3, <3>4, <3>5, <3>6 DEF Held
  <2> QED  BY <2>1, <2>2, <2>3, <2>4 DEF TokenInv, Held
<1> QED  BY <1>10, <1>11, <1>14, <1>15

\* Its job knows the conversation that has the token.
LEMMA QueueKeepsTokens ==
  ASSUME NEW opening \in SUBSET FlowNode, TalkInv, NEW a \in Actor, QueueDelay(a)
  PROVE  /\ actor' \in [Actor -> Turn] /\ chat' \in [Chat -> Session]
         /\ pauseOf' \in [Token -> Pause] /\ Standing'
         /\ TokenInv(opening) => TokenInv(opening)'
<1> DEFINE t == actor[a].token
           e == [chat |-> Held(a), node |-> actor[a].node]
<1>1. /\ actor \in [Actor -> Turn] /\ chat \in [Chat -> Session] /\ pauseOf \in [Token -> Pause]
      /\ \A p \in Token : p \in Actor
      /\ pauses \in Nat /\ chat' = chat /\ resumed' = resumed /\ pauses' = pauses
  BY ChatbotAssumption
     DEF TalkInv, ChatbotTypeOK, Turn, Stage, Actor, Session, Token, Pause, QueueDelay
<1>2. /\ actor[a].at = "queue" /\ t \in 1..pauses /\ actor[t].at = "absent"
      /\ \A b \in Actor : actor[b].at = "queue" /\ actor[b].token = t => a = b
      /\ Held(a) \in Chat /\ actor[a].node \in FlowNode
  BY DEF QueueDelay, Stands, TalkInv, Standing
<1>3. t \in Token /\ t # a /\ t \in Actor /\ e \in Pause
  BY <1>1, <1>2 DEF TalkInv, ChatbotTypeOK, Token, Pause
<1>4. /\ actor' = [actor EXCEPT ![a] = [actor[a] EXCEPT !.at = "done"],
                                ![t] = [actor[t] EXCEPT !.at = "queued"]]
      /\ pauseOf' = [pauseOf EXCEPT ![t] = e]
  BY <1>1, <1>3 DEF QueueDelay
<1>5. PICK q \in Turn : q = actor[a]  BY <1>1
<1>6. PICK v \in Turn : v = actor[t]  BY <1>1, <1>3
<1>7. /\ [q EXCEPT !.at = "done"] \in Turn /\ [q EXCEPT !.at = "done"].at = "done"
      /\ [v EXCEPT !.at = "queued"] \in Turn /\ [v EXCEPT !.at = "queued"].at = "queued"
  BY DEF Turn, Stage
<1>8. PICK r \in Turn : r = [q EXCEPT !.at = "done"] /\ r.at = "done"  BY <1>7
<1>9. PICK w \in Turn : w = [v EXCEPT !.at = "queued"] /\ w.at = "queued"  BY <1>7
<1> HIDE DEF t, e
<1>10. actor' = [actor EXCEPT ![a] = r, ![t] = w]
  BY <1>4, <1>5, <1>6, <1>8, <1>9, Zenon
<1>11. /\ actor'[a] = r /\ actor'[t] = w
       /\ \A b \in Actor : b # a /\ b # t => actor'[b] = actor[b]
       /\ actor' \in [Actor -> Turn]
  BY <1>1, <1>3, <1>10
<1>12. /\ pauseOf'[t] = e /\ \A p \in Token : p # t => pauseOf'[p] = pauseOf[p]
       /\ pauseOf' \in [Token -> Pause]
  BY <1>1, <1>3, <1>4
<1>13. e.chat = Held(a) /\ e.node = actor[a].node  BY DEF e
<1>14. Standing'
  <2>1. \A c \in Chat : chat'[c].open => chat'[c].node \in FlowNode
    BY <1>1 DEF TalkInv, Standing
  <2>2. ASSUME NEW b \in Actor
        PROVE  /\ actor'[b].at \in {"choose", "advance", "walk", "queue", "resume"}
                    => actor'[b].chat \in Chat
               /\ actor'[b].at \in {"choose", "walk", "queue"} => actor'[b].node \in FlowNode
               /\ actor'[b].at \in {"queued", "resume"} => b \in Token
    BY <1>3, <1>8, <1>9, <1>11, <2>2 DEF TalkInv, Standing, Held
  <2>3. ASSUME NEW p \in Token, actor'[p].at # "absent"
        PROVE  p <= pauses' /\ pauseOf'[p].chat \in Chat /\ pauseOf'[p].node \in FlowNode
    <3>1. CASE p = t  BY <1>1, <1>2, <1>12, <1>13, <3>1
    <3>2. CASE p # t
      <4>1. actor[p].at # "absent"  BY <1>1, <1>2, <1>11, <2>3, <3>2
      <4> QED  BY <1>1, <1>12, <2>3, <3>2, <4>1 DEF TalkInv, Standing
    <3> QED  BY <3>1, <3>2
  <2>4. ASSUME NEW b \in Actor, actor'[b].at = "queue"
        PROVE  /\ actor'[b].token \in 1..pauses'
               /\ actor'[actor'[b].token].at = "absent"
               /\ \A d \in Actor : actor'[d].at = "queue" /\ actor'[d].token = actor'[b].token
                                     => b = d
    <3>1. b # a /\ b # t /\ actor'[b] = actor[b]  BY <1>8, <1>9, <1>11, <2>4
    <3>2. /\ actor[b].token \in 1..pauses
          /\ actor[actor[b].token].at = "absent"
          /\ \A d \in Actor : actor[d].at = "queue" /\ actor[d].token = actor[b].token => b = d
      BY <2>4, <3>1 DEF TalkInv, Standing
    <3>3. actor[b].token # t  BY <1>2, <2>4, <3>1
    <3>4. actor[b].token \in Actor /\ actor[b].token # a
      BY <1>1, <1>2, <3>2 DEF Token, TalkInv, ChatbotTypeOK
    <3>5. actor'[actor[b].token] = actor[actor[b].token]  BY <1>11, <3>3, <3>4
    <3>6. \A d \in Actor : actor'[d].at = "queue" => actor'[d] = actor[d]
      BY <1>8, <1>9, <1>11
    <3> QED  BY <1>1, <3>1, <3>2, <3>5, <3>6
  <2> QED  BY <2>1, <2>2, <2>3, <2>4 DEF Standing, Held
<1>15. ASSUME TokenInv(opening) PROVE TokenInv(opening)'
  <2>0. \A c \in Chat : chat[c].token = t => c = Held(a)
    BY <1>2, <1>15 DEF TokenInv, t
  <2>1. \A c \in Chat : chat'[c].token <= pauses'
    BY <1>1, <1>15 DEF TokenInv
  <2>2. ASSUME NEW b \in Actor
        PROVE  /\ actor'[b].at \in {"choose", "advance"} => actor'[b].token = 0
               /\ actor'[b].at = "walk" => actor'[b].token = 0 \/ actor'[b].node \in opening
    <3>1. /\ actor[b].at \in {"choose", "advance"} => actor[b].token = 0
          /\ actor[b].at = "walk" => actor[b].token = 0 \/ actor[b].node \in opening
      BY <1>15, <2>2 DEF TokenInv
    <3> QED  BY <1>8, <1>9, <1>11, <2>2, <3>1
  <2>3. ASSUME NEW b \in Actor, actor'[b].at = "queue"
        PROVE  \A c \in Chat : chat'[c].token = actor'[b].token => c = actor'[b].chat
    <3>1. b # a /\ b # t /\ actor'[b] = actor[b]  BY <1>8, <1>9, <1>11, <2>3
    <3>2. \A c \in Chat : chat[c].token = actor[b].token => c = Held(b)
      BY <1>15, <2>3, <3>1 DEF TokenInv
    <3> QED  BY <1>1, <3>1, <3>2 DEF Held
  <2>4. ASSUME NEW p \in Token
        PROVE  /\ actor'[p].at # "absent" => \A c \in Chat : chat'[c].token = p => c = pauseOf'[p].chat
               /\ actor'[p].at = "resume" =>
                    actor'[p].token = p /\ actor'[p].chat = pauseOf'[p].chat /\ resumed'[p] = 0
               /\ resumed'[p] \in {0, 1}
               /\ resumed'[p] = 1 => actor'[p].at # "absent" /\ \A c \in Chat : chat'[c].token # p
    <3>1. /\ actor[p].at # "absent" => \A c \in Chat : chat[c].token = p => c = pauseOf[p].chat
          /\ actor[p].at = "resume" => actor[p].token = p /\ Held(p) = pauseOf[p].chat /\ resumed[p] = 0
          /\ resumed[p] \in {0, 1}
          /\ resumed[p] = 1 => actor[p].at # "absent" /\ \A c \in Chat : chat[c].token # p
      BY <1>15, <2>4 DEF TokenInv
    <3>2. CASE p = t  BY <1>1, <1>2, <2>0, <1>9, <1>11, <1>12, <1>13, <3>1, <3>2
    <3>3. CASE p = a  BY <1>1, <1>2, <1>3, <1>8, <1>11, <1>12, <3>1, <3>3
    <3>4. CASE p # t /\ p # a
      <4>1. actor'[p] = actor[p] /\ pauseOf'[p] = pauseOf[p]  BY <1>1, <1>11, <1>12, <2>4, <3>4
      <4> QED  BY <1>1, <3>1, <4>1 DEF Held
    <3> QED  BY <3>2, <3>3, <3>4
  <2> QED  BY <2>1, <2>2, <2>3, <2>4 DEF TokenInv, Held
<1> QED  BY <1>1, <1>11, <1>12, <1>14, <1>15

\* The turns of message handlers and of jobs, one action at a time.
LEMMA MakesTurn ==
  ASSUME NEW opening \in SUBSET FlowNode, TalkInv, Calm(opening), UNCHANGED <<pauses, pauseOf, resumed>>,
         NEW a \in Actor, NEW r, Fits(opening, a, r), actor' = [actor EXCEPT ![a] = r]
  PROVE  Turns(opening, a)
BY DEF Turns, Counts, Fits

LEMMA GoingOn ==
  ASSUME NEW opening \in SUBSET FlowNode, TalkInv, NEW a \in Actor,
         actor[a].at # "absent", Calm(opening), UNCHANGED <<pauses, pauseOf, resumed>>
  PROVE  /\ \A place \in {"find", "clear", "create", "answer", "silence", "done"} :
              Goes(a, place) => Turns(opening, a)
         /\ a \in Token => (Goes(a, "queued") => Turns(opening, a))
         /\ \A n \in FlowNode : Walks(a, n) /\ Held(a) \in Chat
              /\ (Opens(opening) => actor[a].token = 0 \/ n \in opening) => Turns(opening, a)
<1>1. PICK q \in Turn : q = actor[a]
  BY DEF TalkInv, ChatbotTypeOK, Turn, Stage
<1>2. actor \in [Actor -> Turn]
  BY DEF TalkInv, ChatbotTypeOK, Turn, Stage
<1>3. ASSUME NEW place \in {"find", "clear", "create", "answer", "silence", "done", "queued"},
             Goes(a, place), place = "queued" => a \in Token
      PROVE  Turns(opening, a)
  <2>1. actor' = [actor EXCEPT ![a] = [q EXCEPT !.at = place]]
    BY <1>1, <1>2, <1>3 DEF Goes
  <2>2. [q EXCEPT !.at = place] \in Turn /\ [q EXCEPT !.at = place].at = place
    BY DEF Turn, Stage
  <2>3. PICK r \in Turn : r = [q EXCEPT !.at = place] /\ r.at = place
    BY <2>2
  <2>4. Fits(opening, a, r)
    BY <1>3, <2>3 DEF Fits
  <2>5. actor' = [actor EXCEPT ![a] = r]
    BY <2>1, <2>3, Zenon
  <2> QED  BY <2>4, <2>5, MakesTurn
<1>4. ASSUME NEW n \in FlowNode, Walks(a, n), Held(a) \in Chat,
             Opens(opening) => actor[a].token = 0 \/ n \in opening
      PROVE  Turns(opening, a)
  <2>1. actor' = [actor EXCEPT ![a] = [q EXCEPT !.at = "walk", !.node = n]]
    BY <1>1, <1>2, <1>4 DEF Walks
  <2>2. LET r == [q EXCEPT !.at = "walk", !.node = n]
        IN  r \in Turn /\ r.at = "walk" /\ r.node = n /\ r.chat = q.chat /\ r.token = q.token
    BY DEF Turn, Stage
  <2>3. PICK r \in Turn : r = [q EXCEPT !.at = "walk", !.node = n] /\ r.at = "walk" /\ r.node = n
                          /\ r.chat = q.chat /\ r.token = q.token
    BY <2>2
  <2>4. Fits(opening, a, r)
    BY <1>1, <1>4, <2>3 DEF Fits, Held
  <2>5. actor' = [actor EXCEPT ![a] = r]
    BY <2>1, <2>3, Zenon
  <2> QED  BY <2>4, <2>5, MakesTurn
<1> QED  BY <1>3, <1>4

LEMMA Beginning ==
  ASSUME NEW opening \in SUBSET FlowNode, TalkInv, NEW i \in Inbound,
         Calm(opening), UNCHANGED <<pauses, pauseOf, resumed>>
  PROVE  /\ \A place \in {"restart", "done"} : Start(i, place, NoChat, NoNode) => Turns(opening, i)
         /\ \A c \in Chat, place \in {"walk", "choose", "advance", "answer"},
               n \in FlowNode \cup {NoNode} :
              /\ Start(i, place, c, n)
              /\ n = NoNode => place = "advance"
              /\ chat[c].token = 0 \/ (place = "walk" /\ (Opens(opening) => n \in opening))
              => Turns(opening, i)
<1>1. i \in Actor /\ i \notin Token /\ 0 \in 0..MaxPauses
      /\ \A c \in Chat : chat[c].token \in 0..MaxPauses /\ c # NoChat
  <2>1. i \in Actor /\ i \notin Token /\ 0 \in 0..MaxPauses
    BY ChatbotAssumption DEF Actor
  <2>2. \A c \in Chat : chat[c].token \in 0..MaxPauses
    BY DEF TalkInv, ChatbotTypeOK
  <2>3. \A c \in Chat : c # NoChat
    BY DEF Chat, NoChat
  <2> QED  BY <2>1, <2>2, <2>3
<1>2. ASSUME NEW place \in {"restart", "done"}, Start(i, place, NoChat, NoNode)
      PROVE  Turns(opening, i)
  <2>1. PICK r \in Turn : r = [at |-> place, chat |-> NoChat, node |-> NoNode, token |-> 0]
    BY <1>1 DEF Turn, Stage
  <2>2. Fits(opening, i, r)
    BY <1>1, <2>1 DEF Fits
  <2>3. actor' = [actor EXCEPT ![i] = r]
    BY <1>2, <2>1 DEF Start
  <2> QED  BY <1>1, <2>2, <2>3, MakesTurn
<1>3. ASSUME NEW c \in Chat, NEW place \in {"walk", "choose", "advance", "answer"},
             NEW n \in FlowNode \cup {NoNode}, Start(i, place, c, n),
             n = NoNode => place = "advance",
             chat[c].token = 0 \/ (place = "walk" /\ (Opens(opening) => n \in opening))
      PROVE  Turns(opening, i)
  <2>1. PICK t \in 0..MaxPauses : t = chat[c].token  BY <1>1
  <2>2. PICK r \in Turn : r = [at |-> place, chat |-> c, node |-> n, token |-> t]
    BY DEF Turn, Stage
  <2>3. Fits(opening, i, r)
    BY <1>1, <1>3, <2>1, <2>2 DEF Fits
  <2>4. actor' = [actor EXCEPT ![i] = r]
    BY <1>1, <1>3, <2>1, <2>2 DEF Start
  <2> QED  BY <1>1, <2>3, <2>4, MakesTurn
<1> QED  BY <1>2, <1>3

\* The variables of a snapshot: of one with a token in the opening none are written.
LEMMA SnapshotWrites ==
  ASSUME TalkInv, NEW a \in Actor, Held(a) \in Chat, NEW n \in FlowNode, NEW opening,
         Opens(opening) => actor[a].token = 0
  PROVE  /\ MoveWithVariables(Held(a), n, actor[a].token) => Calm(opening)
         /\ chat' = [chat EXCEPT ![Held(a)].token = actor[a].token] => Calm(opening)
<1>1. PICK k \in 0..MaxPauses : k = actor[a].token
  BY DEF TalkInv, ChatbotTypeOK
<1> QED  BY <1>1, CalmUpdates

LEMMA MessagesTakeTurns ==
  ASSUME NEW opening \in SUBSET FlowNode, Opens(opening) => TokenInv(opening), TalkInv,
         NEW i \in Inbound,
         \/ \E keyword \in BOOLEAN : ReceiveText(i, keyword)
         \/ \E choice \in Choice, tapped \in BOOLEAN : ReceiveChoice(i, choice, tapped)
         \/ Choose(i) \/ Advance(i) \/ RestartFlow(i) \/ FindChat(i) \/ ClearChats(i) \/ CreateChat(i)
  PROVE  Turns(opening, i)
<1>0. i \in Actor /\ StartNode \in FlowNode /\ (Opens(opening) => StartNode \in opening) /\ NoNode \notin FlowNode
      /\ Following \in [FlowNode -> FlowNode \cup {NoNode}]
      /\ \A choice \in Choice : choice.to \in FlowNode
  BY ChatbotAssumption DEF Actor, Opens, Choice, Menu
<1>1. LatestChat = NoChat \/ (LatestChat \in Chat /\ chat[LatestChat].open
                              /\ chat[LatestChat].node \in FlowNode)
  BY LatestIsOpen DEF TalkInv, Standing
<1>2. /\ Stands(i, "choose") => Held(i) \in Chat /\ actor[i].node \in FlowNode
      /\ Stands(i, "advance") => Held(i) \in Chat
      /\ Stands(i, "choose") \/ Stands(i, "advance") => (Opens(opening) => actor[i].token = 0)
  BY <1>0 DEF Stands, TalkInv, Standing, TokenInv
<1>3. actor[i].node \in FlowNode \cup {NoNode}
  BY <1>0 DEF TalkInv, ChatbotTypeOK
<1>4. UNCHANGED chat => Calm(opening)
  BY <1>0, <1>1, CalmIfUnchanged
<1>5. ASSUME LatestChat # NoChat, NEW target \in FlowNode \cup {NoNode}, Answer(i, LatestChat, target),
             UNCHANGED <<chat, pauses, pauseOf, resumed>>
      PROVE  Turns(opening, i)
  <2>1. PICK c \in Chat : c = LatestChat /\ chat[c].node \in FlowNode  BY <1>1, <1>5
  <2>2. Calm(opening)  BY <1>4, <1>5
  <2>3. \/ Start(i, "done", NoChat, NoNode)
        \/ chat[c].token = 0 /\ (\/ \E n \in FlowNode : Start(i, "walk", c, n) \/ Start(i, "choose", c, n)
                                                        \/ Start(i, "answer", c, n)
                                 \/ \E n \in FlowNode \cup {NoNode} : Start(i, "advance", c, n))
    BY <1>0, <1>5, <2>1 DEF Answer
  <2> QED  BY <1>0, <1>5, <2>2, <2>3, Beginning
<1>6. CASE \E keyword \in BOOLEAN : ReceiveText(i, keyword)
  <2>1. UNCHANGED <<chat, pauses, pauseOf, resumed>>
        /\ (Start(i, "restart", NoChat, NoNode) \/ (LatestChat # NoChat /\ Answer(i, LatestChat, NoNode)))
    BY <1>6 DEF ReceiveText
  <2> QED  BY <1>4, <1>5, <2>1, Beginning
<1>7. CASE \E choice \in Choice, tapped \in BOOLEAN : ReceiveChoice(i, choice, tapped)
  BY <1>0, <1>5, <1>7 DEF ReceiveChoice
<1>8. CASE Choose(i)
  <2>1. /\ actor[i].at # "absent" /\ Held(i) \in Chat /\ actor[i].node \in FlowNode
        /\ (Opens(opening) => actor[i].token = 0)
    BY <1>2, <1>8 DEF Choose, Stands
  <2>2. Calm(opening)  BY <1>0, <1>8, <2>1, SnapshotWrites DEF Choose
  <2> QED  BY <1>0, <1>8, <2>1, <2>2, GoingOn DEF Choose
<1>9. CASE Advance(i)
  <2>1. actor[i].at # "absent" /\ Held(i) \in Chat
        /\ (Opens(opening) => actor[i].token = 0)
        /\ UNCHANGED <<pauses, pauseOf, resumed>>
    BY <1>2, <1>9 DEF Advance, Stands
  <2>2. CASE actor[i].node = NoNode
    <3>1. Calm(opening)  BY <1>0, <1>9, <2>1, <2>2, ClosingIsCalm DEF Advance
    <3> QED  BY <1>0, <1>9, <2>1, <2>2, <3>1, GoingOn DEF Advance
  <2>3. CASE actor[i].node \in FlowNode
    <3>1. Calm(opening)  BY <1>0, <1>9, <2>1, <2>3, SnapshotWrites DEF Advance
    <3> QED  BY <1>0, <1>9, <2>1, <2>3, <3>1, GoingOn DEF Advance
  <2> QED  BY <1>3, <2>2, <2>3
<1>10. CASE RestartFlow(i) \/ ClearChats(i)
  <2>1. actor[i].at # "absent" /\ UNCHANGED <<pauses, pauseOf, resumed>> /\ EndEveryChat
        /\ (Goes(i, "find") \/ Goes(i, "create"))
    BY <1>10 DEF RestartFlow, ClearChats, Stands
  <2>2. Calm(opening)  BY <2>1, EndingIsCalm
  <2> QED  BY <1>0, <2>1, <2>2, GoingOn
<1>11. CASE FindChat(i)
  <2>1. actor[i].at # "absent" /\ UNCHANGED <<chat, pauses, pauseOf, resumed>> /\ Calm(opening)
    BY <1>4, <1>11 DEF FindChat, Stands
  <2>2. CASE LatestChat = NoChat
    BY <1>0, <1>11, <2>1, <2>2, GoingOn DEF FindChat
  <2>3. CASE LatestChat # NoChat
    <3>1. PICK c \in Chat : c = LatestChat  BY <1>1, <2>3
    <3>2. Start(i, "walk", c, StartNode)  BY <1>11, <2>3, <3>1 DEF FindChat
    <3> QED  BY <1>0, <2>1, <3>2, Beginning
  <2> QED  BY <2>2, <2>3
<1>12. CASE CreateChat(i)
  <2> DEFINE k == Len(byUpdate) + 1
  <2>1. k \in Chat
    BY <1>12, ChatbotAssumption DEF CreateChat, Chat, TalkInv, ChatbotTypeOK
  <2>2. /\ chat' = [chat EXCEPT ![k] = [open |-> TRUE, node |-> StartNode, token |-> 0]]
        /\ actor' = [actor EXCEPT ![i] = [at |-> "walk", chat |-> k, node |-> StartNode, token |-> 0]]
        /\ UNCHANGED <<pauses, pauseOf, resumed>>
    BY <1>12 DEF CreateChat
  <2> HIDE DEF k
  <2>3. Calm(opening)  BY <1>0, <2>1, <2>2, OpeningIsCalm
  <2>4. PICK r \in Turn : r = [at |-> "walk", chat |-> k, node |-> StartNode, token |-> 0]
    <3>1. 0 \in 0..MaxPauses  BY ChatbotAssumption
    <3>2. [at |-> "walk", chat |-> k, node |-> StartNode, token |-> 0] \in Turn
      BY <1>0, <2>1, <3>1 DEF Turn, Stage
    <3> QED  BY <3>2
  <2>5. i \notin Token  BY ChatbotAssumption
  <2>6. Fits(opening, i, r)  BY <1>0, <2>1, <2>4, <2>5 DEF Fits
  <2> QED  BY <1>0, <2>2, <2>3, <2>4, <2>6, MakesTurn
<1> QED  BY <1>6, <1>7, <1>8, <1>9, <1>10, <1>11, <1>12

LEMMA WalkersTakeTurns ==
  ASSUME NEW opening \in SUBSET FlowNode, Opens(opening) => TokenInv(opening), TalkInv,
         NEW a \in Actor,
         \/ WalkOn(a) \/ RequestFails(a) \/ Decide(a) \/ WaitForAnswer(a) \/ Converse(a)
         \/ SendAnswer(a) \/ StaySilent(a) \/ BreakActor(a)
  PROVE  Turns(opening, a)
<1>0. StartNode \in FlowNode /\ NoNode \notin FlowNode
      /\ Following \in [FlowNode -> FlowNode \cup {NoNode}] /\ Options \in [FlowNode -> SUBSET FlowNode]
  BY ChatbotAssumption
<1>1. actor[a].at # "absent" /\ UNCHANGED <<pauses, pauseOf, resumed>>
  BY DEF WalkOn, RequestFails, Decide, WaitForAnswer, Converse, SendAnswer, StaySilent, BreakActor,
     Here, Stands
\* A walker writes variables only beyond the opening, where it holds no token.
<1>2. Stands(a, "walk") =>
        /\ Held(a) \in Chat /\ actor[a].node \in FlowNode
        /\ Kind[actor[a].node] \in {"http", "condition", "ai"} =>
             (Opens(opening) => actor[a].token = 0)
        /\ Kind[actor[a].node] \in {"message", "tag", "http"} /\ Behind(a) # NoNode =>
             Behind(a) \in FlowNode /\ (Opens(opening) => actor[a].token = 0 \/ Behind(a) \in opening)
  <2> SUFFICES ASSUME Stands(a, "walk")
               PROVE  /\ Held(a) \in Chat /\ actor[a].node \in FlowNode
                      /\ Kind[actor[a].node] \in {"http", "condition", "ai"} =>
                           (Opens(opening) => actor[a].token = 0)
                      /\ Kind[actor[a].node] \in {"message", "tag", "http"} /\ Behind(a) # NoNode =>
                           /\ Behind(a) \in FlowNode
                           /\ Opens(opening) => actor[a].token = 0 \/ Behind(a) \in opening
    OBVIOUS
  <2>1. PICK n \in FlowNode : n = actor[a].node
    BY DEF Stands, TalkInv, Standing
  <2>2. Held(a) \in Chat
    BY DEF Stands, TalkInv, Standing
  <2>3. Opens(opening) => actor[a].token = 0 \/ n \in opening
    BY <2>1 DEF Stands, TokenInv
  <2>4. Opens(opening) /\ n \in opening =>
          /\ Kind[n] \notin {"http", "condition", "ai"}
          /\ Kind[n] \in {"message", "tag"} => Following[n] \in opening \cup {NoNode}
    BY DEF Opens
  <2>5. Behind(a) = Following[n] /\ Following[n] \in FlowNode \cup {NoNode}
    BY <1>0, <2>1 DEF Behind
  <2>6. ASSUME Kind[n] \in {"http", "condition", "ai"}, Opens(opening) PROVE actor[a].token = 0
    <3>1. n \notin opening  BY <2>4, <2>6
    <3> QED  BY <2>3, <2>6, <3>1
  <2>7. ASSUME Kind[n] \in {"message", "tag", "http"}, Following[n] # NoNode, Opens(opening)
        PROVE  actor[a].token = 0 \/ Following[n] \in opening
    <3>1. n \in opening => Following[n] \in opening  BY <2>4, <2>7
    <3> QED  BY <2>3, <2>7, <3>1
  <2> QED  BY <2>1, <2>2, <2>5, <2>6, <2>7
<1>3. UNCHANGED chat => Calm(opening)
  BY CalmIfUnchanged
<1>4. Stands(a, "walk") \/ Stands(a, "queue") =>
        /\ EndChat(Held(a)) => Calm(opening)
        /\ \A n \in FlowNode : MoveChat(Held(a), n) => Calm(opening)
        /\ (Opens(opening) => actor[a].token = 0) =>
             /\ \A n \in FlowNode : MoveWithVariables(Held(a), n, actor[a].token) => Calm(opening)
             /\ chat' = [chat EXCEPT ![Held(a)].token = actor[a].token] => Calm(opening)
  <2>1. Stands(a, "walk") \/ Stands(a, "queue") => Held(a) \in Chat
    BY DEF Stands, TalkInv, Standing
  <2>2. 0 \in 0..MaxPauses  BY ChatbotAssumption
  <2> QED  BY <1>0, <2>1, <2>2, CalmUpdates, SnapshotWrites
<1>5. CASE WalkOn(a)
  <2>1. Stands(a, "walk") /\ Kind[actor[a].node] \in {"message", "tag", "http"}
    BY <1>5 DEF WalkOn
  <2>2. CASE Behind(a) = NoNode
    <3>1. EndChat(Held(a)) /\ (Goes(a, "answer") \/ Goes(a, "silence"))
      BY <1>5, <2>2 DEF WalkOn
    <3> QED  BY <1>1, <1>4, <2>1, <3>1, GoingOn
  <2>3. CASE Behind(a) # NoNode
    <3>1. Walks(a, Behind(a)) /\ (MoveChat(Held(a), Behind(a))
                                  \/ (Kind[actor[a].node] = "http"
                                      /\ MoveWithVariables(Held(a), Behind(a), actor[a].token)))
      BY <1>2, <1>5, <2>1, <2>3 DEF WalkOn, Here
    <3>2. Calm(opening)  BY <1>2, <1>4, <2>1, <2>3, <3>1
    <3> QED  BY <1>1, <1>2, <2>1, <2>3, <3>1, <3>2, GoingOn
  <2> QED  BY <2>2, <2>3
<1>6. CASE RequestFails(a)
  <2>1. Stands(a, "walk") /\ (Opens(opening) => actor[a].token = 0) /\ Goes(a, "answer")
        /\ chat' = [chat EXCEPT ![Held(a)].token = actor[a].token]
    BY <1>2, <1>6 DEF RequestFails, Here
  <2> QED  BY <1>1, <1>4, <2>1, GoingOn
<1>7. CASE Decide(a)
  <2>1. Stands(a, "walk") /\ Held(a) \in Chat /\ actor[a].node \in FlowNode
        /\ (Opens(opening) => actor[a].token = 0)
    BY <1>2, <1>7 DEF Decide, Here
  <2>2. \/ Goes(a, "silence") /\ UNCHANGED chat
        \/ \E n \in FlowNode : MoveWithVariables(Held(a), n, actor[a].token) /\ Walks(a, n)
    BY <1>0, <1>7, <2>1 DEF Decide
  <2> QED  BY <1>1, <1>3, <1>4, <2>1, <2>2, GoingOn
<1>8. CASE WaitForAnswer(a)
  <2>1. Stands(a, "walk") /\ Goes(a, "answer") /\ (EndChat(Held(a)) \/ UNCHANGED chat)
    BY <1>8 DEF WaitForAnswer
  <2> QED  BY <1>1, <1>3, <1>4, <2>1, GoingOn
<1>9. CASE Converse(a)
  <2>1. Stands(a, "walk") /\ Held(a) \in Chat /\ actor[a].node \in FlowNode
        /\ (Opens(opening) => actor[a].token = 0)
    BY <1>2, <1>9 DEF Converse, Here
  <2>2. \/ MoveWithVariables(Held(a), actor[a].node, actor[a].token) /\ Goes(a, "answer")
        \/ \E n \in FlowNode : MoveWithVariables(Held(a), n, actor[a].token) /\ Walks(a, n)
        \/ EndChat(Held(a)) /\ Goes(a, "done")
    <3>1. Behind(a) \in FlowNode \cup {NoNode}  BY <1>0, <2>1 DEF Behind
    <3> QED  BY <1>9, <2>1, <3>1 DEF Converse
  <2> QED  BY <1>1, <1>4, <2>1, <2>2, GoingOn
<1>10. CASE SendAnswer(a)
  BY <1>1, <1>3, <1>10, GoingOn DEF SendAnswer
<1>11. CASE StaySilent(a)
  <2>1. Goes(a, "done") /\ (UNCHANGED chat \/ (LatestChat # NoChat /\ EndChat(LatestChat)))
    BY <1>11 DEF StaySilent
  <2>2. Calm(opening)
    <3>1. CASE LatestChat # NoChat /\ EndChat(LatestChat)
      <4>1. LatestChat \in Chat  BY <3>1, LatestIsOpen DEF TalkInv
      <4> QED  BY <1>0, <3>1, <4>1, ClosingIsCalm
    <3> QED  BY <1>3, <2>1, <3>1
  <2> QED  BY <1>1, <2>1, <2>2, GoingOn
<1>12. CASE BreakActor(a)
  <2>1. /\ Goes(a, "done") \/ (a \in Token /\ Goes(a, "queued"))
        /\ UNCHANGED chat \/ (Stands(a, "queue") /\ EndChat(Held(a)))
    BY <1>12 DEF BreakActor
  <2>2. Calm(opening)  BY <1>3, <1>4, <2>1
  <2> QED  BY <1>1, <2>1, <2>2, GoingOn
<1> QED  BY <1>5, <1>6, <1>7, <1>8, <1>9, <1>10, <1>11, <1>12

\* What the job of a delay finds in the conversation, it finds once.
LEMMA JobsTakeTurns ==
  ASSUME NEW opening \in SUBSET FlowNode, Opens(opening) => TokenInv(opening), TalkInv,
         NEW p \in Token, CheckPause(p) \/ ResumeChat(p)
  PROVE  Turns(opening, p)
<1>0. /\ StartNode \in FlowNode /\ NoNode \notin FlowNode /\ p \in Actor /\ p \in 0..MaxPauses /\ p # 0
      /\ 0 \in 0..MaxPauses /\ Following \in [FlowNode -> FlowNode \cup {NoNode}]
      /\ actor \in [Actor -> Turn]
  BY ChatbotAssumption DEF Actor, Token, TalkInv, ChatbotTypeOK, Turn, Stage
<1>1. actor[p].at # "absent" /\ UNCHANGED <<pauses, pauseOf>>
  BY DEF CheckPause, ResumeChat, Stands
<1>2. pauseOf[p].chat \in Chat /\ pauseOf[p].node \in FlowNode
  BY <1>1 DEF TalkInv, Standing
<1>3. Opens(opening) =>
      /\ \A c \in Chat : chat[c].token = p => c = pauseOf[p].chat
      /\ actor[p].at = "resume" => actor[p].token = p /\ Held(p) = pauseOf[p].chat /\ resumed[p] = 0
      /\ resumed[p] \in {0, 1}
      /\ resumed[p] = 1 => \A c \in Chat : chat[c].token # p
  BY <1>1 DEF TokenInv
<1>4. CASE CheckPause(p)
  <2>1. Calm(opening) /\ UNCHANGED resumed  BY <1>4, CalmIfUnchanged DEF CheckPause
  <2>2. CASE StillPaused(p)
    <3>1. PICK c \in Chat : c = pauseOf[p].chat  BY <1>2
    <3>2. PICK n \in FlowNode \cup {NoNode} : n = Following[pauseOf[p].node]  BY <1>0, <1>2
    <3>3. Opens(opening) => resumed[p] = 0  BY <1>3, <2>2, <3>1 DEF StillPaused
    <3>4. PICK r \in Turn : r = [at |-> "resume", chat |-> c, node |-> n, token |-> p]
      BY <1>0 DEF Turn, Stage
    <3>5. Fits(opening, p, r)
      BY <1>1, <3>1, <3>3, <3>4 DEF Fits
    <3>6. actor' = [actor EXCEPT ![p] = r]
      BY <1>4, <2>2, <3>1, <3>2, <3>4 DEF CheckPause
    <3> QED  BY <1>0, <1>1, <2>1, <3>5, <3>6, MakesTurn
  <2>3. CASE ~StillPaused(p)
    BY <1>0, <1>1, <1>4, <2>1, <2>3, GoingOn DEF CheckPause
  <2> QED  BY <2>2, <2>3
<1>5. CASE ResumeChat(p)
  <2>1. actor[p].at = "resume" /\ Held(p) \in Chat /\ actor[p].node \in FlowNode \cup {NoNode}
    <3>1. actor[p].at = "resume"  BY <1>5 DEF ResumeChat, Stands
    <3>2. Held(p) \in Chat  BY <1>0, <3>1 DEF TalkInv, Standing
    <3>3. actor[p].node \in FlowNode \cup {NoNode}  BY <1>0 DEF Turn
    <3> QED  BY <3>1, <3>2, <3>3
  <2>2. CASE actor[p].node = NoNode
    <3>1. Calm(opening)  BY <1>0, <1>5, <2>1, <2>2, ClosingIsCalm DEF ResumeChat
    <3> QED  BY <1>0, <1>1, <1>5, <2>2, <3>1, GoingOn DEF ResumeChat
  <2>3. CASE actor[p].node # NoNode
    <3>1. PICK n \in FlowNode : n = actor[p].node  BY <2>1, <2>3
    <3>2. MoveWithVariables(Held(p), n, 0)
      BY <1>5, <2>3, <3>1 DEF ResumeChat, TokenLeft
    <3>3. Calm(opening)  BY <1>0, <2>1, <3>2, CalmUpdates
    <3>4. PICK q \in Turn : q = actor[p]  BY <1>0
    <3>5. actor' = [actor EXCEPT ![p] = [q EXCEPT !.at = "walk", !.token = 0]]
      BY <1>0, <1>5, <2>3, <3>4 DEF ResumeChat, TokenLeft
    <3>6. LET r == [q EXCEPT !.at = "walk", !.token = 0]
          IN  r \in Turn /\ r.at = "walk" /\ r.token = 0 /\ r.node = q.node /\ r.chat = q.chat
      BY <1>0 DEF Turn, Stage
    <3>7. PICK r \in Turn : r = [q EXCEPT !.at = "walk", !.token = 0] /\ r.at = "walk"
                            /\ r.token = 0 /\ r.node = q.node /\ r.chat = q.chat
      BY <3>6
    <3>8. actor' = [actor EXCEPT ![p] = r]  BY <3>5, <3>7, Zenon
    <3>9. Fits(opening, p, r)
      BY <1>1, <2>1, <3>1, <3>4, <3>7 DEF Fits, Held
    <3>10. ASSUME Opens(opening) PROVE \A c \in Chat : chat'[c].token # p
      <4>1. \A c \in Chat : c # Held(p) => chat'[c] = chat[c] /\ chat[c].token # p
        BY <1>3, <2>1, <3>2, <3>10 DEF MoveWithVariables, TalkInv, ChatbotTypeOK
      <4>2. chat'[Held(p)].token = 0
        <5>1. PICK s \in Session : s = chat[Held(p)]
          BY <2>1 DEF TalkInv, ChatbotTypeOK, Session
        <5>2. chat'[Held(p)] = [s EXCEPT !.node = n, !.token = 0]
          BY <2>1, <3>2, <5>1 DEF MoveWithVariables, TalkInv, ChatbotTypeOK
        <5>3. [s EXCEPT !.node = n, !.token = 0].token = 0
          BY Zenon DEF Session
        <5> QED  BY <5>2, <5>3, Zenon
      <4> QED  BY <1>0, <4>1, <4>2
    <3>11. resumed' = [resumed EXCEPT ![p] = resumed[p] + 1] /\ resumed \in [Token -> Nat]
      BY <1>5, <2>3 DEF ResumeChat, TalkInv, ChatbotTypeOK
    <3>12. ASSUME Opens(opening) PROVE Counts(p)
      <4>1. actor'[p].at = "walk"  BY <1>0, <3>7, <3>8
      <4>2. resumed'[p] = 1 /\ \A t \in Token : t # p => resumed'[t] = resumed[t]
        BY <1>3, <2>1, <3>11, <3>12
      <4> QED  BY <3>10, <3>12, <4>1, <4>2 DEF Counts
    <3> QED  BY <1>1, <3>3, <3>8, <3>9, <3>12 DEF Turns
  <2> QED  BY <2>2, <2>3
<1> QED  BY <1>4, <1>5

\* The order of the conversations, the attempts of the jobs and the counters.
LEMMA ChatbotRestTyped ==
  ASSUME TalkInv, [ChatbotNext]_chatVars
  PROVE  /\ defaultFlow' \in BOOLEAN /\ byUpdate' \in Seq(Chat) /\ pauses' \in 0..MaxPauses
         /\ pauseOf' \in [Token -> Pause] /\ attemptsLeft' \in [Token -> 0..MaxJobAttempts]
         /\ resumed' \in [Token -> Nat] /\ chatFaults' \in 0..MaxChatFaults
<1>0. /\ defaultFlow \in BOOLEAN /\ byUpdate \in Seq(Chat) /\ pauses \in 0..MaxPauses
      /\ pauseOf \in [Token -> Pause] /\ attemptsLeft \in [Token -> 0..MaxJobAttempts]
      /\ resumed \in [Token -> Nat] /\ chatFaults \in 0..MaxChatFaults
  BY DEF TalkInv, ChatbotTypeOK, Pause
<1>1. {MaxChats, MaxPauses, MaxJobAttempts, MaxChatFaults} \subseteq Nat
  BY ChatbotAssumption
<1>2. ASSUME NEW i \in Inbound,
             \/ \E keyword \in BOOLEAN : ReceiveText(i, keyword)
             \/ \E choice \in Choice, tapped \in BOOLEAN : ReceiveChoice(i, choice, tapped)
             \/ Advance(i) \/ RestartFlow(i) \/ FindChat(i) \/ ClearChats(i)
      PROVE  UNCHANGED <<defaultFlow, byUpdate, pauses, pauseOf, attemptsLeft, resumed, chatFaults>>
  BY <1>2 DEF ReceiveText, ReceiveChoice, Advance, RestartFlow, FindChat, ClearChats
<1>3. ASSUME NEW i \in Inbound, Choose(i) \/ CreateChat(i)
      PROVE  /\ UNCHANGED <<defaultFlow, pauses, pauseOf, attemptsLeft, resumed, chatFaults>>
             /\ byUpdate' \in Seq(Chat)
  <2>1. CASE Choose(i)
    <3>1. i \in Actor  BY DEF Actor
    <3>2. Held(i) \in Chat /\ Touch(Held(i))
      BY <2>1, <3>1 DEF Choose, Stands, TalkInv, Standing
    <3>3. byUpdate' \in Seq(Chat)  BY <3>2, TouchIsTyped DEF TalkInv
    <3> QED  BY <2>1, <3>3 DEF Choose
  <2>2. CASE CreateChat(i)
    <3>1. Len(byUpdate) + 1 \in Chat
      BY <1>0, <1>1, <2>2 DEF CreateChat, Chat
    <3>2. byUpdate' = Append(byUpdate, Len(byUpdate) + 1)
      BY <2>2 DEF CreateChat
    <3>3. byUpdate' \in Seq(Chat)  BY <1>0, <3>1, <3>2
    <3> QED  BY <2>2, <3>3 DEF CreateChat
  <2> QED  BY <1>3, <2>1, <2>2
<1>4. ASSUME NEW a \in Actor,
             WalkOn(a) \/ RequestFails(a) \/ Decide(a) \/ WaitForAnswer(a) \/ SendAnswer(a)
      PROVE  UNCHANGED <<defaultFlow, byUpdate, pauses, pauseOf, attemptsLeft, resumed, chatFaults>>
  BY <1>4 DEF WalkOn, RequestFails, Decide, WaitForAnswer, SendAnswer
<1>5. ASSUME NEW a \in Actor, Converse(a) \/ StaySilent(a)
      PROVE  /\ UNCHANGED <<defaultFlow, pauses, pauseOf, attemptsLeft, resumed, chatFaults>>
             /\ byUpdate' \in Seq(Chat)
  <2>1. CASE Converse(a)
    <3>1. Held(a) \in Chat /\ Touch(Held(a))
      BY <2>1 DEF Converse, Here, Stands, TalkInv, Standing
    <3>2. byUpdate' \in Seq(Chat)  BY <3>1, TouchIsTyped DEF TalkInv
    <3> QED  BY <2>1, <3>2 DEF Converse
  <2>2. CASE StaySilent(a)
    <3>1. LatestChat # NoChat => LatestChat \in Chat  BY LatestIsOpen DEF TalkInv
    <3>2. byUpdate' = byUpdate \/ (LatestChat \in Chat /\ Touch(LatestChat))
      BY <2>2, <3>1 DEF StaySilent
    <3>3. byUpdate' \in Seq(Chat)  BY <1>0, <3>2, TouchIsTyped DEF TalkInv
    <3> QED  BY <2>2, <3>3 DEF StaySilent
  <2> QED  BY <1>5, <2>1, <2>2
<1>6. ASSUME NEW a \in Actor, PauseChat(a)
      PROVE  /\ UNCHANGED <<defaultFlow, byUpdate, pauseOf, attemptsLeft, resumed, chatFaults>>
             /\ pauses' \in 0..MaxPauses
  BY <1>0, <1>1, <1>6 DEF PauseChat
<1>7. ASSUME NEW a \in Actor, QueueDelay(a)
      PROVE  /\ UNCHANGED <<defaultFlow, byUpdate, pauses, attemptsLeft, resumed, chatFaults>>
             /\ pauseOf' \in [Token -> Pause]
  <2>1. [chat |-> Held(a), node |-> actor[a].node] \in Pause
    <3>1. Held(a) \in Chat /\ actor[a].node \in FlowNode
      BY <1>7 DEF QueueDelay, Stands, TalkInv, Standing
    <3> QED  BY <3>1 DEF Pause
  <2> QED  BY <1>0, <1>7, <2>1 DEF QueueDelay
<1>8. ASSUME NEW a \in Actor, BreakActor(a)
      PROVE  /\ UNCHANGED <<defaultFlow, byUpdate, pauses, pauseOf, resumed>>
             /\ chatFaults' \in 0..MaxChatFaults /\ attemptsLeft' \in [Token -> 0..MaxJobAttempts]
  <2>1. chatFaults' \in 0..MaxChatFaults
    BY <1>0, <1>1, <1>8 DEF BreakActor
  <2>2. attemptsLeft' \in [Token -> 0..MaxJobAttempts]
    <3>1. CASE a \in Token /\ attemptsLeft[a] > 1
      <4>1. attemptsLeft' = [attemptsLeft EXCEPT ![a] = attemptsLeft[a] - 1]
        BY <1>8, <3>1 DEF BreakActor
      <4>2. attemptsLeft[a] - 1 \in 0..MaxJobAttempts  BY <1>0, <1>1, <3>1
      <4> QED  BY <1>0, <4>1, <4>2
    <3>2. CASE ~(a \in Token /\ attemptsLeft[a] > 1)
      BY <1>0, <1>8, <3>2 DEF BreakActor
    <3> QED  BY <3>1, <3>2
  <2> QED  BY <1>8, <2>1, <2>2 DEF BreakActor
<1>9. ASSUME NEW p \in Token, CheckPause(p) \/ ResumeChat(p)
      PROVE  /\ UNCHANGED <<defaultFlow, byUpdate, pauses, pauseOf, attemptsLeft, chatFaults>>
             /\ resumed' \in [Token -> Nat]
  <2>1. CASE CheckPause(p)  BY <1>0, <2>1 DEF CheckPause
  <2>2. CASE ResumeChat(p)
    <3>1. resumed' = resumed \/ resumed' = [resumed EXCEPT ![p] = resumed[p] + 1]
      BY <2>2 DEF ResumeChat
    <3>2. resumed[p] + 1 \in Nat  BY <1>0
    <3>3. resumed' \in [Token -> Nat]  BY <1>0, <3>1, <3>2
    <3> QED  BY <2>2, <3>3 DEF ResumeChat
  <2> QED  BY <1>9, <2>1, <2>2
<1>10. CASE UNCHANGED chatVars
  BY <1>0, <1>10 DEF chatVars
<1>11. CASE \E i \in Inbound :
             \/ \E keyword \in BOOLEAN : ReceiveText(i, keyword)
             \/ \E choice \in Choice, tapped \in BOOLEAN : ReceiveChoice(i, choice, tapped)
             \/ Choose(i) \/ Advance(i) \/ RestartFlow(i) \/ FindChat(i) \/ ClearChats(i)
             \/ CreateChat(i)
  BY <1>0, <1>2, <1>3, <1>11
<1>12. CASE \E a \in Actor :
             \/ WalkOn(a) \/ RequestFails(a) \/ Decide(a) \/ WaitForAnswer(a) \/ Converse(a)
             \/ PauseChat(a) \/ QueueDelay(a) \/ SendAnswer(a) \/ StaySilent(a) \/ BreakActor(a)
  BY <1>0, <1>4, <1>5, <1>6, <1>7, <1>8, <1>12
<1>13. CASE \E p \in Token : CheckPause(p) \/ ResumeChat(p)
  BY <1>0, <1>9, <1>13
<1> QED  BY <1>10, <1>11, <1>12, <1>13 DEF ChatbotNext

LEMMA TokensAreKept ==
  ASSUME NEW opening \in SUBSET FlowNode, Opens(opening) => TokenInv(opening), TalkInv,
         [ChatbotNext]_chatVars
  PROVE  /\ actor' \in [Actor -> Turn] /\ chat' \in [Chat -> Session]
         /\ Standing' /\ (Opens(opening) => TokenInv(opening)')
<1>2. ASSUME NEW a \in Actor, Turns(opening, a)
      PROVE  /\ actor' \in [Actor -> Turn] /\ chat' \in [Chat -> Session]
             /\ Standing' /\ (Opens(opening) => TokenInv(opening)')
  <2>1. Calm(opening)  BY <1>2 DEF Turns
  <2> QED  BY <1>2, <2>1, TurnsKeepTokens DEF Calm
<1>3. CASE UNCHANGED chatVars
  <2>1. actor \in [Actor -> Turn] /\ chat \in [Chat -> Session]
    BY DEF TalkInv, ChatbotTypeOK, Turn, Stage, Session
  <2> QED  BY <1>3, <2>1 DEF chatVars, TalkInv, Standing, TokenInv, Held
<1>4. ASSUME NEW i \in Inbound,
             \/ \E keyword \in BOOLEAN : ReceiveText(i, keyword)
             \/ \E choice \in Choice, tapped \in BOOLEAN : ReceiveChoice(i, choice, tapped)
             \/ Choose(i) \/ Advance(i) \/ RestartFlow(i) \/ FindChat(i) \/ ClearChats(i)
             \/ CreateChat(i)
      PROVE  i \in Actor /\ Turns(opening, i)
  BY <1>4, MessagesTakeTurns DEF Actor
<1>5. ASSUME NEW a \in Actor,
             \/ WalkOn(a) \/ RequestFails(a) \/ Decide(a) \/ WaitForAnswer(a) \/ Converse(a)
             \/ SendAnswer(a) \/ StaySilent(a) \/ BreakActor(a)
      PROVE  Turns(opening, a)
  BY <1>5, WalkersTakeTurns
<1>6. ASSUME NEW p \in Token, CheckPause(p) \/ ResumeChat(p)
      PROVE  p \in Actor /\ Turns(opening, p)
  BY <1>6, JobsTakeTurns DEF Actor
<1>7. CASE \E i \in Inbound :
             \/ \E keyword \in BOOLEAN : ReceiveText(i, keyword)
             \/ \E choice \in Choice, tapped \in BOOLEAN : ReceiveChoice(i, choice, tapped)
             \/ Choose(i) \/ Advance(i) \/ RestartFlow(i) \/ FindChat(i) \/ ClearChats(i)
             \/ CreateChat(i)
  BY <1>2, <1>4, <1>7
<1>8. CASE \E a \in Actor :
             \/ WalkOn(a) \/ RequestFails(a) \/ Decide(a) \/ WaitForAnswer(a) \/ Converse(a)
             \/ PauseChat(a) \/ QueueDelay(a) \/ SendAnswer(a) \/ StaySilent(a) \/ BreakActor(a)
  BY <1>2, <1>5, <1>8, PauseKeepsTokens, QueueKeepsTokens
<1>9. CASE \E p \in Token : CheckPause(p) \/ ResumeChat(p)
  BY <1>2, <1>6, <1>9
<1> QED  BY <1>3, <1>7, <1>8, <1>9 DEF ChatbotNext

LEMMA ChatbotTyped ==
  ASSUME defaultFlow' \in BOOLEAN, chat' \in [Chat -> Session], byUpdate' \in Seq(Chat),
         actor' \in [Actor -> Turn], pauses' \in 0..MaxPauses, pauseOf' \in [Token -> Pause],
         attemptsLeft' \in [Token -> 0..MaxJobAttempts], resumed' \in [Token -> Nat],
         chatFaults' \in 0..MaxChatFaults
  PROVE  ChatbotTypeOK'
BY Zenon DEF ChatbotTypeOK, Session, Turn, Stage, Pause

LEMMA ChatbotStarts == ChatbotInit => TalkInv /\ \A opening \in SUBSET FlowNode : TokenInv(opening)
<1> SUFFICES ASSUME ChatbotInit
             PROVE  TalkInv /\ \A opening \in SUBSET FlowNode : TokenInv(opening)
  OBVIOUS
<1>1. {MaxChats, MaxPauses, MaxJobAttempts, MaxChatFaults} \subseteq Nat /\ Inbound \cap Token = {}
  BY ChatbotAssumption
<1>2. ChatbotTypeOK
  BY <1>1 DEF ChatbotInit, ChatbotTypeOK
<1>3. \A a \in Actor : actor[a].at = "absent"  BY DEF ChatbotInit
<1>4. \A c \in Chat : ~chat[c].open /\ chat[c].token = 0  BY DEF ChatbotInit
<1>5. Standing
  BY <1>1, <1>3, <1>4 DEF Standing, Actor
<1>6. ASSUME NEW opening \in SUBSET FlowNode PROVE TokenInv(opening)
  <2>1. \A p \in Token : resumed[p] = 0 /\ p \in Actor  BY DEF ChatbotInit, Actor
  <2>2. pauses = 0  BY DEF ChatbotInit
  <2> QED  BY <1>3, <1>4, <2>1, <2>2 DEF TokenInv
<1> QED  BY <1>2, <1>5, <1>6 DEF TalkInv

\* TalkInv holds of any flow, what it says of tokens of a flow with a plain opening.
LEMMA ChatbotGoesOn ==
  ASSUME NEW opening \in SUBSET FlowNode
  PROVE  ChatbotSpec => [](TalkInv /\ (Opens(opening) => TokenInv(opening)))
<1>1. ChatbotInit => TalkInv /\ (Opens(opening) => TokenInv(opening))
  BY ChatbotStarts
<1>2. TalkInv /\ (Opens(opening) => TokenInv(opening)) /\ [ChatbotNext]_chatVars =>
        TalkInv' /\ (Opens(opening) => TokenInv(opening)')
  BY TokensAreKept, ChatbotRestTyped, ChatbotTyped DEF TalkInv
<1>3. (Opens(opening) => TokenInv(opening))' <=> (Opens(opening) => TokenInv(opening)')
  BY DEF Opens
<1> QED  BY <1>1, <1>2, <1>3, PTL DEF ChatbotSpec

\* ResumedOnce: a delay, however its job is retried and whoever starts over, goes on once.
THEOREM ResumesOnce == ChatbotSpec => []ResumedOnce
<1>1. CASE PlainOpening
  <2>1. PICK opening \in SUBSET FlowNode : Opens(opening)
    BY <1>1 DEF PlainOpening
  <2>2. TalkInv /\ (Opens(opening) => TokenInv(opening)) => ResumedOnce
    BY <2>1 DEF TokenInv, ResumedOnce
  <2> QED  BY <2>2, ChatbotGoesOn, PTL
<1>2. CASE ~PlainOpening
  <2>1. ResumedOnce  BY <1>2 DEF ResumedOnce
  <2> QED  BY <2>1, PTL
<1> QED  BY <1>1, <1>2

LEMMA ChatbotTypeCorrect == ChatbotSpec => []ChatbotTypeOK
<1>1. PICK opening \in SUBSET FlowNode : TRUE  OBVIOUS
<1>2. TalkInv /\ (Opens(opening) => TokenInv(opening)) => ChatbotTypeOK  BY DEF TalkInv
<1> QED  BY <1>2, ChatbotGoesOn, PTL
-----------------------------------------------------------------------------
(***************************************************************************)
(* The composition.                                                        *)
(***************************************************************************)
LEMMA PartsStep ==
  [Next]_messagingVars =>
    [SlotsNext]_slotVars /\ [InboxNext]_inboxVars /\ [ChatbotNext]_chatVars
BY DEF Next, messagingVars

\* In the composition every part behaves as its own module specifies.
THEOREM PartsAreThemselves == Spec => SlotsSpec /\ InboxSpec /\ ChatbotSpec
<1>1. Init => SlotsInit /\ InboxInit /\ ChatbotInit
  BY DEF Init
<1> QED
  BY <1>1, PartsStep, PTL DEF Spec, SlotsSpec, InboxSpec, ChatbotSpec

\* While no lease lapses, no more campaigns of an owner run than his limit allows.
THEOREM LimitHolds == Spec => []RunningWithinLimit
BY PartsAreThemselves, LimitIsKept, PTL

\* While nobody deletes a contact, the customer's last STOP or START is what campaigns obey,
\* however often and late Meta delivers his messages.
THEOREM LastWordIsObeyed == Spec => []LastWordHolds
BY PartsAreThemselves, LastWord, PTL

\* Status reports, late, repeated and out of order, leave a row that tells what was reported.
THEOREM ReceiptsAreDecided == Spec => []ReceiptsDecide
BY PartsAreThemselves, ReceiptsAreRight, PTL

\* In a flow that before it first waits only sends and tags, a pause is resumed once, however
\* its job is retried and whatever messages arrive.
THEOREM PausesResumeOnce == Spec => []ResumedOnce
BY PartsAreThemselves, ResumesOnce, PTL

\* The variables of the composition keep their types.
THEOREM MessagingTypeCorrect == Spec => []TypeOK
<1>1. Init => part \in Parts  BY DEF Init
<1>2. part \in Parts /\ [Next]_messagingVars => (part \in Parts)'
  BY DEF Next, messagingVars
<1>3. Spec => [](part \in Parts)  BY <1>1, <1>2, PTL DEF Spec
<1>4. part \in Parts /\ SlotsTypeOK /\ InboxTypeOK /\ ChatbotTypeOK => TypeOK
  BY DEF TypeOK
<1> QED
  BY <1>3, <1>4, PartsAreThemselves, SlotsTypeCorrect, InboxTypeCorrect, ChatbotTypeCorrect, PTL
=============================================================================
