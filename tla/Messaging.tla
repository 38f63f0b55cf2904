------------------------------ MODULE Messaging ------------------------------
(***************************************************************************)
(* What surrounds the sending of a campaign: the slots that limit how many *)
(* run (module CampaignSlots), and what the webhook does with the customer *)
(* who answers: first the inbox and his preferences (module Inbox), then   *)
(* the chatbot (module Chatbot), which sees each stored message once.      *)
(* None writes what another reads, so a behaviour is one of each,          *)
(* shuffled: `part' names the one whose steps a behaviour shows.           *)
(***************************************************************************)
EXTENDS CampaignSlots, Inbox, Chatbot

CONSTANT Parts  \* the parts a run looks at

VARIABLE part

messagingVars == <<part, slotVars, inboxVars, chatVars>>

TypeOK == part \in Parts /\ SlotsTypeOK /\ InboxTypeOK /\ ChatbotTypeOK

\* A part that is not looked at rests; the inbox with any one of its loads.
Init ==
  /\ part \in Parts
  /\ SlotsInit /\ InboxInit /\ ChatbotInit
  /\ part # "inbox" => inboxLoad = CHOOSE load \in InboxLoads : TRUE
  /\ part # "chatbot" => ~defaultFlow

Next ==
  \/ part = "slots" /\ SlotsNext /\ UNCHANGED <<part, inboxVars, chatVars>>
  \/ part = "inbox" /\ InboxNext /\ UNCHANGED <<part, slotVars, chatVars>>
  \/ part = "chatbot" /\ ChatbotNext /\ UNCHANGED <<part, slotVars, inboxVars>>

Spec == Init /\ [][Next]_messagingVars

\* The slots are fair as their module says, and at rest when they are not looked at.
LiveSpec == Spec /\ SlotsFairness
=============================================================================
