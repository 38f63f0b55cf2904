------------------------- MODULE BackgroundServices -------------------------
(***************************************************************************)
(* The background services beside the campaigns and the billing.  They     *)
(* keep their state in tables and queues of their own and never read one   *)
(* another's, so a behaviour of the system is one of each, shuffled: here  *)
(* `service' names the one whose steps a behaviour shows.                  *)
(***************************************************************************)
EXTENDS Reminders, BulkSend, ShopifyMessaging, WabaOnboarding, ContactImport, DatabaseGate,
        AutomationFlows

CONSTANT Services  \* the services a run looks at

VARIABLE service

serviceVars == <<service, reminderVars, bulkVars, shopifyVars, onboardingVars, importVars, gateVars,
                 automationVars>>

TypeOK ==
  /\ service \in Services
  /\ RemindersTypeOK /\ BulkTypeOK /\ ShopifyTypeOK /\ OnboardingTypeOK /\ ImportTypeOK /\ GateTypeOK
  /\ AutomationTypeOK

\* A service that is not looked at rests in one of its initial states.
Resting(name, state) == service # name => state

Init ==
  /\ service \in Services
  /\ RemindersInit /\ BulkInit /\ ShopifyInit /\ OnboardingInit /\ ImportInit /\ GateInit
  /\ AutomationInit
  /\ Resting("reminders", \A r \in Reminder : frequency[r] = "once" /\ reminder[r].next = 1)
  /\ Resting("onboarding", nudges = 0)
  /\ Resting("import", entitlement = 1)
  /\ Resting("automation", runnerFaults = 0)
  /\ (service # "gate") = (inspection = "stopped")

Next ==
  \/ /\ service = "reminders" /\ RemindersNext
     /\ UNCHANGED <<service, bulkVars, shopifyVars, onboardingVars, importVars, gateVars,
                    automationVars>>
  \/ /\ service = "bulk" /\ BulkNext
     /\ UNCHANGED <<service, reminderVars, shopifyVars, onboardingVars, importVars, gateVars,
                    automationVars>>
  \/ /\ service = "shopify" /\ ShopifyNext
     /\ UNCHANGED <<service, reminderVars, bulkVars, onboardingVars, importVars, gateVars,
                    automationVars>>
  \/ /\ service = "onboarding" /\ OnboardingNext
     /\ UNCHANGED <<service, reminderVars, bulkVars, shopifyVars, importVars, gateVars,
                    automationVars>>
  \/ /\ service = "import" /\ ImportNext
     /\ UNCHANGED <<service, reminderVars, bulkVars, shopifyVars, onboardingVars, gateVars,
                    automationVars>>
  \/ /\ service = "gate" /\ GateNext
     /\ UNCHANGED <<service, reminderVars, bulkVars, shopifyVars, onboardingVars, importVars,
                    automationVars>>
  \/ /\ service = "automation" /\ AutomationNext
     /\ UNCHANGED <<service, reminderVars, bulkVars, shopifyVars, onboardingVars, importVars,
                    gateVars>>

Spec == Init /\ [][Next]_serviceVars

\* Each service is fair as its own module says, and at rest when it is not looked at.
LiveSpec == Spec /\ RemindersFairness /\ OnboardingFairness /\ GateFairness
=============================================================================
