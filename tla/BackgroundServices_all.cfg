SPECIFICATION LiveSpec
CONSTANTS
  Services = {"reminders", "bulk", "shopify", "onboarding", "import", "gate", "automation"}
  Reminder = {r1}
  MaxAttempts = 2
  MaxTime = 2
  Year = 1
  MaxInterrupts = 1
  Callback = {b1}
  Status = {"failed"}
  Never = Never
  Nothing = Nothing
  Total = 4
  BatchSize = 2
  MaxParallel = 2
  Worker = {w1, w2}
  MaxTroubles = 3
  OrderEvent = {d1, d2, d3}
  Consented = {d1, d2}
  ShopScheduler = {s1, s2}
  MaxRevisions = 2
  MaxReconnects = 1
  MaxShopFaults = 1
  Nobody = Nobody
  Signups = 2
  OnboardWorker = {w1, w2}
  MaxSetupAttempts = 2
  MaxNudges = 1
  MaxLeaseFaults = 1
  SignupLoads <- Loads
  Unleased = Unleased
  Rows = 2
  Phones = 3
  Limit = 1
  Execution = {e1, e2}
  Creator = {a1}
  MaxStarts = 2
  MaxImportFaults = 1
  MaxErrors = 1
  NoHolder = NoHolder
  MaxActive = 2
  MaxOutages = 2
  MaxReceipts = 2
  Request = {q1}
  Script <- Scripts
  Runner = {w1, w2}
  FlowLoads <- FlowWork
  NoFlowRun = NoFlowRun
INVARIANTS TypeOK OccurrenceUntaken FailureDecides BulkSendsOnce OrderSentOnce NothingAfterErasure RegisterOnce PlanLimitHolds ImportKeepsItsWord WrittenOnce SettledRunsAreCertain
PROPERTIES ClaimsAreSettled OnboardingRests WorkerResumes
CHECK_DEADLOCK FALSE
