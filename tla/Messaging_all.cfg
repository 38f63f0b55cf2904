SPECIFICATION LiveSpec
CONSTANTS
  Parts = {"slots", "inbox", "chatbot"}
  SlotCampaign = {c1, c2}
  SlotExec = {e1, e2}
  MaxRunning = 1
  MaxSlotLapses = 1
  Free = Free
  Notice = {q1, q2}
  CampaignSends = {k1}
  MaxCommands = 2
  MaxContacts = 2
  MaxSeconds = 3
  MaxInboxFaults = 1
  InboxLoads <- Loads
  FlowNode <- Graph
  Kind <- Kinds
  Following <- Edges
  Options <- Choices
  StartNode = "hello"
  NoNode = "none"
  Inbound = {m1, m2, m3}
  MaxChats = 2
  MaxPauses = 2
  MaxJobAttempts = 2
  MaxChatFaults = 1
INVARIANTS TypeOK RunningWithinLimit LastWordHolds ReceiptsDecide ResumedOnce
PROPERTY OverLimitIsRepaired
CHECK_DEADLOCK FALSE
