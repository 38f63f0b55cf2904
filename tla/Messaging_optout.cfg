\* One command and one deletion of the contact: the deleted record no longer suppresses.
SPECIFICATION Spec
CONSTANTS
  Parts = {"inbox"}
  SlotCampaign = {c1}
  SlotExec = {e1}
  MaxRunning = 1
  MaxSlotLapses = 0
  Free = Free
  Notice = {q1}
  CampaignSends = {k1}
  MaxCommands = 1
  MaxContacts = 2
  MaxSeconds = 1
  MaxInboxFaults = 0
  InboxLoads <- Deletion
  FlowNode <- Graph
  Kind <- Kinds
  Following <- Edges
  Options <- Choices
  StartNode = "hello"
  NoNode = "none"
  Inbound = {m1}
  MaxChats = 1
  MaxPauses = 1
  MaxJobAttempts = 1
  MaxChatFaults = 0
INVARIANT SuppressedIsNotSent
CHECK_DEADLOCK FALSE
