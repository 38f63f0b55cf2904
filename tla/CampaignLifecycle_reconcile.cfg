\* One fault, one request of the owner between two reads of the reconciliation.
CONSTANTS
  e1 = e1  e2 = e2  c1 = c1  c2 = c2
  Exec = {e1}
  Client = {c1}
  Asks <- AnyRequest
  Scheduler = Scheduler
  Creator = Creator
  NoExec = NoExec
  Recipients = 1
  MaxFaults = 1
  Workloads <- Everything
  FaultKinds = {"defer", "failure", "crash"}
SPECIFICATION Spec
PROPERTIES RestartIsPreserved
