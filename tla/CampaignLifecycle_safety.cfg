\* Two worker slots, two recipients, one request of the owner, and one fault: a
\* job that stalls under a live worker, a crash, a failed or deferred execution.  Or the
\* start of the campaign while a worker whose job stalled goes on without its lock.
CONSTANTS
  e1 = e1  e2 = e2  c1 = c1  c2 = c2
  Exec = {e1, e2}
  Client = {c1, c2}
  Asks <- AnyOrStart
  Scheduler = Scheduler
  Creator = Creator
  NoExec = NoExec
  Recipients = 2
  MaxFaults = 2
  Workloads <- OneOrLapses
  FaultKinds = {"stall", "defer", "failure", "crash", "lapse"}
SYMMETRY ExecSymmetry
SPECIFICATION Spec
INVARIANTS CompletedMeansProcessed OneExecution
