\* Two requests and no fault: one may stop the campaign (pause, delete) and one may
\* start it (again) at any moment.  Or two faults and no request: a late worker and a
\* lapsed lock among them; the last recipient may be claimed after the campaign was
\* marked failed, and nobody but the scheduler repairs anything.
CONSTANTS
  e1 = e1  e2 = e2  c1 = c1  c2 = c2
  Exec = {e1}
  Client = {c1, c2}
  Asks <- StopAndStart
  Scheduler = Scheduler
  Creator = Creator
  NoExec = NoExec
  Recipients = 1
  MaxFaults = 2
  Workloads <- ClientsOrFaults
  FaultKinds = {"defer", "failure", "crash", "stall", "lapse"}
SPECIFICATION LiveSpec
PROPERTIES EventuallyStops ExhaustedIsFinalized
