CONSTANTS
  t1 = t1  h1 = h1  c1 = c1
  o1 = o1  m1 = m1  m2 = m2  v1 = v1  s1 = s1
  x1 = x1  x2 = x2  a1 = a1  k1 = k1  k2 = k2  g1 = g1
  Opening = 2
  Grant = {g1}
  GrantAmount = 1
  Workloads <- OneTopup
  Topup = {t1}
  Amount = 2
  Hook = {h1}
  Check = {c1}
  NoTopup = NoTopup
  NoEvent = NoEvent
  Purchase = {o1}
  Manual = {m1, m2}
  Call = {v1}
  Sweeper = {s1}
  Extension = {x1, x2}
  Addon = {a1}
  Edit = {k1, k2}
  Fees = {1, 2}
  AddonFee = 1
  Days = {10, 15, 20}
  FreeDays = 10
  MaxDays = 30
  NoPlan = NoPlan
  NoFee = NoFee
  Free = Free
  Due = Due
  Unscheduled = Unscheduled
\* Every request is answered and every payment settled in the end.
CHECK_DEADLOCK FALSE
SPECIFICATION Spec
INVARIANT AcknowledgedRefundIsDebited
