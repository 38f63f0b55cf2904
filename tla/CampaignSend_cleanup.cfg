\* One worker, one test send, and message history that is cleaned up while the
\* campaign still has a recipient to send.
CONSTANTS
  w1 = w1  w2 = w2  t1 = t1  r1 = r1  r2 = r2  p1 = p1  p2 = p2
  Worker = {w1}
  Tester = {t1}
  Row = {r1}
  Phone = {p1}
  phoneOf <- OnePhone
  testPhone <- TestToFirst
  NoRow = NoRow
  NoOwner = NoOwner
  NoMessage = NoMessage
  BatchSize = 1
  MessageConcurrency = 1
  LeaseCanLapse = FALSE
  CleanupRuns = TRUE
SPECIFICATION Spec
INVARIANT AtMostOneCallPerRecipient
