\* Two workers whose locks may lapse and two rows with one number: the claim and
\* the outbound row have to hold where the lock does not.
CONSTANTS
  w1 = w1  w2 = w2  t1 = t1  r1 = r1  r2 = r2  p1 = p1  p2 = p2
  Worker = {w1, w2}
  Tester = {}
  Row = {r1, r2}
  Phone = {p1}
  phoneOf <- SharedPhone
  testPhone <- TestToFirst
  NoRow = NoRow
  NoOwner = NoOwner
  NoMessage = NoMessage
  BatchSize = 2
  MessageConcurrency = 1
  LeaseCanLapse = TRUE
  CleanupRuns = FALSE
SYMMETRY WorkerAndRowSymmetry
SPECIFICATION Spec
INVARIANTS AtMostOneCallPerRecipient SentMeansAccepted
PROPERTY ImplementsAtMostOnceDelivery
