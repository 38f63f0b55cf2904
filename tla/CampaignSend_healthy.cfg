\* A lock held while its worker lives, crashes, chunks of two rows in parallel,
\* a batch of one row left for the next round, a test send to a recipient, and
\* message history that is deleted.
CONSTANTS
  w1 = w1  w2 = w2  t1 = t1  r1 = r1  r2 = r2  p1 = p1  p2 = p2
  Worker = {w1, w2}
  Tester = {t1}
  Row = {r1, r2}
  Phone = {p1, p2}
  phoneOf <- OwnPhones
  testPhone <- TestToFirst
  NoRow = NoRow
  NoOwner = NoOwner
  NoMessage = NoMessage
  BatchSize = 2
  MessageConcurrency = 2
  LeaseCanLapse = FALSE
  CleanupRuns = TRUE
SYMMETRY WorkerSymmetry
SPECIFICATION Spec
INVARIANT CountersWithinOutcomes
PROPERTIES SentIsFinal
