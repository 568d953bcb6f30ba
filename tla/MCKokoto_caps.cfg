\* Four rows, two of them on a queue with a concurrency of one, and a global cap
\* of two.
CONSTANTS
  w1 = w1
  w2 = w2
  w3 = w3
  w4 = w4
  e1 = e1
  e2 = e2
  email = email
  WF = {w1, w2, w3, w4}
  Exec = {e1}
  NoExec = NoExec
  QueueOrder <- OneQueue
  NoQueue = NoQueue
  QueueOf <- HalfEmail
  Concurrency <- OneAtATime
  GlobalConcurrency = 2
  MaxAttempts = 2
  NSteps = 0
  TxSteps = {}
  Registered <- AllKnown
  Wedge = FALSE
SPECIFICATION Spec
INVARIANTS
  ConcurrencyCaps
SYMMETRY SameKind
CHECK_DEADLOCK FALSE
