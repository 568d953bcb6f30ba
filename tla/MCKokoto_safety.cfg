\* One row of two steps, the second a txStep, through two boots with crashes,
\* cancels, two attempts and faults; the leases of live dispatchers hold.
CONSTANTS
  w1 = w1
  w2 = w2
  w3 = w3
  w4 = w4
  e1 = e1
  e2 = e2
  email = email
  WF = {w1}
  Exec = {e1, e2}
  NoExec = NoExec
  QueueOrder <- OneQueue
  NoQueue = NoQueue
  QueueOf <- AllEmail
  Concurrency <- OneAtATime
  GlobalConcurrency = 2
  MaxAttempts = 2
  NSteps = 2
  TxSteps = {2}
  Registered <- AllKnown
  Wedge = FALSE
SPECIFICATION FairSpec
INVARIANTS
  SingleWorker
  TxExactlyOnce
  CancelStopsSteps
  AttemptsBounded
PROPERTIES
  NoClaimAfterStop
  KeepsPromise
  Settles
CHECK_DEADLOCK FALSE
