\* Two rows on a queue of concurrency one and a second lane, one result(), a
\* tick that throws, a retry; both modes.
CONSTANTS
  w1 = w1
  w2 = w2
  w3 = w3
  c1 = c1
  WF = {w1, w2}
  NLanes = 2
  LaneOf <- OneQueue
  Cap <- Narrow
  Global = 2
  Client = {c1}
  MaxFails = 1
  MaxRetries = 1
SPECIFICATION FairSpec
INVARIANTS
  LoopInv
  DrainLeavesNothingElse
PROPERTIES
  ReadyRowsRun
  ResultComesBack
CHECK_DEADLOCK FALSE
