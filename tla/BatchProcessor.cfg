CONSTANTS
  s1 = s1
  s2 = s2
  r1 = r1
  r2 = r2
  Sources = {s1, s2}
  Readers = {r1, r2}
  ReaderSource <- MCTwoSources
  Events = {e1, e2}
  Flushers = {f1}
  MaxBatchSize = 2
  NoSource = NoSource
SPECIFICATION FairSpec
INVARIANTS AtMostOnce NoSilentLoss
PROPERTIES EventuallyProcessed StopReturns Delivery
