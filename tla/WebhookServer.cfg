SPECIFICATION Spec
CONSTANTS
  s1 = s1
  s2 = s2
  r1 = r1
  r2 = r2
  r3 = r3
  in = in
  inport = inport
  proxy = proxy
  None = None
  Requests = {r1, r2, r3}
  Kinds <- MCKinds
  Sources = {s1, s2}
  Config <- MCConfig
  Environments <- MCEnvironments
  Longer <- MCLonger
  Capacity = 1
  MaxTokens = 2
  RefillSeconds = 2
  Grain = 2
  EntryTTL = 2
  MaxTime = 3
INVARIANTS RateHeld Authorised AnswersTrue
SYMMETRY Symmetry
CHECK_DEADLOCK FALSE
