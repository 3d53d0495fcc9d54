CONSTANTS
  low = low
  mid = mid
  mid2 = mid2
  high = high
  bad = bad
  Message = {mid, mid2, high, bad}
  Valid = {mid, mid2, high}
  PriorityOf <- Priorities
  MaxMessages = 2
  Interrupts = TRUE
  CreateFails = TRUE
SPECIFICATION FairSpec
INVARIANTS
  TypeOK
  QueueOrdered
  NeverSleepsOnWork
  ExactlyOnePlace
  LosesAtMostOne
PROPERTIES
  QueueRefinement
  QueuedIsServed
  AcceptedIsServed
CHECK_DEADLOCK FALSE
