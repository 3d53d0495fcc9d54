CONSTANTS
  low = low
  mid = mid
  mid2 = mid2
  high = high
  bad = bad
  Message = {low}
  Valid = {low}
  PriorityOf <- Priorities
  MaxMessages = 2
  Interrupts = TRUE
  CreateFails = FALSE
SPECIFICATION FairSpec
PROPERTIES
  StopEndsDispatcher
CHECK_DEADLOCK FALSE
