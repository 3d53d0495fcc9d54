CONSTANTS
  med = med
  m1 = m1
  m2 = m2
  Message = {m1, m2}
  Valid = {m1, m2}
  MaxMessages = 1
  Interrupts = TRUE
  CreateFails = TRUE
  RescuerType = {med}
  rescuer_types <- OneBase
  emergencies <- Asked
  UIntRange = 8
  Limit1 = 1
  Limit2 = 1
  Faults = {}
SPECIFICATION FairSpec
PROPERTIES
  OnlyHandlersRemain
  AcceptedIsClosed
  CleanupEnds
CHECK_DEADLOCK FALSE
