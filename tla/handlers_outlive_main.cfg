CONSTANTS
  med = med
  m1 = m1
  m2 = m2
  Message = {m1}
  Valid = {m1}
  MaxMessages = 1
  Interrupts = TRUE
  CreateFails = FALSE
  RescuerType = {med}
  rescuer_types <- OneBase
  emergencies <- Asked
  UIntRange = 8
  Limit1 = 1
  Limit2 = 1
  Faults = {}
SPECIFICATION Spec
INVARIANTS
  HandlersEndBeforeFree
CHECK_DEADLOCK FALSE
