CONSTANTS
  fire = fire
  med = med
  e1 = e1
  e2 = e2
  e3 = e3
  e4 = e4
  RescuerType = {fire, med}
  rescuer_types <- TwoTypes
  Emergency = {e1, e2}
  emergencies <- OneAmbulance
  UIntRange = 8
  Limit1 = 3
  Limit2 = 2
  Faults = {}
SPECIFICATION Spec
INVARIANTS
  NoOverAllocation
CHECK_DEADLOCK FALSE
