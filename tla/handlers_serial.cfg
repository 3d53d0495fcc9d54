CONSTANTS
  fire = fire
  med = med
  e1 = e1
  e2 = e2
  e3 = e3
  e4 = e4
  RescuerType = {fire, med}
  rescuer_types <- TwoTypes
  Emergency = {e1, e2, e3, e4}
  emergencies <- Crossed
  UIntRange = 8
  Limit1 = 3
  Limit2 = 2
  Faults = {"malloc", "arrives_create", "goes_away_create"}
SPECIFICATION SerialSpec
INVARIANTS
  CounterExact
  KeptOnlyByAbort
  ManagedByFullCrew
  NoThreadOutlivesHandler
  InStep
PROPERTIES
  PoolRefinement
  EachThreadOnce
CHECK_DEADLOCK FALSE
