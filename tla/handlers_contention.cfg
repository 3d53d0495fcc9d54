CONSTANTS
  fire = fire
  med = med
  e1 = e1
  e2 = e2
  e3 = e3
  e4 = e4
  RescuerType = {fire, med}
  rescuer_types <- TwoTypes
  Emergency = {e1, e2}
  emergencies <- Contention
  UIntRange = 8
  Limit1 = 3
  Limit2 = 2
  Faults = {}
SPECIFICATION FairSpec
INVARIANTS
  TypeOK
  CrewCounted
  AwayIsHeld
  NoHoldAndWait
  MutexHeld
PROPERTIES
  MissionRefinement
  WrongOnlyByLostUpdate
  CrewComesHome
CHECK_DEADLOCK FALSE
