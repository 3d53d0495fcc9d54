CONSTANTS
  Unset = Unset
  Name <- Names
  RescuerFiles <- Rescues
  TypeFiles <- TypeConfigs
  EnvFiles <- EnvConfigs
  MaxRescuers = 2
  MaxTypes = 2
  MaxRequests = 2
SPECIFICATION Spec
INVARIANTS
  TypeOK
  RescuersAsListed
  TypesAsListed
  LoadedIsUsable
  OverrunOnlyPastLimits
  EveryLineLogged
  EnvAsListed
CHECK_DEADLOCK FALSE
