SPECIFICATION Spec
CONSTANTS
  HealthEvery = 2
  MaxIds = 2
  MaxTurns = 2
PROPERTY ForgetReachesTheServer
CHECK_DEADLOCK FALSE
