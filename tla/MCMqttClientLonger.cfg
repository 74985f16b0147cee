SPECIFICATION Spec
CONSTANTS
  Configs <- MCConfigs
  Room = 4
  HassRoom = 2
  Rows = 1
  MaxTurns = 2
PROPERTY Connects
CHECK_DEADLOCK FALSE
