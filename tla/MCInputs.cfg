SPECIFICATION InputsSpec
CONSTANTS
  c1 = c1
  c2 = c2
  Clients = {c1, c2}
  Asks <- MCAsks
  Slots = 2
  MaxInFlight = 2
  Parts = 1
  Window = 1
  MaxConns = 2
  MaxSent = 2
  RxWindow = 2
  Hour = 4
  Day = 8
  ReadEvery = 3
  StepS = 2
  StartTimes = {22}
  Moves <- MCMoves
  MaxTime = 31
  MaxClicks = 3
  MaxOwed = 2
  MaxReplies = 2
INVARIANTS TypesOK FreedOnce StreamsAreRead
PROPERTIES BodiesAreWhole HoursAreRight
CHECK_DEADLOCK FALSE
