SPECIFICATION ReadingsSpec
CONSTANTS
  p1 = p1
  p2 = p2
  Producers = {p1, p2}
  ProducerSlots = 1
  NearGap = 1
  FarGap = 2
  GapSpan = 1
  CountWrap = 8
  Starts = {6}
  ClickLimit <- MCClickLimit
  MaxUp <- MCMaxUp
  MaxAir = 2
  MaxTurns = 1
  StashEvery = 2
  SaveEvery = 3
  Wrap = 6
  LoopLag = 1
  Steps <- MCSteps
  Mishaps = {"pause", "late sync", "failed write", "torn save"}
  ClickMax = 6
  Minutes = 5
  DayLen = 3
  CleanEvery = 3
  SyncMax = 3
  Intervals = {4, 9}
  Far = 6
  Near = 2
  Early = 1
  Nap = 1
  ReplyPoll = 1
  Retry = 2
  Deadline = 6
  Late = 2
  Missed = 3
  MicrosWrap = 6
  Debounce = 2
  Threshold = 1
  Cooldown = 3
  Interval = 2
  Tokens = 2
  Backlog = 5
  PulseMs = 2
  FadeMs = 2
  Bright = 2
  MaxMs = 14
INVARIANTS TypesOK TotalsSurvive RowsSurvive PostsKeepTheirSlot PulsesInAndOut
CHECK_DEADLOCK FALSE
