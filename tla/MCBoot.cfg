SPECIFICATION BootSpec
CONSTANTS
  Firmwares = {f1, f2}
  NoDump = NoDump
  CrashesToSafeMode = 3
  StreakMax = 4
  RetriesMax = 3
  RetryShiftMax = 2
  SetupMax = 1
  Day = 6
  home = home
  away = away
  wrong = wrong
  none = none
  torn = torn
  dhcp = dhcp
  fixed = fixed
  bad = bad
  Freqs = {1, 2}
  MaxDuty = 2
  TrimMax = 1
  TripAfter = 1
  SlowEvery = 2
  Restarts = 1
  MaxSaves = 1
  MaxStalls = 2
  MaxHolds = 1
INVARIANTS TypesOK SafeIsEarned CrashLoopIsGuarded SafeBootIsShort BackoffGrows VoltageIsSafe
PROPERTIES NetworkIsKept ComesBack
