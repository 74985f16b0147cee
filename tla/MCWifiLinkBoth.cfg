SPECIFICATION Spec
CONSTANTS
  home = home
  away = away
  wrong = wrong
  dhcp = dhcp
  fixed = fixed
  bad = bad
  Creds = {home, away, wrong}
  None = none
  Torn = torn
  Addresses = {dhcp, fixed, bad}
  Dhcp = dhcp
  Networks = {home, away}
  Reaches <- MCReaches
  Uses <- MCBoth
  StableAfter = 1
  PortalRetry = 2
  DownMax = 3
  Late = 0
INVARIANTS NotStranded
