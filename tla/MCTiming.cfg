SPECIFICATION TimingSpec
CONSTANTS
  ota_module = ota_module
  uploader = uploader
  led = led
  buzzer = buzzer
  relay = relay
  left = left
  right = right
  none = none
  Slots <- MCTwoSlots
  LoopInterval <- MCTwoLoopInterval
  HasLoop = {ota_module, uploader}
  Needs <- MCTwoNeeds
  DuringOta = {ota_module}
  Core = {ota_module}
  Asked <- MCAsked
  Half = 7
  MaxInterval = 2
  RetryMax = 1
  WakeMax = 1
  Stall = 1
  Away = 0
  LoopPins = {led, buzzer}
  InterruptPins = {relay}
  NoPin = none
  SoftMax = 2
  Bits = 4
  Wrap = 48
  Periods = {6, 12}
  Scale = 4
  Duties = {1, 4}
  MinOff = 2
  Lead = 1
  Spin = 2
  Idle = 5
  MaxLate = 7
  MaxSettings = 2
  MaxPosts = 3
  Pins = {left, right}
  None = none
  Debounce = 2
  Long = 4
  MaxPolls = 9
  MaxSets = 2
INVARIANTS TypesOK NoLostRequest WakesInTime QuarantineHolds CommandsAreAnswered PressesAreTold
PROPERTIES NeverEarly WalkIsComplete PulsesAreWhole
CHECK_DEADLOCK FALSE
