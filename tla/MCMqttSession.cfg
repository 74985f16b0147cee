SPECIFICATION FairSpec
CONSTANTS
  Qos <- MCQos
  InQos <- MCInQos
  Room = 3
  Reserve = 1
  IdMax = 2
  Q2Max = 2
  Asks = 1
  Breaks = 2
INVARIANTS OutboxIsSound ExactlyOnce
PROPERTIES Delivers EveryoneIsTold
CHECK_DEADLOCK FALSE
