SPECIFICATION TcpSpec
CONSTANTS
  MaxConns = 1
  MaxSent = 1
  RxWindow = 1
INVARIANT ClosesItToo
CHECK_DEADLOCK FALSE
