SPECIFICATION NetSpec
CONSTANTS
  h1 = h1
  h2 = h2
  ota_module = ota_module
  Hosts = {h1, h2}
  Replies <- MCReplies
  Redirects = 1
  Timeout = 1
  Deadline = 2
INVARIANTS TypesOK RepliesAreHonest
PROPERTIES CallsEndOnce StationIsKept BrokerHearsUs AllGivenBack LoopIsFair
CHECK_DEADLOCK FALSE
