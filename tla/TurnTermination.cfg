CONSTANTS
  Requests = {r1, r2}
  Conversations = {c1}
  Transports = {"json", "sse", "ws"}
  Native = FALSE
  None = None
  MaxLive = 2
SPECIFICATION FairSpec
PROPERTY EveryTurnEnds
CHECK_DEADLOCK FALSE
