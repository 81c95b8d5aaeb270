CONSTANTS
  Requests = {r1, r2}
  Conversations = {c1}
  Transports = {"json", "sse", "ws"}
  Native = TRUE
  None = None
  MaxLive = 2
SPECIFICATION Spec
INVARIANT ReferencesOfSuccesses
CHECK_DEADLOCK FALSE
