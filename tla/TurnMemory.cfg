CONSTANTS
  Requests = {r1, r2, r3}
  Conversations = {c1}
  Transports = {"json", "sse", "ws"}
  Native = TRUE
  None = None
  MaxLive = 2
SYMMETRY Symmetry
VIEW Visible
SPECIFICATION Spec
INVARIANTS HistoryWhole WholeOrNothing LeaseFollowsTurn
CHECK_DEADLOCK FALSE
