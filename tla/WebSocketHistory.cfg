CONSTANTS
  Streams = {s1}
  Default = default
  Conversations = {}
  None = None
  MaxStreams = 1
  MaxPendingRequests = 2
  BodyLimitBytes = 3
  HistoryLimitBytes = 2
  MessageBytes = {1, 2}
  HistoryBytes = {1, 2, 3}
  MaxRequests = 3
SPECIFICATION Spec
INVARIANTS CountersExact HistoryIsCurrent LanesInOrder
PROPERTY FailureStaysInLane
VIEW Visible
