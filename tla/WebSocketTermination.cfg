CONSTANTS
  Streams = {s1, s2}
  Default = default
  Conversations = {c1}
  None = None
  MaxStreams = 1
  MaxPendingRequests = 2
  BodyLimitBytes = 3
  HistoryLimitBytes = 1
  MessageBytes = {1, 2}
  HistoryBytes = {1, 2}
  MaxRequests = 2
SPECIFICATION FairSpec
INVARIANT LeasesFollowRequests
PROPERTY EverySlotReturns
