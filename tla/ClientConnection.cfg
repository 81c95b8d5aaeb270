CONSTANTS
  Texts <- MCTexts
  MaxFrame = 6
  Items = {1, 2}
  MaxItemBytes = 5
  MaxStreamBytes = 6
SPECIFICATION FairSpec
INVARIANTS NothingLost HeartbeatBounded EventsAsSent LimitsExact EndIsTheUpstreams NothingLeftBehind
PROPERTY HandlerReturns
CHECK_DEADLOCK FALSE
