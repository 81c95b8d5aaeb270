CONSTANTS
  Prose = {"reasoning", "text"}
  Calls = {"s1", "s2", "t1", "c1", "q1"}
  Searches = {"s1", "s2"}
  Customs = {"c1"}
  Deferred = {"q1"}
  None = None
  ClientRequests <- MCRequests
  Frames <- MCFrames
  MaxRounds = 3
  MaxFrames <- MCMaxFrames
SPECIFICATION Spec

PROPERTIES MessageStopIsLast
CHECK_DEADLOCK FALSE
