CONSTANTS
  Prose = {"reasoning", "text"}
  Calls = {"s1", "s2", "t1", "c1", "q1"}
  Searches = {"s1", "s2"}
  Customs = {"c1"}
  Deferred = {"q1"}
  None = None
  ClientRequests <- MCRequests
  Frames <- MCFrames
  MaxRounds = 3
  MaxFrames <- MCMaxFrames
  NoGroup = NoGroup
  WebSearch <- MCWebSearch
  Internal <- MCInternal
  Proper <- MCProper
  ToolRequests <- MCToolRequests
SPECIFICATION RequestedSpec
INVARIANTS ReadsWhatWasSaid EndedIsWhole PartsAgree CallsAreWhole UsageAddsUp OffersWhatItServes ClientCallsAreLast NeverCutShort ToolsComeBack
PROPERTIES KeepsOrder HeldEndIsLast FallbackUnseen
CHECK_DEADLOCK FALSE
