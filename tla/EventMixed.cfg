\* Two boards, one up to a spill ahead: are events still whole?
CONSTANTS
  Boards = {0, 1}
  Ids = {0, 1}
  Streams <- GoodStreams
  Sizes = {2, 3}
  KeepStep = FALSE
  Severities = {}
  EventIds = 3
  FreshCounts = {0}
  MaxEvents = 1
SPECIFICATION Spec
INVARIANT EventsHoldAllBoards
CHECK_DEADLOCK FALSE
