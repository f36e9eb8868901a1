\* A container of a board that is not in the configuration.
CONSTANTS
  Boards = {0, 1}
  Ids = {0, 1, 2}
  Streams <- GoodStreams
  Sizes = {2, 3}
  KeepStep = TRUE
  Severities = {}
  EventIds = 3
  FreshCounts = {0}
  MaxEvents = 1
SPECIFICATION Spec
INVARIANT StrangerReported
CHECK_DEADLOCK FALSE
