\* Two boards that keep step, two runs, a recorder that may fail.
CONSTANTS
  Boards = {0, 1}
  Ids = {0, 1, 2}
  Streams <- MoreStreams
  Sizes = {2, 3}
  KeepStep = TRUE
  Severities = {"SERIOUS", "FATAL"}
  EventIds = 3
  FreshCounts = {0}
  MaxEvents = 3
SPECIFICATION Spec
INVARIANTS
  TypeOK
  SpillsKept
  EventsWellCounted
  EventIdsFresh
  EventIsOneSpill
PROPERTY GathersSpills
\* The process may crash, and the number of runs is bounded.
CHECK_DEADLOCK FALSE
