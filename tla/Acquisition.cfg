\* Two devices with three boards between them that share three containers;
\* a feed of good spills, one with a silent board and one with a corrupt spill;
\* every error.
CONSTANTS
  Devices = {"d1", "d2"}
  Containers = {c1, c2, c3}
  MaxSize = 3
  MaxReads = 4
  Boards = {0, 1, 2}
  Ids = {0, 1, 2}
  Streams <- SomeStreams
  Sizes = {2, 3, 4, 5}
  KeepStep = FALSE
  Severities = {"SERIOUS", "FATAL"}
  EventIds = 3
  FreshCounts = {0}
  Feeds <- SomeFeeds
  MaxEvents = 1
SPECIFICATION FairAcqSpec
INVARIANTS
  PipelineTypeOK
  EachContainerOnce
  NoPushWaits
  MarksFresh
  OrderKept
  SpillsKept
  EventsWellCounted
PROPERTIES
  EveryReadBuilt
  BuildsEvents
  EverySpillWritten
