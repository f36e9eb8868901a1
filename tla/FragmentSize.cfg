\* The size in the header of the bank, at every return of process().
CONSTANTS
  Board = 1
  Boards = {1}
  Streams <- SmallStreams
  MaxChunk = 2
SPECIFICATION Spec
INVARIANT HeaderSizeIsSize
CHECK_DEADLOCK FALSE
