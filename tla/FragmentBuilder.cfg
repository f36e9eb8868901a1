\* One builder, every garbage stream of up to 5 words and every stream of up
\* to 3 pieces, cut into containers of 1 to 4 words in every way.
CONSTANTS
  Board = 1
  Boards = {0, 1}
  Streams <- SmallStreams
  MaxChunk = 4
SPECIFICATION Spec
INVARIANTS
  TypeOK
  CutIndependent
  FragmentsGenuine
  NoHeaderLost
  NoFalseAlarm
\* The stream ends, and a builder that has thrown is not called again.
CHECK_DEADLOCK FALSE
