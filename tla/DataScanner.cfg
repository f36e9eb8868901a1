\* One container after the other, each of any content of up to 4 words.
CONSTANT Contents <- SmallContents
SPECIFICATION Spec
INVARIANTS
  TypeOK
  MarksExact
  ReportsExact
\* An empty container stops the worker.
CHECK_DEADLOCK FALSE
