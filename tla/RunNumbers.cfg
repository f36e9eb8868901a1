\* Four devices, and the errors after which the machine ends or is as it was.
\* The others have runs of their own.  Up to three runs, over any number of
\* starts of the program.
CONSTANTS
  NDevices = 4
  LoadErrors = {"FATAL"}
  ReloadErrors = {"SERIOUS"}
  InitErrors = {"FATAL"}
  StopErrors = {"FATAL"}
  SamePath = TRUE
  MaxRuns = 3
SPECIFICATION NumbersSpec
INVARIANTS
  RunNumbersFresh
  ReadsOnlyInActive
  DevicesReady
  ClosedAtEnd
