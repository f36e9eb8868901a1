\* Three devices, every error the callbacks handle, and the commands of the
\* local and of the remote control.
CONSTANTS
  NDevices = 3
  LoadErrors = {"SERIOUS", "FATAL"}
  ReloadErrors = {"SERIOUS", "FATAL"}
  InitErrors = {"SERIOUS", "FATAL"}
  StopErrors = {"SERIOUS", "FATAL"}
  Programs = {"local", "remote"}
  MaxPresses = 4
SPECIFICATION FairControlSpec
INVARIANTS
  TypeOK
  CrewMatchesState
  StopOffQuiets
PROPERTIES
  Settles
  CommandsServed
  ExitEnds
\* The program ends.
CHECK_DEADLOCK FALSE
