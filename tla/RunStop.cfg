\* A device that cannot be stopped.
CONSTANTS
  NDevices = 2
  LoadErrors = {}
  ReloadErrors = {}
  InitErrors = {}
  StopErrors = {"SERIOUS"}
SPECIFICATION Spec
INVARIANT ReadsOnlyInActive
\* The program ends.
CHECK_DEADLOCK FALSE
