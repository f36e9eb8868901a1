\* A SERIOUS error at the start, then Off and On.
CONSTANTS
  NDevices = 2
  LoadErrors = {}
  ReloadErrors = {}
  InitErrors = {"SERIOUS"}
  StopErrors = {}
SPECIFICATION Spec
INVARIANT DevicesReady
\* The program ends.
CHECK_DEADLOCK FALSE
