SPECIFICATION Spec
CONSTANTS
  Keep = 4
  MaxRuns = 4
PROPERTIES
  OwnBackupKept
CHECK_DEADLOCK FALSE
