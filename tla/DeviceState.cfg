CONSTANTS
  OfflineAfterFails = 3
  DefaultBackoff = 15
  BackoffInitial = 60
  BackoffMax = 240
  BackoffMultiplier = 2
  ActiveLoad = 50
  LoadDelta = 5
  AlarmDuration = 2
  ActiveWindow = 3
  Loads <- CheckedLoads
  SaveMayFail = TRUE
  MayRestart = TRUE
SPECIFICATION Spec
INVARIANT StatusSound
PROPERTY StaysInAlarm
