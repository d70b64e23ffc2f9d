CONSTANTS
  Devices = {d1, d2}
  Polls = {p1, p2}
  None = None
  MaxWorkers = 2
  BatchSize = 1
  Requested = {}
  MayStop = FALSE
  SaveMayFail = FALSE
SPECIFICATION APFairSpec
PROPERTIES QuietNoOverlap QuietPolledAgain
