CONSTANTS
  Devices = {d1}
  Polls = {p1, p2}
  None = None
  MaxWorkers = 2
  BatchSize = 1
  Requested = {d1}
  MayStop = TRUE
  SaveMayFail = FALSE
SPECIFICATION APSpec
INVARIANTS AtMostOneJob ActiveEntryLive KnownDevicePending
