SPECIFICATION TelemetrySpec
CONSTANTS
  Thread = {t1, t2}
  Addr = {a1, a2, a3}
  NoAddr = NoAddr
  LastTag = 2
  Heartbeat = 1
  MaxUpdates = 3
  Tries = 2
SYMMETRY TelemetrySymmetry
INVARIANTS ReadsSurvive OthersCrash WindowReturned SnapshotWithinAnUpdate
CHECK_DEADLOCK FALSE
