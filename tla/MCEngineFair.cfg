CONSTANTS
  Timer = {"T0", "T1"}
  Intr = {"S0", "S1", "F"}
  Signum <- Signals
  Intervals <- Units
  MaxEvents = 5
  Tick = 2
  Timeout = 7
  FileEvent = 0
  Path = {p1}
  File = {f1, f2}
  None = None
  Junk = Junk
SPECIFICATION EngineSpec
PROPERTIES HeartbeatGoesOn TestEndsInTime EventsAreRead
CHECK_DEADLOCK FALSE
