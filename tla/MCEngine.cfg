CONSTANTS
  Part = {"channels", "lines", "edges", "timers", "watches"}
  Machine = {"rx", "tx", "boss"}
  Timers <- TimersOf
  Intrs <- IntrsOf
  HasData = {"rx", "tx"}
  HasFsys = {"boss"}
  MaxFd = 7
  Timer = {t1}
  Intr = {"s1", "s2", "s3"}
  Signum <- Signals
  Intervals <- Units
  MaxEvents = 2
  Path = {p1, p2}
  File = {f1, f2}
  None = None
  Null = None
  Line <- TextLines
  Hooks <- Enters
  Handlers <- Acts
  MaxLines = 6
  Junk = Junk
  Nwatches = 2
  Growth = 1
  BufSize = 3
  Sizes <- EventSizes
  MaxQueued = 2
  MaxWd = 3
  MaxHappened = 3
SPECIFICATION Spec
INVARIANTS TypeOK KernelAgrees MachineMeansText MadeIffWellFormed HeartbeatKeepsPhase TableIsSound EventsInOrder
PROPERTIES TimeoutIsDue ReadsSucceed ReadsAreSound
SYMMETRY Alike
CHECK_DEADLOCK FALSE
