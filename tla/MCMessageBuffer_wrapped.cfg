CONSTANTS
  Message = {m1, m2}
  Junk = Junk
  Nothing = Nothing
  InitCapacity = 2
  MaxCapacity = 8
SPECIFICATION Spec
INVARIANT PendingWereWritten
CHECK_DEADLOCK FALSE
