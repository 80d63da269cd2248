CONSTANTS
  Message = {m1, m2}
  Junk = Junk
  Nothing = Nothing
  InitCapacity = 2
  MaxCapacity = 8
SPECIFICATION DisciplinedSpec
INVARIANTS TypeOK IndexesAgree PendingWereWritten
PROPERTY ImplementsQueue
CHECK_DEADLOCK FALSE
