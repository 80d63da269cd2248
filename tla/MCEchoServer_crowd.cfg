CONSTANTS
  r1 = r1 r2 = r2 r3 = r3 r4 = r4
  t1 = t1 t2 = t2 t3 = t3
  w1 = w1 w2 = w2 w3 = w3 w4 = w4 w5 = w5
  Rx = {r1, r2, r3}
  Tx = {t1, t2, t3}
  Worker = {w1, w2, w3}
  StartRx <- OneRx
  StartTx <- TwoTx
  StartWorker <- OneWorker
  CapDelta <- CapDeltaOne
  poolman = poolman
  manager = manager
  listener = listener
  Client = {c1, c2}
  NULL = NULL
  MaxEvents = 2
  Signals = {}
  MaxSends = 1
SPECIFICATION Spec
INVARIANTS NoMessageDropped PooledIffQuiet FdExclusive ClientHasOneHolder QueueBound
PROPERTY ImplementsEchoService
SYMMETRY ClientSymmetry
