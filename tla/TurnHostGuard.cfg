\* Three turns race for the guard of one conversation while a stop call arrives and clients give up; a thread for every turn.
SPECIFICATION Spec
CONSTANTS
  t1 = t1
  t2 = t2
  t3 = t3
  c1 = c1
  c2 = c2
  NoTurn = NoTurn
  NoConv = NoConv
  Turns = {t1, t2, t3}
  Convs = {c1}
  ConvOf <- MCOneConv
  Streaming = {t1, t2, t3}
  Impatient = {t1, t2, t3}
  Stoppers = {s1}
  Deleters = {}
  PoolSize = 3
  WindowSize = 3
  Faulty = FALSE
  MaxCrashes = 0
SYMMETRY MCTurnSymmetry
INVARIANTS
  MutualExclusion
  NoStaleCancel
  RunRowClosed
  AbandonedTurnRecorded
PROPERTIES
  StopMarkKept
\* Every run ends when its finite set of turns and calls is used up.
CHECK_DEADLOCK FALSE
