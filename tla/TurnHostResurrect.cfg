\* A running turn stores its memory after the delete call has answered.
SPECIFICATION Spec
CONSTANTS
  t1 = t1
  t2 = t2
  t3 = t3
  c1 = c1
  c2 = c2
  NoTurn = NoTurn
  NoConv = NoConv
  Turns = {t1, t2}
  Convs = {c1}
  ConvOf <- MCOneConv
  Streaming = {t1}
  Impatient = {}
  Stoppers = {}
  Deleters = {d1}
  PoolSize = 2
  WindowSize = 3
  Faulty = FALSE
  MaxCrashes = 0
INVARIANTS
  DeletedStaysGone
\* Every run ends when its finite set of turns and calls is used up.
CHECK_DEADLOCK FALSE
