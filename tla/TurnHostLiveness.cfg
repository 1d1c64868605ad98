\* Two conversations share a pool smaller than the number of requests; one client gives up.
SPECIFICATION FairSpec
CONSTANTS
  t1 = t1
  t2 = t2
  t3 = t3
  c1 = c1
  c2 = c2
  NoTurn = NoTurn
  NoConv = NoConv
  Turns = {t1, t2, t3}
  Convs = {c1, c2}
  ConvOf <- MCTwoConvs
  Streaming = {t1, t3}
  Impatient = {t2}
  Stoppers = {}
  Deleters = {}
  PoolSize = 2
  WindowSize = 3
  Faulty = FALSE
  MaxCrashes = 0
PROPERTIES
  EveryTurnEnds
  SerialSpec
\* Every run ends when its finite set of turns and calls is used up.
CHECK_DEADLOCK FALSE
