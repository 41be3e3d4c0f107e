CONSTANTS
  NoSocket = NoSocket  t1 = t1  t2 = t2  k1 = k1  k2 = k2  k3 = k3  k4 = k4
  Threads <- TwoThreads
  Sockets <- MCSockets
  MaxConnectionLimit = 2
SPECIFICATION Spec
CHECK_DEADLOCK FALSE
INVARIANT CountNonNegative
