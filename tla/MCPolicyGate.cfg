CONSTANTS
  t1 = t1  t2 = t2  k1 = k1  k2 = k2
  NoSocket = NoSocket  NoAddress = NoAddress  Dynamic = Dynamic
  Threads <- TwoThreads
  Conns <- GateConns
  MaxConnectionLimit = 1
  SettingsSet <- MCSettingsSet
  User <- MCUser
  Terminus <- MCTerminus
  MaxAttempts = 3
SPECIFICATION Spec
CHECK_DEADLOCK FALSE
INVARIANT LimitsRespected
