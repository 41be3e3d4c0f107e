CONSTANTS
  c1 = c1  c2 = c2
  NoAddress = NoAddress  Dynamic = Dynamic
  Conns <- TwoConns
  SettingsSet <- MCSettingsSet
  User <- MCUser
  Terminus <- MCTerminus
  MaxAttempts = 2
SPECIFICATION Spec
CHECK_DEADLOCK FALSE
INVARIANT DenialsCounted
