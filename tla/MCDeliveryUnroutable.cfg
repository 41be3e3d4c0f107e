CONSTANTS
  m1 = m1  m2 = m2  NoMsg = NoMsg
  Msgs <- OneMsg
  Kinds <- AllKinds
SPECIFICATION Spec
INVARIANT UnroutableReleased
