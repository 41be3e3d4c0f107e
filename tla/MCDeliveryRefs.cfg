CONSTANTS
  m1 = m1  m2 = m2  NoMsg = NoMsg
  Msgs <- TwoMsgs
  Kinds <- AllKinds
SPECIFICATION FairSpec
INVARIANT TypeOK NoUseAfterFree IoReferenceOnce
PROPERTY DeliveriesReleased
