CONSTANTS
  l1 = l1  l2 = l2  NoLink = NoLink
  Links <- TwoLinks
  MaxFlows = 1
SPECIFICATION FairSpec
CHECK_DEADLOCK FALSE
INVARIANT TypeOK NoDanglingLinkage FreedOnce
PROPERTY DetachAnswered
