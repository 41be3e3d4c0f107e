CONSTANTS
  l1 = l1  l2 = l2  NoLink = NoLink
  Links <- OneLink
  MaxFlows = 1
SPECIFICATION FairSpec
CHECK_DEADLOCK FALSE
PROPERTY QdLinkReleased
