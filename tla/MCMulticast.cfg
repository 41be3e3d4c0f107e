CONSTANTS
  e1 = e1  e2 = e2  ec1 = ec1  ec2 = ec2
  ctl1 = ctl1  ctl2 = ctl2  dat1 = dat1  dat2 = dat2
  inE = inE  inC = inC  s1 = s1  s2 = s2
  R0 = R0  R1 = R1  R2 = R2  R3 = R3  RX = RX
  NoIngress = NoIngress  Absent = Absent  Malformed = Malformed  NoExclusion = NoExclusion  NoNode = NoNode
  RouterBits <- MCRouterBits
  IRConns <- MCIRConns
  ControlLinkOf <- MCControlLinkOf
  DataLinkOf <- MCDataLinkOf
  EndpointLinks <- MCEndpointLinks
  EndpointConnOf <- MCEndpointConnOf
  InLinks <- MCInLinks
  InLinkMaskBit <- MCInLinkMaskBit
  InLinkIsControl <- MCInLinkIsControl
  Addrs <- MulticastAddrs
  SemanticsOf <- MCSemanticsOf
  NodeId = R0
  Annotations <- MCAnnotations
  StripConfig <- MCStripConfig
  IsLocalAddr <- MCIsLocalAddr
  InitRlinks <- MCInitRlinks
  InitSubscriptions <- MCInitSubscriptions
  Subs <- MCSubs
  RouterName <- MCRouterName
  Topologies <- MCTopologies
  InitRnodes <- MCInitRnodes
  MaxForwards = 2
  MaxRouteChanges = 1
  MaxLinkLosses = 1
SPECIFICATION Spec
CHECK_DEADLOCK FALSE
INVARIANT TypeOK PeerLinkage
PROPERTY OneCopyPerLink TransitCopiesValid TraceExcludesSenders TransitCopiesComplete
