---------------------------- MODULE MCForwarder ----------------------------
(***************************************************************************)
(* Model-checking instance of Forwarder: three remote routers, router 2    *)
(* reached through router 1 so that two destinations share a next hop,    *)
(* two inter-router connections, two local consumer links, two in-process *)
(* subscribers, and one address of each forwarding semantics.             *)
(***************************************************************************)
EXTENDS Forwarder

CONSTANTS e1, e2, ec1, ec2, ctl1, ctl2, dat1, dat2, inE, inC, s1, s2,
          R0, R1, R2, R3, RX

MCRouterBits == {1, 2, 3}
MCIRConns == {1, 2}
MCControlLinkOf == [c \in MCIRConns |-> IF c = 1 THEN ctl1 ELSE ctl2]
MCDataLinkOf == [c \in MCIRConns |-> IF c = 1 THEN dat1 ELSE dat2]
MCEndpointLinks == {e1, e2}
MCEndpointConnOf == [l \in MCEndpointLinks |-> IF l = e1 THEN ec1 ELSE ec2]
MCInLinks == {inE, inC}
\* A client's link is on a normal connection (mask bit 0); inC is the
\* incoming control link of inter-router connection 1.
MCInLinkMaskBit == [l \in MCInLinks |-> IF l = inE THEN 0 ELSE 1]
MCInLinkIsControl == [l \in MCInLinks |-> l = inC]
MCAddrs == {"once", "flood", "any", "far", "bal"}
\* The multicast run and the anycast run each use their own addresses.
MulticastAddrs == {"once", "flood"}
AnycastAddrs == {"any", "far", "bal"}
MCSemanticsOf == [a \in MCAddrs |->
                    CASE a = "once"  -> "multicast-once"
                      [] a = "flood" -> "multicast-flood"
                      [] a = "any"   -> "anycast-closest"
                      [] a = "far"   -> "anycast-closest"
                      [] a = "bal"   -> "anycast-balanced"]
MCIsLocalAddr == [a \in MCAddrs |-> FALSE]
MCInitRlinks == [a \in MCAddrs |->
                   CASE a = "once" -> <<e1, e2>>
                     [] a = "any"  -> <<e1, e2>>
                     [] a = "bal"  -> <<e2>>
                     [] OTHER      -> <<>>]
MCInitSubscriptions == [a \in MCAddrs |->
                          CASE a = "any"   -> <<s1, s2>>
                            [] a = "flood" -> <<s1>>
                            [] OTHER       -> <<>>]
MCSubs == {s1, s2}
MCRouterName == [b \in MCRouterBits |-> CASE b = 1 -> R1 [] b = 2 -> R2 [] b = 3 -> R3]
\* The inbound annotations of the multicast runs: none; from neighbour R1;
\* from R2 through R1; from R2 through R3; malformed (a trace that is not a
\* list and an ingress that is not a scalar); from a router RX this router
\* does not know.
MCAnnotations ==
  {NoAnnotations,
   [trace |-> <<R1>>, ingress |-> R1],
   [trace |-> <<R2, R1>>, ingress |-> R2],
   [trace |-> <<R2, R3>>, ingress |-> R2],
   [trace |-> Malformed, ingress |-> Malformed],
   [trace |-> <<RX>>, ingress |-> RX]}
\* Both connections are configured to strip inbound annotations; the
\* inter-router connection of inC keeps them regardless.
MCStripConfig == [l \in MCInLinks |-> TRUE]

\* Router 1 and 3 are neighbours on connections 1 and 2; router 2 is
\* reached through router 1.  In the second table router 3 is unknown and
\* router 2 is a valid destination only for messages that entered at this
\* router or at router 1.
AllOrigins == {0, 1, 2, 3}
Topology1 == [b \in MCRouterBits |->
                CASE b = 1 -> [nextHop |-> 0, conn |-> 1, validOrigins |-> AllOrigins]
                  [] b = 2 -> [nextHop |-> 1, conn |-> 0, validOrigins |-> AllOrigins]
                  [] b = 3 -> [nextHop |-> 0, conn |-> 2, validOrigins |-> AllOrigins]]
Topology2 == [b \in MCRouterBits |->
                CASE b = 1 -> [nextHop |-> 0, conn |-> 1, validOrigins |-> AllOrigins]
                  [] b = 2 -> [nextHop |-> 1, conn |-> 0, validOrigins |-> {0, 1}]
                  [] b = 3 -> NoNode]
MCTopologies == {Topology1, Topology2}

\* Remote consumers at start: every router for the multicast addresses,
\* router 2 (behind router 1) for the anycast-closest addresses; "far" has
\* no local consumer, so its messages take the remote branch.
MCInitRnodes == [a \in MCAddrs |->
                   CASE a = "any" -> {2}
                     [] a = "far" -> {2}
                     [] a = "bal" -> {}
                     [] OTHER     -> {1, 2, 3}]
\* Anycast ignores the ingress and the exclusions (forwarder.c:240); the
\* liveness run sends messages whose ingress is this router.
PlainAnnotations == {NoAnnotations}
=============================================================================
