------------------------------ MODULE Forwarder ------------------------------
(***************************************************************************)
(* The message forwarders of the Dispatch router core (forwarder.c) and   *)
(* the state they act on: address records, the router-node table, the     *)
(* delivery records, each outgoing link's undelivered queue, connection   *)
(* activation and the general-work list that feeds in-process             *)
(* subscribers.  All forwarding runs on the single core thread, so one    *)
(* call of qdr_forward_message_CT is one atomic step; the I/O threads     *)
(* that drain the queues are separate actions.                            *)
(***************************************************************************)
EXTENDS Integers, Sequences, FiniteSets, SequencesExt

CONSTANTS
  RouterBits,        \* mask bits of the remote routers in the node table
  IRConns,           \* mask bits of the inter-router connections (conn->mask_bit)
  ControlLinkOf,     \* [IRConns -> the outgoing control link on that connection]
  DataLinkOf,        \* [IRConns -> the outgoing data link on that connection]
  EndpointLinks,     \* outgoing links to locally attached consumers
  EndpointConnOf,    \* [EndpointLinks -> the connection that owns the link]
  InLinks,           \* incoming links a message can arrive on
  InLinkMaskBit,     \* [InLinks -> link->conn->mask_bit]
  InLinkIsControl,   \* [InLinks -> link_type = QD_LINK_CONTROL]
  Addrs,             \* address records
  SemanticsOf,       \* [Addrs -> semantics]
  IsLocalAddr,       \* [Addrs -> addr->local]
  InitRlinks,        \* [Addrs -> Seq(EndpointLinks)] consumers at start
  InitSubscriptions, \* [Addrs -> Seq(Subs)] in-process subscribers at start
  Subs,              \* in-process subscriptions
  RouterName,        \* [RouterBits -> router id hashed into the address table]
  NodeId,            \* this router's id (node_id)
  Annotations,       \* [trace, ingress] message annotations a message may carry
  Absent,            \* an annotation the message does not carry
  Malformed,         \* a trace that is not a list, an ingress that is not a scalar
  StripConfig,       \* [InLinks -> strip_inbound_annotations of the connection's config]
  NoIngress,         \* the router stamped the ingress itself (NULL iterator)
  NoExclusion,       \* link_exclusion == NULL
  NoNode,            \* routers_by_mask_bit[b] == NULL
  Topologies,        \* node tables the control plane can have installed
  InitRnodes,        \* [Addrs -> SUBSET RouterBits] remote consumers at start
  MaxForwards,       \* bound on the number of messages forwarded
  MaxRouteChanges,   \* bound on route changes: mobile notifications and link losses
  MaxLinkLosses      \* bound on inter-router link losses among them

Semantics == {"multicast-flood", "multicast-once", "anycast-closest",
              "anycast-balanced"}

Links == EndpointLinks \cup {ControlLinkOf[c] : c \in IRConns}
                       \cup {DataLinkOf[c] : c \in IRConns}

ASSUME /\ \A a \in Addrs : SemanticsOf[a] \in Semantics
       /\ EndpointLinks \cap InLinks = {}
       /\ MaxForwards \in Nat

(* The connection that owns an outgoing link.                              *)
ConnOf(l) == IF l \in EndpointLinks THEN EndpointConnOf[l]
             ELSE CHOOSE c \in IRConns : l \in {ControlLinkOf[c], DataLinkOf[c]}

Conns == {EndpointConnOf[l] : l \in EndpointLinks} \cup IRConns

(* The link a traffic class uses on an inter-router connection:           *)
(* control ? peer_control_link : peer_data_link.                           *)
LinkFor(c, control) == IF control THEN ControlLinkOf[c] ELSE DataLinkOf[c]

PN_ACCEPTED == "accepted"

(* A message without message annotations (in_ma == NULL).                  *)
NoAnnotations == [trace |-> Absent, ingress |-> Absent]

VARIABLES
  node,                \* routers_by_mask_bit with next_hop, peer links, valid_origins
  rnodes,              \* [Addrs -> SUBSET RouterBits]
  rlinks,              \* [Addrs -> Seq(EndpointLinks)]
  subscriptions,       \* [Addrs -> Seq(Subs)]
  stats,               \* [Addrs -> [egress, transit, toContainer]]
  dlv,                 \* delivery records, ids 1..n
  nextTag,             \* core->next_tag
  undelivered,         \* [Links -> Seq(delivery id)]
  linksWithDeliveries, \* [Conns -> SUBSET Links]
  activated,           \* connections activated for an I/O thread
  workList,            \* core->work_list: general work for in-process subscribers
  pushed,              \* inbound deliveries given to qdr_delivery_push_CT
  onWire,              \* outbound deliveries written by an I/O thread
  nForwards,           \* messages forwarded so far (bound)
  nRouteChanges,       \* route changes so far (bound)
  picks,               \* history: destinations chosen by anycast, per address
  lastFwd,             \* history: inputs of the latest forward
  lostConns            \* history: inter-router connections whose link was lost

vars == <<node, rnodes, rlinks, subscriptions, stats, dlv, nextTag, undelivered,
          linksWithDeliveries, activated, workList, pushed, onWire, nForwards,
          nRouteChanges, picks, lastFwd, lostConns>>

-----------------------------------------------------------------------------
(* Routing helpers over the node table.                                    *)

(* next_node = rnode->next_hop ? rnode->next_hop : rnode                   *)
NextNode(b) == IF node[b].nextHop = 0 THEN b ELSE node[b].nextHop

(* The inter-router connection of next_node's peer link, 0 if it has none. *)
RouteConn(b) == node[NextNode(b)].conn

(* The mask bit of the ingress router: -1 when the ingress names no single *)
(* known router, 0 when there is no ingress or origins are bypassed.      *)
OriginBit(d0, in, bypass) ==
  IF in # 0 /\ d0[in].origin # NoIngress /\ ~bypass
  THEN LET originRnodes == {b \in RouterBits : node[b] # NoNode
                                               /\ RouterName[b] = d0[in].origin}
       IN  IF Cardinality(originRnodes) = 1
           THEN CHOOSE b \in originRnodes : TRUE
           ELSE -1
  ELSE 0

(* The set bits of a mask in ascending order, as qd_bitmask_first_set      *)
(* followed by clear_bit walks them.                                       *)
(* Fault model: the walk over link_set stops while one bit is left.      *)
RECURSIVE AscendingBitsDropsLast(_)
AscendingBitsDropsLast(S) ==
  IF Cardinality(S) <= 1 THEN <<>>
  ELSE LET m == CHOOSE x \in S : \A y \in S : x <= y
       IN  <<m>> \o AscendingBitsDropsLast(S \ {m})

RECURSIVE AscendingBits(_)
AscendingBits(S) ==
  IF S = {} THEN <<>>
  ELSE LET m == CHOOSE x \in S : \A y \in S : x <= y
       IN  <<m>> \o AscendingBits(S \ {m})

-----------------------------------------------------------------------------
(* Delivery creation and hand-off (qdr_forward_new_delivery_CT and         *)
(* qdr_forward_deliver_CT), applied to the targets of one forward in      *)
(* order.  d0 is the delivery table including the inbound delivery `in`   *)
(* (0 when there is none).                                                 *)

NewDelivery(d0, in, l, tag) ==
  LET settled == in = 0 \/ d0[in].settled
  IN  [link |-> l, peer |-> IF settled THEN 0 ELSE in, settled |-> settled,
       disposition |-> "none", tag |-> tag, origin |-> NoIngress]

(* Fault model: the back pointer is set outside the "not settled" test.   *)
NewDeliveriesLinksSettled(d0, in, targets) ==
  LET base == Cardinality(DOMAIN d0)
      n    == Len(targets)
      back == n > 0 /\ in # 0 /\ d0[in].peer = 0
  IN  [i \in 1..(base + n) |->
         IF i > base THEN NewDelivery(d0, in, targets[i - base], nextTag + (i - base - 1))
         ELSE IF back /\ i = in THEN [d0[i] EXCEPT !.peer = base + 1]
         ELSE d0[i]]

(* The delivery table after creating one delivery per target.  The inbound *)
(* delivery's peer is set by the first copy only if it was still NULL.     *)
NewDeliveries(d0, in, targets) ==
  LET base == Cardinality(DOMAIN d0)
      n    == Len(targets)
      back == n > 0 /\ in # 0 /\ ~d0[in].settled /\ d0[in].peer = 0
  IN  [i \in 1..(base + n) |->
         IF i > base THEN NewDelivery(d0, in, targets[i - base], nextTag + (i - base - 1))
         ELSE IF back /\ i = in THEN [d0[i] EXCEPT !.peer = base + 1]
         ELSE d0[i]]

(* Fault model: the queue and the ref list are updated but the          *)
(* connection is never activated.                                          *)
EnqueueNoActivate(base, targets) ==
  LET ids == [j \in 1..Len(targets) |-> base + j]
  IN
  /\ undelivered' = [l \in Links |->
        undelivered[l] \o SelectSeq(ids, LAMBDA id : targets[id - base] = l)]
  /\ linksWithDeliveries' = [c \in Conns |->
        linksWithDeliveries[c] \cup {targets[j] : j \in {j \in 1..Len(targets) :
                                                        ConnOf(targets[j]) = c}}]
  /\ UNCHANGED activated

(* Append each new delivery to its link's undelivered queue, put the link *)
(* on its connection's links_with_deliveries list and activate the         *)
(* connection.                                                             *)
Enqueue(base, targets) ==
  LET ids == [j \in 1..Len(targets) |-> base + j]
  IN
  /\ undelivered' = [l \in Links |->
        undelivered[l] \o SelectSeq(ids, LAMBDA id : targets[id - base] = l)]
  /\ linksWithDeliveries' = [c \in Conns |->
        linksWithDeliveries[c] \cup {targets[j] : j \in {j \in 1..Len(targets) :
                                                        ConnOf(targets[j]) = c}}]
  /\ activated' = activated \cup {ConnOf(targets[j]) : j \in 1..Len(targets)}

(* Fault model: next_tag advanced once per forward, not once per copy.  *)
DeliverOneTag(d0, in, targets) ==
  /\ dlv' = NewDeliveries(d0, in, targets)
  /\ nextTag' = nextTag + 1
  /\ Enqueue(Cardinality(DOMAIN d0), targets)

Deliver(d0, in, targets) ==
  /\ dlv' = NewDeliveries(d0, in, targets)
  /\ nextTag' = nextTag + Len(targets)
  /\ Enqueue(Cardinality(DOMAIN d0), targets)

(* qdr_forward_on_message_CT: post one general-work item per subscriber;   *)
(* maskbit is the inbound link's connection mask bit, 0 without one.       *)
PostOnMessage(d0, in, subs) ==
  workList' = workList \o
                [i \in 1..Len(subs) |->
                   [sub |-> subs[i],
                    maskbit |-> IF in # 0 THEN InLinkMaskBit[d0[in].link] ELSE 0]]

(* Fault model: off-by-one in the length test of the rotation.          *)
RotateIfMoreThanTwo(s) == IF Len(s) > 2 THEN Tail(s) \o <<Head(s)>> ELSE s

(* Round-robin rotation of a consumer list: move the head to the tail     *)
(* when there is more than one entry.                                      *)
Rotate(s) == IF Len(s) > 1 THEN Tail(s) \o <<Head(s)>> ELSE s

-----------------------------------------------------------------------------
(* qdr_forward_multicast_CT (used by multicast-flood and multicast-once).  *)

(* Fault model: one copy per destination router instead of one per      *)
(* outgoing connection (no link_set coalescing).                           *)
TransitLinksPerNode(a, origin, control, linkExcl) ==
  IF origin < 0 THEN <<>>
  ELSE LET dests == {b \in rnodes[a] : /\ node[b] # NoNode
                                      /\ RouteConn(b) # 0
                                      /\ origin \in node[b].validOrigins
                                      /\ \/ linkExcl = NoExclusion
                                         \/ RouteConn(b) \notin linkExcl}
           bits  == AscendingBits(dests)
       IN  [i \in 1..Len(bits) |-> LinkFor(RouteConn(bits[i]), control)]

(* The outgoing inter-router links for remote destinations: one link per  *)
(* connection bit in link_set, in ascending bit order, leaving out the     *)
(* excluded ones.  A destination contributes its route's connection only  *)
(* if it is present, routed through a peer link, and valid for origin.    *)
TransitLinks(a, origin, control, linkExcl) ==
  IF origin < 0 THEN <<>>
  ELSE LET linkSet == {RouteConn(b) : b \in {b \in rnodes[a] :
                          /\ node[b] # NoNode
                          /\ RouteConn(b) # 0
                          /\ origin \in node[b].validOrigins}}
           sent    == {c \in linkSet : linkExcl = NoExclusion \/ c \notin linkExcl}
           bits    == AscendingBits(sent)
       IN  [i \in 1..Len(bits) |-> LinkFor(bits[i], control)]

ForwardMulticast(a, d0, in, exclInproc, control, linkExcl) ==
  LET bypass  == SemanticsOf[a] = "multicast-flood"
      locals  == IF ~IsLocalAddr[a] \/ exclInproc THEN rlinks[a] ELSE <<>>
      transit == TransitLinks(a, OriginBit(d0, in, bypass), control, linkExcl)
      subs    == IF ~exclInproc THEN subscriptions[a] ELSE <<>>
  IN  /\ Deliver(d0, in, locals \o transit)
      /\ PostOnMessage(d0, in, subs)
      /\ stats' = [stats EXCEPT
                     ![a].egress      = @ + Len(locals),
                     ![a].transit     = @ + Len(transit),
                     ![a].toContainer = @ + Len(subs)]
      /\ UNCHANGED <<rlinks, subscriptions, pushed, picks>>

-----------------------------------------------------------------------------
(* qdr_forward_closest_CT: an in-process subscriber first, else a local    *)
(* consumer, else the route to the lowest router bit in rnodes.            *)

(* The remote link anycast uses, or <<>> when there is none.               *)
ClosestRemote(a, control) ==
  IF rnodes[a] = {} THEN <<>>
  ELSE LET b == CHOOSE x \in rnodes[a] : \A y \in rnodes[a] : x <= y
       IN  IF node[b] # NoNode /\ RouteConn(b) # 0
           THEN <<LinkFor(RouteConn(b), control)>>
           ELSE <<>>

ForwardClosest(a, d0, in, exclInproc, control) ==
  IF ~exclInproc /\ subscriptions[a] # <<>>
  THEN LET settle == in # 0 /\ ~d0[in].settled
       IN  /\ PostOnMessage(d0, in, <<Head(subscriptions[a])>>)
           /\ dlv' = IF settle
                     THEN [d0 EXCEPT ![in].disposition = PN_ACCEPTED,
                                     ![in].settled     = TRUE]
                     ELSE d0
           /\ pushed' = IF settle THEN pushed \cup {in} ELSE pushed
           /\ subscriptions' = [subscriptions EXCEPT ![a] = Rotate(@)]
           /\ stats' = [stats EXCEPT ![a].toContainer = @ + 1]
           /\ picks' = [picks EXCEPT ![a] = Append(@, Head(subscriptions[a]))]
           /\ UNCHANGED <<nextTag, undelivered, linksWithDeliveries, activated,
                          rlinks>>
  ELSE IF rlinks[a] # <<>>
  THEN /\ Deliver(d0, in, <<Head(rlinks[a])>>)
       /\ rlinks' = [rlinks EXCEPT ![a] = Rotate(@)]
       /\ stats' = [stats EXCEPT ![a].egress = @ + 1]
       /\ picks' = [picks EXCEPT ![a] = Append(@, Head(rlinks[a]))]
       /\ UNCHANGED <<subscriptions, workList, pushed>>
  ELSE /\ Deliver(d0, in, ClosestRemote(a, control))
       /\ stats' = [stats EXCEPT ![a].transit = @ + Len(ClosestRemote(a, control))]
       /\ UNCHANGED <<rlinks, subscriptions, workList, pushed, picks>>

(* qdr_forward_balanced_CT is a stub: nothing is forwarded.                *)
ForwardBalanced(d0) ==
  /\ dlv' = d0
  /\ UNCHANGED <<nextTag, undelivered, linksWithDeliveries, activated, workList,
                 stats, rlinks, subscriptions, pushed, picks>>

(* qdr_forward_message_CT: dispatch on the address's forwarder.            *)
ForwardMessage(a, d0, in, exclInproc, control, linkExcl) ==
  CASE SemanticsOf[a] \in {"multicast-flood", "multicast-once"} ->
         ForwardMulticast(a, d0, in, exclInproc, control, linkExcl)
    [] SemanticsOf[a] = "anycast-closest" ->
         ForwardClosest(a, d0, in, exclInproc, control)
    [] SemanticsOf[a] = "anycast-balanced" ->
         ForwardBalanced(d0)

-----------------------------------------------------------------------------
(* The inbound annotation pipeline of the I/O bridge (router_node.c).      *)

(* qd_router_connection_get_config: an inter-router connection never       *)
(* strips annotations, whatever its configuration says.                    *)
ConnStrip(l) == StripConfig[l] /\ InLinkMaskBit[l] = 0

(* qd_tracemask_create: the mask of the connections to neighbour routers   *)
(* (routers reached without a next hop) whose ids appear in the trace.     *)
TraceMask(trace) ==
  {node[b].conn : b \in {b \in RouterBits : /\ node[b] # NoNode
                                           /\ node[b].nextHop = 0
                                           /\ node[b].conn # 0
                                           /\ RouterName[b] \in Range(trace)}}

IsList(t) == t \notin {Absent, Malformed}

(* Fault model: the trace is appended to but no exclusion mask is made.    *)
AnnotateNoTraceMask(ann, strip) ==
  LET trace   == IF strip THEN Absent ELSE ann.trace
      ingress == IF strip THEN Absent ELSE ann.ingress
  IN  [excl    |-> NoExclusion,
       trace   |-> (IF IsList(trace) THEN trace ELSE <<>>) \o <<NodeId>>,
       ingress |-> IF ingress \notin {Absent, Malformed} THEN ingress ELSE NoIngress]

(* Fault model: the ingress is always stamped with this router's id.       *)
AnnotateStampsIngress(ann, strip) ==
  LET trace == IF strip THEN Absent ELSE ann.trace
  IN  [excl    |-> IF IsList(trace) THEN TraceMask(trace) ELSE NoExclusion,
       trace   |-> (IF IsList(trace) THEN trace ELSE <<>>) \o <<NodeId>>,
       ingress |-> NoIngress]

(* router_annotate_message: the annotations are ignored when the          *)
(* connection strips them.  A trace list gives the link exclusions and is *)
(* sent on with this router's id appended; a scalar ingress is kept and   *)
(* returned (the delivery's origin), otherwise the router stamps its own  *)
(* id and returns NULL.  The to-override and phase annotations are passed *)
(* on unchanged and the forwarders do not read them.                       *)
Annotate(ann, strip) ==
  LET trace   == IF strip THEN Absent ELSE ann.trace
      ingress == IF strip THEN Absent ELSE ann.ingress
  IN  [excl    |-> IF IsList(trace) THEN TraceMask(trace) ELSE NoExclusion,
       trace   |-> (IF IsList(trace) THEN trace ELSE <<>>) \o <<NodeId>>,
       ingress |-> IF ingress \notin {Absent, Malformed} THEN ingress ELSE NoIngress]

-----------------------------------------------------------------------------
(* Entry points.                                                           *)

(* A message received on an incoming link with annotations ann: the        *)
(* annotation pipeline, then the core creates the inbound delivery        *)
(* (settled as the sender sent it, origin the returned ingress) and        *)
(* forwards it with the link's traffic class and the trace's link         *)
(* exclusions.                                                              *)
ForwardFromLink(a, l, settled, ann) ==
  LET in == Cardinality(DOMAIN dlv) + 1
      an == Annotate(ann, ConnStrip(l))
      d0 == [i \in 1..in |->
               IF i = in THEN [link |-> l, peer |-> 0, settled |-> settled,
                               disposition |-> "none", tag |-> 0, origin |-> an.ingress]
               ELSE dlv[i]]
  IN  /\ nForwards < MaxForwards
      /\ InLinkMaskBit[l] \notin lostConns
      /\ ForwardMessage(a, d0, in, FALSE, InLinkIsControl[l], an.excl)
      /\ nForwards' = nForwards + 1
      /\ lastFwd' = [addr |-> a, in |-> in, control |-> InLinkIsControl[l],
                     ann |-> ann, strip |-> ConnStrip(l)]
      /\ UNCHANGED <<node, rnodes, onWire, nRouteChanges, lostConns>>

(* An in-process send (qdr_send_to): no inbound delivery, no exclusions.   *)
ForwardInProcess(a, exclInproc, control) ==
  /\ nForwards < MaxForwards
  /\ ForwardMessage(a, dlv, 0, exclInproc, control, NoExclusion)
  /\ nForwards' = nForwards + 1
  /\ lastFwd' = [addr |-> a, in |-> 0, control |-> control, ann |-> NoAnnotations,
                 strip |-> FALSE]
  /\ UNCHANGED <<node, rnodes, onWire, nRouteChanges, lostConns>>

(* mobile_added / mobile_removed on the core thread (spec 4.6).            *)
MobileAdded(a, b) ==
  /\ nRouteChanges < MaxRouteChanges
  /\ node[b] # NoNode
  /\ rnodes' = [rnodes EXCEPT ![a] = @ \cup {b}]
  /\ nRouteChanges' = nRouteChanges + 1
  /\ UNCHANGED <<node, rlinks, subscriptions, stats, dlv, nextTag, undelivered,
                 linksWithDeliveries, activated, workList, pushed, onWire,
                 nForwards, picks, lastFwd, lostConns>>

MobileRemoved(a, b) ==
  /\ nRouteChanges < MaxRouteChanges
  /\ rnodes' = [rnodes EXCEPT ![a] = @ \ {b}]
  /\ nRouteChanges' = nRouteChanges + 1
  /\ UNCHANGED <<node, rlinks, subscriptions, stats, dlv, nextTag, undelivered,
                 linksWithDeliveries, activated, workList, pushed, onWire,
                 nForwards, picks, lastFwd, lostConns>>

(* qdr_post_link_lost_CT, run on the core thread (spec 4.6): the neighbour *)
(* reached over the lost inter-router connection loses its peer links, so *)
(* it and every router whose next hop it is have no route until the       *)
(* control plane recomputes.  Addresses keep their rnodes bits: those are  *)
(* withdrawn only by later mobile_removed notifications.                   *)
LinkLost(c) ==
  /\ nRouteChanges < MaxRouteChanges
  /\ Cardinality(lostConns) < MaxLinkLosses
  /\ c \notin lostConns
  /\ node' = [b \in RouterBits |->
                IF node[b] # NoNode /\ node[b].nextHop = 0 /\ node[b].conn = c
                THEN [node[b] EXCEPT !.conn = 0]
                ELSE node[b]]
  /\ lostConns' = lostConns \cup {c}
  /\ nRouteChanges' = nRouteChanges + 1
  /\ UNCHANGED <<rnodes, rlinks, subscriptions, stats, dlv, nextTag, undelivered,
                 linksWithDeliveries, activated, workList, pushed, onWire,
                 nForwards, picks, lastFwd>>

(* An I/O thread processes an activated connection: under work_lock it    *)
(* takes the links on links_with_deliveries and writes their undelivered  *)
(* deliveries in order (credit is not modelled).                           *)
IoProcess(c) ==
  /\ c \in activated
  /\ onWire' = onWire \cup UNION {{undelivered[l][i] : i \in 1..Len(undelivered[l])} :
                                   l \in linksWithDeliveries[c]}
  /\ undelivered' = [l \in Links |->
                       IF l \in linksWithDeliveries[c] THEN <<>> ELSE undelivered[l]]
  /\ linksWithDeliveries' = [linksWithDeliveries EXCEPT ![c] = {}]
  /\ activated' = activated \ {c}
  /\ UNCHANGED <<node, rnodes, rlinks, subscriptions, stats, dlv, nextTag,
                 workList, pushed, nForwards, nRouteChanges, picks, lastFwd, lostConns>>

(* The general-work timer runs the oldest item: qdr_forward_on_message     *)
(* calls the subscriber's on_message and frees the message copy.           *)
RunGeneralWork ==
  /\ workList # <<>>
  /\ workList' = Tail(workList)
  /\ UNCHANGED <<node, rnodes, rlinks, subscriptions, stats, dlv, nextTag,
                 undelivered, linksWithDeliveries, activated, pushed, onWire,
                 nForwards, nRouteChanges, picks, lastFwd, lostConns>>

-----------------------------------------------------------------------------
Init ==
  /\ node \in Topologies
  /\ rnodes = [a \in Addrs |-> {b \in InitRnodes[a] : node[b] # NoNode}]
  /\ rlinks = InitRlinks
  /\ subscriptions = InitSubscriptions
  /\ stats = [a \in Addrs |-> [egress |-> 0, transit |-> 0, toContainer |-> 0]]
  /\ dlv = <<>>
  /\ nextTag = 0
  /\ undelivered = [l \in Links |-> <<>>]
  /\ linksWithDeliveries = [c \in Conns |-> {}]
  /\ activated = {}
  /\ workList = <<>>
  /\ pushed = {}
  /\ onWire = {}
  /\ nForwards = 0
  /\ nRouteChanges = 0
  /\ picks = [a \in Addrs |-> <<>>]
  /\ lastFwd = [addr |-> CHOOSE a \in Addrs : TRUE, in |-> 0, control |-> FALSE,
                ann |-> NoAnnotations, strip |-> FALSE]
  /\ lostConns = {}

Next ==
  \/ \E a \in Addrs, l \in InLinks, s \in BOOLEAN, ann \in Annotations :
        ForwardFromLink(a, l, s, ann)
  \/ \E a \in Addrs, e \in BOOLEAN, c \in BOOLEAN : ForwardInProcess(a, e, c)
  \/ \E a \in Addrs, b \in RouterBits : MobileAdded(a, b) \/ MobileRemoved(a, b)
  \/ \E c \in IRConns : LinkLost(c)
  \/ \E c \in Conns : IoProcess(c)
  \/ RunGeneralWork

Spec == Init /\ [][Next]_vars
FairSpec == Spec /\ \A c \in Conns : WF_vars(IoProcess(c)) /\ WF_vars(RunGeneralWork)

-----------------------------------------------------------------------------
(* Properties.                                                             *)

OutIds(d) == {i \in DOMAIN d : d[i].link \in Links}

TypeOK ==
  /\ rnodes \in [Addrs -> SUBSET RouterBits]
  /\ \A a \in Addrs : /\ rlinks[a] \in Seq(EndpointLinks)
                      /\ subscriptions[a] \in Seq(Subs)
  /\ \A i \in DOMAIN dlv :
        /\ dlv[i].link \in Links \cup InLinks
        /\ dlv[i].peer \in 0..Cardinality(DOMAIN dlv)
        /\ dlv[i].settled \in BOOLEAN
        /\ dlv[i].disposition \in {"none", PN_ACCEPTED}
  /\ \A l \in Links : \A k \in 1..Len(undelivered[l]) : undelivered[l][k] \in OutIds(dlv)
  /\ activated \subseteq Conns
  /\ onWire \subseteq OutIds(dlv)
  /\ nextTag = Cardinality(OutIds(dlv))
  /\ lostConns \subseteq IRConns


(* Spec 8.3: one message is sent at most once down any outgoing link,     *)
(* even when several destinations of a multicast address are reached      *)
(* through the same next hop (the link_set coalescing in                   *)
(* qdr_forward_multicast_CT).                                              *)
OneCopyPerLink ==
  [][\A i, j \in OutIds(dlv') \ OutIds(dlv) :
        i # j => dlv'[i].link # dlv'[j].link]_vars

(* Spec 3 (C3) and 8.2, as far as multicast keeps them (spec 9 accepts a  *)
(* single back pointer): a settled delivery has no peer linkage, a copy's *)
(* peer is the inbound delivery it was made from, and an inbound          *)
(* delivery's peer is one of its copies that points back at it, so the    *)
(* pair the settlement path follows is never dangling or one-sided.       *)
PeerLinkage ==
  \A i \in DOMAIN dlv :
    /\ dlv[i].settled => dlv[i].peer = 0
    /\ dlv[i].peer # 0 =>
         IF i \in OutIds(dlv)
         THEN dlv[i].peer \notin OutIds(dlv)
         ELSE dlv[i].peer \in OutIds(dlv) /\ dlv[dlv[i].peer].peer = i

(* The router a message's inbound annotations name as its ingress: the   *)
(* annotated one, or this router when the connection strips annotations   *)
(* or the message carries no usable ingress (spec 4.4 step 3).            *)
NamedIngress(f) ==
  IF ~f.strip /\ f.ann.ingress \notin {Absent, Malformed} THEN f.ann.ingress ELSE NodeId

(* Spec 4.2 and 4.4: a copy sent to another router goes only over a        *)
(* connection that routes to a consumer of the address for which the      *)
(* router named by the message's ingress annotation is a valid origin     *)
(* (this router, origin 0, when it stamped the ingress or the address     *)
(* floods).  Ties the wire annotation, through router_annotate_message,    *)
(* the delivery's origin and the origin hashing of                         *)
(* qdr_forward_multicast_CT, to the copies made.                           *)
TransitCopiesValid ==
  [][\A i \in OutIds(dlv') \ OutIds(dlv) :
        LET f == lastFwd'
        IN  (/\ dlv'[i].link \notin EndpointLinks
             /\ SemanticsOf[f.addr] # "anycast-closest") =>
              \E b \in rnodes[f.addr] :
                 /\ RouteConn(b) = ConnOf(dlv'[i].link)
                 /\ IF SemanticsOf[f.addr] = "multicast-flood" \/ NamedIngress(f) = NodeId
                    THEN 0 \in node[b].validOrigins
                    ELSE \E o \in RouterBits : /\ node[o] # NoNode
                                              /\ RouterName[o] = NamedIngress(f)
                                              /\ o \in node[b].validOrigins]_vars

(* Spec 4.2 (multicast) and 4.4: the converse of TransitCopiesValid.  When *)
(* a multicast message is forwarded, every router in the address's rnodes *)
(* that has a route, is a valid destination for the router named by the  *)
(* message's ingress annotation (this router when the ingress was stamped *)
(* or the address floods), and is not reached through a neighbour the     *)
(* trace names, gets a copy over its route's connection: the origin       *)
(* hashing, the link_set coalescing and the walk over link_set drop no    *)
(* destination.  An ingress naming no known router sends no remote copy.   *)
TransitCopiesComplete ==
  [][(nForwards' = nForwards + 1 /\
      SemanticsOf[lastFwd'.addr] \in {"multicast-flood", "multicast-once"}) =>
       LET f      == lastFwd'
           new    == OutIds(dlv') \ OutIds(dlv)
           excl   == IF ~f.strip /\ IsList(f.ann.trace) THEN TraceMask(f.ann.trace) ELSE {}
           origin == {o \in RouterBits : node[o] # NoNode /\ RouterName[o] = NamedIngress(f)}
           validFor(b) ==
             IF SemanticsOf[f.addr] = "multicast-flood" \/ NamedIngress(f) = NodeId
             THEN 0 \in node[b].validOrigins
             ELSE \E o \in origin : Cardinality(origin) = 1 /\ o \in node[b].validOrigins
       IN  \A b \in rnodes[f.addr] :
             (/\ node[b] # NoNode
              /\ RouteConn(b) # 0
              /\ RouteConn(b) \notin excl
              /\ validFor(b)) =>
               \E i \in new : ConnOf(dlv'[i].link) = RouteConn(b)]_vars

(* Spec 4.4 step 1 and scenario 1 (loop suppression): a multicast message *)
(* is never sent back over the connection to a neighbour router its trace *)
(* annotation says it already passed through, unless the connection it    *)
(* came in on strips inbound annotations.  Anycast ignores exclusions by  *)
(* design (forwarder.c:240).                                               *)
TraceExcludesSenders ==
  [][\A i \in OutIds(dlv') \ OutIds(dlv) :
        LET f == lastFwd'
        IN  (/\ SemanticsOf[f.addr] \in {"multicast-flood", "multicast-once"}
             /\ ~f.strip
             /\ IsList(f.ann.trace)) =>
              \A b \in RouterBits :
                 (/\ node[b] # NoNode
                  /\ node[b].nextHop = 0
                  /\ RouterName[b] \in Range(f.ann.trace)) =>
                   ConnOf(dlv'[i].link) # node[b].conn]_vars

(* Spec 8 scenario 2: anycast-closest spreads messages round-robin: among  *)
(* any run of consecutive picks shorter than the number of consumers of    *)
(* that kind (local links, or in-process subscribers), no consumer is       *)
(* picked twice.                                                            *)
RoundRobin ==
  \A a \in Addrs :
    \A Kind \in {EndpointLinks, Subs} :
      LET p == SelectSeq(picks[a], LAMBDA x : x \in Kind)
          n == IF Kind = EndpointLinks THEN Len(InitRlinks[a])
                                       ELSE Len(InitSubscriptions[a])
      IN  \A i, j \in 1..Len(p) : i < j /\ j - i < n => p[i] # p[j]

(* Every delivery the forwarder queues on an outgoing link is eventually   *)
(* written by an I/O thread: the forwarder must both list the link on     *)
(* links_with_deliveries and activate its connection.                     *)
EveryCopySent ==
  \A i \in 1..(MaxForwards * (1 + Cardinality(Links))) :
    (i \in OutIds(dlv)) ~> (i \in onWire)

=============================================================================
