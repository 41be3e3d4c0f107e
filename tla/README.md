# TLA+ models of the Qpid Dispatch router core

This directory holds TLA+ models of the parts of Apache Qpid Dispatch that are
in this repository (`src/`), the TLC configurations that check them, and
`PROJECT.json`, which maps every model definition to the C lines it
translates and lists the runs, mutants, findings and hazards.

## 1. Inventory

The repository contains six files:

| File | What it holds |
|------|---------------|
| `src/src/router_core/forwarder.c` | the message forwarders of the router core (C5 of spec.md) |
| `src/src/router_core/router_core_private.h` | the core's data structures: delivery, link, address, node, connection, action, general work (C3, C4, C6) |
| `src/src/router_node.c` | the I/O bridge between the AMQP driver and the core: inbound delivery handler, annotation pipeline, disposition, attach/detach/flow handlers, and the core-to-driver callbacks (C10, C7, part of C2) |
| `src/src/policy.c` | the policy gate: socket-level connection counting, AMQP Open/Begin/Attach approval, link-name pattern matching with `${user}` substitution, vhost hostname pattern table (C8) |
| `src/include/qpid/dispatch/atomic.h` | 32-bit atomic counters (C11 atomics, GCC builtins, or a mutex fallback) |
| `src/tests/message_test.c` | unit tests of the message layer (`check_depth`, Q2 hold-off) whose code (`message.c`) is not in the repository |

### Components, their state and operations

**Forwarder (forwarder.c).** Runs only on the core thread. State it reads and
writes: the address record (`rlinks` = ordered list of local consumer links,
`subscriptions` = ordered list of in-process subscribers, `rnodes` = set of
remote routers with consumers, `local` flag, forwarder, statistics counters),
the router-node table (`routers_by_mask_bit`, each node's `next_hop`,
`peer_control_link`, `peer_data_link`, `valid_origins`), the per-link-bit link
tables, the delivery records it creates (`link`, `peer`, `settled`, `tag`),
`core->next_tag`, each outbound link's `undelivered` queue, each connection's
`links_with_deliveries` list, and the core's general-work list.
Operations: `qdr_forward_message_CT` dispatching by semantics to
`qdr_forward_multicast_CT` (flood and once), `qdr_forward_closest_CT`,
`qdr_forward_balanced_CT` (a stub returning 0), the helpers
`qdr_forward_new_delivery_CT`, `qdr_forward_deliver_CT`,
`qdr_forward_on_message_CT`, and the general-work handler
`qdr_forward_on_message` that runs later on an I/O thread.

**I/O bridge (router_node.c).** Runs on the I/O threads, one connection at a
time per thread. State: the proton delivery/link objects and the two-way
context pointers between a `pn_delivery_t` and a `qdr_delivery_t` (and between
`qd_link_t` and `qdr_link_t`), plus the reference the I/O side holds on a
`qdr_delivery_t` while that linkage exists. Operations: `AMQP_rx_handler`
(receive, user-id proxy check, validation, annotation, hand-off to the core or
reject), `router_annotate_message` (trace, ingress, to-override, phase),
`AMQP_disposition_handler` (remote disposition; on settlement gives the
reference to the core), link attach/flow/detach handlers, connection
opened/closed handlers (role, cost = max(local, remote)), and the core
callbacks `CORE_link_first_attach`, `CORE_link_second_attach`,
`CORE_link_detach`, `CORE_link_flow`, `CORE_link_push`, `CORE_link_deliver`,
`CORE_delivery_update` (mirror disposition; on settlement drop the reference).

**Policy gate (policy.c).** State: the process-wide counters `n_connections`,
`n_denied`, `n_processed` (plain `int`), the per-connection counts
`n_sessions`, `n_senders`, `n_receivers` (maintained by the container, not in
this repository), the per-user-group `denialCounts` shared by all connections
of that group, and the hostname pattern tree under `tree_lock`. Operations:
`qd_policy_socket_accept`, `qd_policy_socket_close`, `qd_policy_amqp_open`
(and the lookup it makes), `qd_policy_approve_amqp_session`,
`qd_policy_approve_amqp_sender_link`, `qd_policy_approve_amqp_receiver_link`,
`_qd_policy_approve_link_name` (CSV matching), `_qd_policy_link_user_name_subst`,
`qd_policy_parse_tree`, `qd_policy_host_pattern_add/remove/lookup`.

**Atomic counters (atomic.h).** Fetch-add/fetch-sub on a `uint32_t`, wrapping
modulo 2^32. No file in this repository includes the header or calls its
`sys_atomic_*` functions; `qdr_delivery_t.ref_count` is a plain `uint32_t`
changed on the core thread.

**Message layer (message.c, not in the repository).** Known only through
spec.md §3/§4.4/§6 and the tests in `message_test.c`: `check_depth` returning
OK/INCOMPLETE/INVALID, and the Q2 hold-off thresholds.

**Core work loop, address table maintenance, route-table control plane,
link/delivery protocol inside the core (router_core.c, transfer.c,
route_tables.c, connections.c: not in the repository).** Known only from
spec.md §4.1, §4.3, §4.6. They are the callers of the forwarder and the
receivers of the I/O bridge's actions.

### How the components interact

* I/O thread → core: `AMQP_rx_handler` calls `qdr_link_deliver` /
  `qdr_link_deliver_to` which enqueue an action; the core thread runs it and
  calls `qdr_forward_message_CT`.
* core → I/O: the forwarder appends deliveries to a link's `undelivered` queue
  under the connection's `work_lock`, puts the link on
  `links_with_deliveries` and activates the connection; an I/O thread later
  drains it through `CORE_link_push` / `CORE_link_deliver`.
* core → general work: in-process subscribers get a general-work item that an
  I/O thread runs in FIFO order (`qdr_forward_on_message`).
* I/O ↔ core for dispositions: `AMQP_disposition_handler` posts
  `qdr_delivery_update_disposition` (with `give_reference` on settlement); the
  core later calls back `CORE_delivery_update` on the I/O thread, which settles
  and decrefs.
* policy is called by the server/container on I/O threads at accept, Open,
  Begin and Attach; the rx handler reads `policy_settings->allowUserIdProxy`.

### What is hard

* Forwarding decisions are sequential but depend on a lot of shared state
  (rnodes, next hops, valid origins, link tables, exclusion masks): coalescing
  copies per outbound link, loop suppression, origin resolution, and the
  round-robin rotation of consumer lists are long-horizon behaviours.
* A delivery crosses threads: it is created on the core thread, queued under a
  per-connection lock, written by an I/O thread, and its settlement can come
  from the remote side (disposition handler) or from the core
  (`CORE_delivery_update`) in either order; the I/O reference must be
  released exactly once.
* Multicast creates several outbound deliveries for one inbound one, but the
  inbound delivery keeps a single back pointer.
* The policy counters are plain `int`s updated from I/O threads.
* The CSV link-name matcher compares with `strncmp` bounded by the length of
  the proposed name, and the `${user}`-substituted name is compared with the
  same bound.

### Properties that make each component correct

* Forwarder: at most one copy per outbound link per message (spec §8.3); no
  copy over an excluded (trace) link and only toward routers valid for the
  message's origin; anycast round-robin over consumers (spec §8 scenario 2);
  every queued delivery eventually reaches the wire; peer linkage consistent
  (spec §8.2, in the one-sided form multicast leaves); a trace annotation
  keeps the message off the links to the routers it names.
* I/O bridge / delivery lifecycle: the I/O reference is released exactly
  once; a settled delivery is never updated again; disposition mirrors reach
  the remote side.
* Policy: `n_connections` never exceeds `maxConnections` and never goes
  negative (the code asserts it); denial counters count every denial; a CSV
  list approves exactly the names its tokens describe.
* Message: `check_depth` is stable once `receive_complete`; Q2 block/unblock
  thresholds.

## 2. Plan and status

Modules in the order they are built. Items 1–7 exist; the rest are the
plan for later work.

1. `Forwarder` (built): one router core. It has the address table entries,
   node table, deliveries, undelivered queues, connection activation and
   general work, with the four message forwarders as one action per entry
   point.
2. `PolicyLinkName` (built): the CSV matcher and the user substitution as
   pure operators. They are checked against a reference definition of spec
   §4.5 over every bounded input.
3. `PolicyCounters` (built): socket accept and close with I/O threads racing
   on the plain-int counters.
4. `PolicyLimits` (built): session, sender and receiver approval over the
   connections of one user group. It composes `PolicyLinkName` through
   INSTANCE.
5. `DeliveryLifecycle` (built): the I/O-bridge side of a delivery, against a
   spec-modelled core.
6. `LinkLifecycle` (built): the link attach, flow and detach handlers, the
   core's link callbacks and a connection drop (`QD_LOST`), against a
   spec-modelled core detach protocol (spec C7).
7. `PolicyGate` (built): `qd_policy_amqp_open` composed with
   `PolicyCounters` and `PolicyLimits` through INSTANCE ... WITH, over the
   whole life of the connections of one user group.
8. Next: `DeliveryLifecycle` with a connection drop and the link-routed
   branch of the rx handler.
9. Next: `AbstractRouting` and a refinement. An abstract specification, "each
   message reaches each eligible destination link at most once, and toward
   every reachable consumer", implemented by `Forwarder` through INSTANCE ...
   WITH a mapping from deliveries to copies. This would also cover the
   origin-resolution hazard; `TransitCopiesComplete` already states which
   remote copies must be sent.
10. Next: `Mesh`. Several routers composed, each running the forwarder, with
   the trace annotation of `router_annotate_message` and the connection
   cost, checking loop freedom of multicast-once end to end.
11. Next: `MessageDepth` (spec-modelled), covering `check_depth` and the Q2
   thresholds over a buffer model.

## 3. Modules

### Forwarder (`Forwarder.tla`, instance `MCForwarder.tla`)

State (VARIABLES) and the code it stands for:

| Variable | Code |
|----------|------|
| `rnodes[a]`, `rlinks[a]`, `subscriptions[a]` | `qdr_address_t.rnodes`, `.rlinks`, `.subscriptions` |
| `stats[a]` | `deliveries_egress`, `deliveries_transit`, `deliveries_to_container` |
| `node` | `core->routers_by_mask_bit[]` with `next_hop`, the neighbour's connection bit (`peer_*_link`) and `valid_origins` |
| `dlv` | the `qdr_delivery_t` records, inbound and outbound: `link`, `peer`, `settled`, `disposition`, `tag` |
| `nextTag` | `core->next_tag` |
| `undelivered[l]` | `qdr_link_t.undelivered` |
| `linksWithDeliveries[c]`, `activated` | `qdr_connection_t.links_with_deliveries`, and the activation posted by `qdr_connection_activate_CT` |
| `workList` | `core->work_list` (general work) |
| `pushed` | inbound deliveries handed to `qdr_delivery_push_CT` |
| `onWire` | outbound deliveries written by an I/O thread |
| `picks`, `lastFwd` | history variables for the properties (not code state) |

Operators translated from the code:

- `ForwardMessage` dispatches on the address's semantics.
- `ForwardMulticast` models `qdr_forward_multicast_CT`, flood and once.
  - `OriginBit` resolves the origin.
  - `TransitLinks` computes the per-connection link set, with link exclusion
    and valid origins.
- `ForwardClosest` models `qdr_forward_closest_CT`.
  - `Rotate` is its round-robin step.
  - `ClosestRemote` picks the lowest `rnodes` bit.
- `ForwardBalanced` is the stub.
- `NewDelivery`, `Deliver`, `Enqueue` and `PostOnMessage` model the helpers.
- `Annotate` models `router_annotate_message` as `AMQP_rx_handler` calls it
  for a message arriving on a link:
  - with `strip_annotations_in` set, the incoming annotations are ignored;
  - a trace list yields the link exclusions (`TraceMask`, the neighbour
    routers the trace names, spec-modelled from `qd_tracemask_create`) and
    gets this router's id appended;
  - a well-formed ingress is kept and becomes the delivery's origin;
    otherwise this router's id is stamped and the origin is local.
  - `ConnStrip` is `qd_router_connection_get_config`: inter-router
    connections never strip.
  Annotations are record values over router names (model values), not
  encoded strings; `Malformed` stands for a field of the wrong AMQP type.

Actions:

- `ForwardFromLink` is a message received on a link: the core's
  `qdr_link_deliver` action calling `qdr_forward_message_CT`.
- `ForwardInProcess` is an in-process send, with `in_delivery` NULL.
- `MobileAdded` and `MobileRemoved` follow spec §4.6.
- `LinkLost` is the core's handling of a lost inter-router link (spec §4.6,
  `qdr_post_link_lost_CT`). The neighbour on that connection loses its peer
  links, so it and every router routed through it have no route. The
  addresses keep those routers in `rnodes` until a later `MobileRemoved`.
  A lost connection's inbound link delivers nothing more.
- `IoProcess` is an I/O thread draining an activated connection (spec §4.3,
  §5). Credit is not modelled, so every queued delivery is written.
- `RunGeneralWork` is `qdr_forward_on_message`.

These actions come from code outside this repository, so they are
spec-modelled.

Instance `MCForwarder`:

- three remote routers, with router 2 behind router 1 so that two
  destinations share a next hop;
- two inter-router connections and two local consumer links on different
  connections;
- two in-process subscribers;
- one address of each semantics, plus an anycast address whose only consumer
  is remote;
- two node tables, the second of which drops a router and restricts
  `valid_origins`;
- incoming annotations (`MCAnnotations`): none; a trace and ingress naming
  router 1, a neighbour; a trace through routers 2 and 1 and one through
  2 and 3, with ingress 2; malformed trace and ingress; and an unknown
  router `RX`. Every connection is configured to strip annotations;
  `ConnStrip` turns that off on the inter-router ones, as the code does.

Properties of `multicast_safety`:

- `PeerLinkage` (invariant): a settled delivery has no peer; a copy's peer
  is never an outbound copy; an inbound delivery's peer is an outbound copy
  that points back at it.
- `OneCopyPerLink`: one copy per outbound link per message.
- `TransitCopiesValid`: a transit copy goes only over a connection that is
  the next hop of a router in the address's `rnodes`. For a multicast-once
  address, that router must be valid for the router named by the (unstripped,
  well-formed) ingress annotation, or for this router when there is none.
- `TraceExcludesSenders`: no multicast copy goes back to a neighbour router
  the message's trace names.
- `TransitCopiesComplete`: the converse of `TransitCopiesValid`. A multicast
  sends a copy over the route of every router in `rnodes` that still has a
  route, is not behind a neighbour the trace names, and is valid for the
  annotated ingress (spec §4.2, §4.4). It walks every bit of `link_set`
  (forwarder.c:188–200).

### PolicyLinkName (`PolicyLinkName.tla`, instance `MCPolicyLinkName.tla`)

- `UserNameSubst` models `_qd_policy_link_user_name_subst`.
- `StrTok` models `strtok_r`.
- `StrNCmpEqual` models `strncmp == 0`, including the terminating zero.
- `TokenApproves` and `ApproveLinkName` model `_qd_policy_approve_link_name`.
- Strings are sequences of one-character strings.
- `SpecApprove` is the reference definition written from spec §4.5.

The state is one attach: user, allow list, proposed name and the code's
decision.

Inputs:

- every proposed name of 1–3 letters over {a, b};
- users "", "a" and "ab";
- allow lists of one or two tokens, built from every token form the matcher
  distinguishes: exact, trailing `*`, leading `*`, `*` alone, `${user}`
  forms, and empty tokens.

### PolicyCounters (`PolicyCounters.tla`, instance `MCPolicyCounters.tla`)

This module covers `qd_policy_socket_accept` and `qd_policy_socket_close` on
`n_connections`, `n_denied` and `n_processed`.

- Each `+= 1` / `-= 1` is a load step and a store step of one thread, because
  the counters are plain ints written by I/O threads. A data race has every
  interleaving as a possible outcome.
- Sockets go `new → admitted → open → closing → closed`, or
  `new → refusing → denied`.
- A socket is closed through the gate only after its accept returned true.

Instance: one or two threads, four sockets, limit 2.

### PolicyLimits (`PolicyLimits.tla`, instance `MCPolicyLimits.tla`)

This module covers `qd_policy_approve_amqp_session`, `_sender_link` and
`_receiver_link` over the connections of one user group. It composes the
link-name matcher through `LN == INSTANCE PolicyLinkName`.

- The group's `denialCounts` record is shared by all of its connections.
- Each `++` of a denial counter is a load in the deny path and a store in
  `DenialStore`.
- `Admit` and `Close` stand for the container's `n_sessions` / `n_senders` /
  `n_receivers` bookkeeping. container.c is not in this repository, so they
  are spec-modelled.
- `denials` is a history variable: the refusals each connection made.

Instance:

- user "a", with limits of 1 session, 2 senders and 1 receiver;
- targets "a*" and sources "b";
- both values of `allowAnonymousSender` and `allowDynamicSource`;
- terminus addresses "a", "ab" and "b", plus none, and dynamic for receivers.

### DeliveryLifecycle (`DeliveryLifecycle.tla`, instance `MCDeliveryLifecycle.tla`)

A producer sends messages on connection "in". The core forwards each one to a
consumer link on connection "out". Each message has an inbound delivery
`<<m, "in">>` and an outbound copy `<<m, "out">>`.

State:

| Variable | Code |
|----------|------|
| `pn[p]` | the proton delivery: remote and local state, settled flags, `pn_delivery_get_context` |
| `dl[d]` | the `qdr_delivery_t`: `qdr_delivery_get_context`, settled, peer linkage |
| `refs[d]` | the delivery's `ref_count` |
| `actq[c]` | actions the connection's thread submitted (FIFO per submitter, spec §5) |
| `work[c]` | link-deliver and delivery-update work the core queued for the connection |
| `rxPending` | a message between `qdr_link_deliver` and the end of the rx handler |
| `RemoteSndSettled` | the consumer link's snd-settle-mode, chosen at start |
| `ioRef[d]` | history: references the I/O side holds |

Actions translated from router_node.c:

- `AMQP_rx_handler` covers lines 212–403. It splits at the hand-off to the
  core, so the core thread can run before `RxLink` (lines 404–412).
- `RejectDelivery` is the reject path.
- `AMQP_disposition_handler`, `CORE_link_deliver` and `CORE_delivery_update`
  are the handlers of the same names.

Spec-modelled core side (transfer.c is not in this repository):

- `CoreLinkDeliver` and `CoreUpdateDisposition` follow spec §4.3.
- A queued action or work item holds a reference.
- The core holds a reference while the delivery is unsettled on its link.
- Settling one peer settles the other.

Producer and consumer steps model the remote AMQP peers.

`Terminated` lets the model stutter once every message has been received and
every queue has drained, so deadlock checking stays on.

Instance: two messages, each valid, invalid (failed validation or proxied
user-id) or without address, pre-settled or not.

### LinkLifecycle (`LinkLifecycle.tla`, instance `MCLinkLifecycle.tla`)

The links of one connection. A link is a `qd_link_t` (I/O side) and a
`qdr_link_t` (core side) that point at each other.

| Variable | Code |
|----------|------|
| `qd[l]` | the `qd_link_t`: not yet created, live, or freed by `qd_link_free` |
| `qdCtx[l]` | `qd_link_get_context(link)` is the `qdr_link_t` |
| `qdr[l]` | the `qdr_link_t`: created, known to the core thread, `qdr_link_get_context` set, `detach_count` |
| `pnl[l]` | the proton link's local and remote endpoint state |
| `actions` | actions the I/O thread posted to the core (`qdr_action_t`) |
| `work` | the connection's work list (`qdr_connection_work_t`: first/second attach, first/second detach) |
| `calls[l]` | a flow/offer/drained/drain/push callback is pending for the link |
| `io` | the connection: up, lost (links being detached as `QD_LOST`), closed |
| `frees[l]` | history: how often the `qd_link_t` was freed |

Actions translated from router_node.c:

- `AMQP_link_first_attach_handler` is `AMQP_incoming_link_handler` /
  `AMQP_outgoing_link_handler` (the peer attaches first);
- `AMQP_link_attach_handler`, `AMQP_link_flow_handler` and
  `AMQP_link_detach_handler` are the handlers of those names; `DetachBody`
  is the detach handler's body, shared with `LostDetach` (`dt == QD_LOST`);
- `AMQP_closed_handler` posts `qdr_connection_closed` once every link was
  detached as lost;
- `CORE_link_first_attach`, `CORE_link_second_attach`, `CORE_link_detach`
  and `CORE_link_call` (flow, offer, drained, drain, push) run the head of
  the work list or a pending call on the I/O thread.

Spec-modelled core side (connections.c is not in this repository; spec C7):
`CoreProcessAction` accepts or refuses a first attach, counts detaches in
`detach_count` and answers a remote detach with a second detach;
`CoreFirstAttach` and `CoreDetach` are the router opening and closing a link
itself; `CoreScheduleCall` stands for credit and delivery activations.

Instance: two links (one can be opened by the peer and the other by the
router, and the core can act on one between the steps of the other), one
flow frame.

### PolicyGate (`PolicyGate.tla`, instance `MCPolicyGate.tla`)

The policy gate over the whole life of the connections of one user group:

- `SG == INSTANCE PolicyCounters` is the socket gate at accept and close;
- `QdPolicyAmqpOpen` is `qd_policy_amqp_open`: the lookup either allows the
  connection (the group's settings are copied to it) or denies it;
- `PL == INSTANCE PolicyLimits` admits begins and attaches, only on a
  connection the open allowed (`Serving`);
- the socket gate runs on the server's I/O threads (`Threads`), any of which
  may accept or close, so accepts and closes of different connections
  interleave; a connection's own begins and attaches run on the thread
  processing it.

Only `LimitsRespected` is checked here: with two threads the socket and
denial counters are not exact (see `socket_gate_assert` and
`denial_counts_race`).

Instance: two I/O threads, two connections against a connection limit
of 1, three begins and attaches per connection.

## 4. Runs

| Run | Cfg | Expect | What it shows |
|-----|-----|--------|---------------|
| multicast_safety | MCMulticast.cfg | pass | Peer linkage consistent; no two copies of a message on one link; no copy toward a router invalid for the origin named by the ingress annotation; no copy back to a router the trace names; a copy toward every reachable router valid for the origin. About 1.09M states. |
| multicast_liveness | MCMulticastLive.cfg | pass | Every queued outbound delivery is eventually written. |
| anycast | MCAnycast.cfg | pass | Round-robin over in-process subscribers and consumer links. About 510k states. |
| link_name_complete | MCPolicyLinkName.cfg | pass | The CSV matcher approves every name spec §4.5 says the list describes. |
| link_name_exact | MCPolicyLinkNameExact.cfg | violation | An exact token approves every prefix of itself: allowed "ab" approves "a" (`strncmp` bounded by the proposed length, policy.c:614). |
| socket_gate_assert | MCPolicyCountersAssert.cfg | violation | With two threads, a lost update drives `n_connections` negative, failing the assert at policy.c:221. |
| denial_counts_race | MCPolicyLimitsRace.cfg | violation | Two connections of one group lose a denial count (plain `++`, spec §5 says atomic). |
| delivery_references | MCDeliveryRefs.cfg | pass | No use after free; the I/O reference is released exactly once in either settlement order; everything is eventually freed and settled. |
| policy_gate | MCPolicyGate.cfg | pass | Socket gate on two I/O threads, AMQP Open and session/link admission composed: every allowed connection keeps its session, sender and receiver limits while others of its group are accepted, refused and closed. About 5.9M states. |
| link_linkage | MCLinkSafety.cfg | pass | No core callback reaches a freed `qd_link_t`; no `qd_link_t` is freed twice; every peer detach is answered while the connection is up. About 125k states. |
| link_release | MCLinkRelease.cfg | violation | A peer detach crossing the core's refusal of the attach leaves the `qd_link_t` unreferenced and never freed (router_node.c:594, 933). |
| unroutable_release | MCDeliveryUnroutable.cfg | violation | An unaddressed message is REJECTED (router_node.c:418); spec §7 says RELEASED. |

Every property of a passing run has a mutant in PROJECT.json: a plausible
bug in the mapped code that TLC then catches under the same cfg.

### Bounds

- **Forwarder.** `MaxForwards` messages (2 for multicast, 3 for anycast) and
  one route change: a mobile notification, or, with `MaxLinkLosses` = 1, the
  loss of either inter-router link. The loss can fall before, between or
  after the messages. The liveness run sets `MaxLinkLosses` to 0: the
  deliveries queued on a lost link are released by the link's detach, which
  is `LinkLifecycle`'s business, not written. Two messages are enough to reach both node tables, every
  kind of incoming annotation and a shared next hop. Three anycast messages wrap the
  round-robin of two consumers.
- **Policy counters.** In the violation run, four sockets against a limit
  of 2, so that the limit is reached and a refusal follows.
- **Policy limits.** In the violation run, two attempts on each of two
  connections, enough for two concurrent denials.
- **Policy gate.** Two connections against a limit of 1: the second is
  refused while the first is open and admitted after it closes, so the
  group's counters outlive a connection. Three attempts per connection
  reach and exceed the session limit of 1 (two begins) and the sender
  limit of 2 (three attaches). Two I/O threads let an accept and a close
  of different connections interleave.
- **Link lifecycle.** Two links for safety (one peer-opened, one
  router-opened, interleaved); one link for the release question, where the
  leak already needs five steps of three actors. One flow frame; every
  other step of a link happens at most once per link.
- **Delivery lifecycle.** Two messages, so that the work lists and action
  queues interleave items of both.

### Deadlock

`CHECK_DEADLOCK FALSE` is set where the inputs are bounded and the real
system simply idles once they are used up:

- the forwarder after `MaxForwards` messages;
- the socket gate after every socket;
- the limits and the policy gate after `MaxAttempts`;
- the link lifecycle once every link is detached and freed or the
  connection closed.

`DeliveryLifecycle` checks deadlock and allows stuttering only in its
`Terminated` state. `PolicyLinkName` can always take another attach.

### Fairness

- **Forwarder.** Weak fairness on `IoProcess` and `RunGeneralWork`. An
  activated connection is processed by an I/O thread, and the zero-delay
  general-work timer keeps firing while the list is non-empty (spec §4.1,
  §5). No fairness is assumed for message arrival or for route changes.
- **DeliveryLifecycle.** Weak fairness on the core's actions and on every
  handler. The core waits only on an empty action list (spec §5), and an
  activated connection is processed. The producer and the consumer are
  assumed to settle what they received unsettled; without that, a delivery
  is legitimately held for ever.

- **LinkLifecycle.** Weak fairness, per action, on every work callback
  (`CORE_link_first_attach`, `_second_attach`, `_detach`, each link's
  `CORE_link_call`), on the `QD_LOST` detaches and `AMQP_closed_handler`,
  and on the core's `CoreProcessAction`: `qdr_connection_process` drains the
  work list on every activation, and the core thread waits only on an empty
  action list. One fairness condition over all I/O-thread steps would be
  met by flow callbacks alone and let detach work starve, which the code's
  FIFO work list never does. The peer is assumed to answer the router's
  attach and detach (AMQP 1.0 requires it); nothing forces the peer or the
  core to open or close a link, or the connection to drop.

## 5. Findings

See PROJECT.json "findings". In short:

- A `qd_link_t` leaks when the peer's detach crosses the core's own first
  detach of the same link (for instance the refusal of the peer's attach):
  the detach handler leaves the free to the core, and `CORE_link_detach`
  with `first` set only unlinks. Both contexts are then null and nobody
  frees the link until the connection goes.
- The CSV matcher approves prefixes of exact tokens. A token starting with
  `*` approves every name (`OnlyListedApproved` fails in an initial state
  for allowed "*b").
- The socket-gate counters and the group denial counters are unsynchronised
  read-modify-writes. Concurrent accepts can also exceed `maxConnections`:
  `LimitRespected` fails with two threads.
- Unaddressed messages are rejected instead of released.
- The multicast peer back pointer breaks spec §8.2's symmetric linkage. Spec
  §9 accepts this as a known limitation, so it is recorded as a hazard and
  `PeerLinkage` checks the one-sided form the code keeps.

## 6. Not modelled

PROJECT.json "components" lists each part with the reason it is not
modelled. The main gaps:

- the parse-tree link-name mode (parse_tree.c is not in this repository);
- the embedded Python policy engine behind `qd_policy_open_lookup_user`
  (`QdPolicyAmqpOpen` chooses its outcome) and the statistics refresh;
- `qdr_forward_balanced_CT`, a stub the spec calls a placeholder;
- the hostname pattern table (single critical sections);
- `AMQP_opened_handler` and `CORE_connection_activate`: the first is
  configuration and property parsing (role, cost, SSL strings) followed by
  `qdr_connection_opened`; modelling it faithfully needs the core's
  asynchronous "opened" action in `LinkLifecycle`, planned with `Mesh`;
- the "looped" check the comment of `router_annotate_message` announces
  (router_node.c:137): no code implements it, and a loop needs several
  routers to arise;
- atomic.h: no code of this repository includes it, so there is nothing of
  it to model;
- the message layer (planned `MessageDepth`).
