--------------------------- MODULE LinkLifecycle ---------------------------
(***************************************************************************)
(* The link handlers of the I/O bridge (router_node.c) on one connection:  *)
(* the attach, flow and detach handlers the container calls for proton     *)
(* events, the core's link callbacks (CORE_link_first_attach, _second_    *)
(* attach, _detach, _flow, _offer, _drained, _drain, _push) that the      *)
(* connection's I/O thread runs from the connection's work, and           *)
(* AMQP_closed_handler.  A link is a qd_link_t (I/O side) and a qdr_link_t *)
(* (core side) that point at each other through two context pointers;    *)
(* the qd_link_t is freed either by the detach handler or by the second   *)
(* CORE_link_detach.                                                        *)
(*                                                                         *)
(* The core side (connections.c, not in this repository) follows spec    *)
(* C7: a remote first attach is answered by a second attach or refused by *)
(* a detach; a detach is two-sided, detach_count counting both directions, *)
(* the first outbound detach is "first", the one answering a remote       *)
(* detach is not; a LOST detach (connection drop) short-circuits both     *)
(* sides, the core freeing its own resources silently.  The qdr_link_t's  *)
(* own lifetime is not modelled.  One I/O thread processes the connection *)
(* at a time; the core thread runs concurrently with it.                  *)
(***************************************************************************)
EXTENDS Integers, Sequences, SequencesExt

CONSTANTS
  Links,      \* the links of the connection
  MaxFlows,   \* bound on the flow frames the peer sends
  NoLink      \* the link field of a connection-level action

VARIABLES
  qd,       \* [Links -> "none" | "live" | "freed"]: the qd_link_t
  qdCtx,    \* [Links -> qd_link_get_context is the qdr_link_t]
  qdr,      \* [Links -> qdr_link_t: exists, core (known to the core thread),
            \*           ctx (to the qd_link_t), detach_count]
  pnl,      \* [Links -> proton link: local and remote endpoint state]
  actions,  \* Seq of actions the I/O thread posted to the core
  work,     \* Seq of the connection's work items from the core
  calls,    \* [Links -> a link callback the core scheduled is pending]
  io,       \* the connection on the I/O side: "up", "lost" (links being
            \* detached as lost) or "closed"
  coreUp,   \* the core has not yet processed qdr_connection_closed
  frees,    \* [Links -> qd_link_free calls so far] (history)
  flows     \* flow frames received so far

vars == <<qd, qdCtx, qdr, pnl, actions, work, calls, io, coreUp, frees, flows>>

Action(op, l, lost) == [op |-> op, l |-> l, lost |-> lost]
Work(op, l, first) == [op |-> op, l |-> l, first |-> first]

(* qd_link_free: the proton link's context is cleared with it, so no      *)
(* later proton event reaches a handler for this link.                    *)
QdLinkFree(l) ==
  /\ qd' = [qd EXCEPT ![l] = "freed"]
  /\ frees' = [frees EXCEPT ![l] = @ + 1]

(* The container calls a handler for a link only while the connection is  *)
(* open and the link's qd_link_t exists.                                  *)
Event(l) == io = "up" /\ qd[l] = "live"

(* Fault model: the lost / core-gone branch frees the qd_link_t but       *)
(* leaves the core->proton linkage in place.                              *)
DetachBodyKeepsCoreCtx(l, lost) ==
  IF ~qdCtx[l] THEN UNCHANGED <<qd, qdCtx, qdr, actions, frees>>
  ELSE /\ actions' = Append(actions, Action("detach", l, lost))
       /\ qdCtx' = [qdCtx EXCEPT ![l] = FALSE]
       /\ IF lost \/ ~qdr[l].ctx
          THEN /\ QdLinkFree(l)
               /\ UNCHANGED qdr
          ELSE UNCHANGED <<qdr, qd, frees>>

(* Fault model: the qd_link_t is freed whatever the core side holds.      *)
DetachBodyFreesAlways(l, lost) ==
  IF ~qdCtx[l] THEN UNCHANGED <<qd, qdCtx, qdr, actions, frees>>
  ELSE /\ actions' = Append(actions, Action("detach", l, lost))
       /\ qdCtx' = [qdCtx EXCEPT ![l] = FALSE]
       /\ IF lost \/ ~qdr[l].ctx
          THEN qdr' = [qdr EXCEPT ![l].ctx = FALSE]
          ELSE UNCHANGED qdr
       /\ QdLinkFree(l)

(* Fault model: the core->proton linkage is removed before it is tested,  *)
(* so every detach frees the qd_link_t at once.                           *)
DetachBodyUnlinksFirst(l, lost) ==
  IF ~qdCtx[l] THEN UNCHANGED <<qd, qdCtx, qdr, actions, frees>>
  ELSE /\ actions' = Append(actions, Action("detach", l, lost))
       /\ qdCtx' = [qdCtx EXCEPT ![l] = FALSE]
       /\ qdr' = [qdr EXCEPT ![l].ctx = FALSE]
       /\ QdLinkFree(l)

(* The body of AMQP_link_detach_handler: if the proton->core linkage is   *)
(* set, the detach goes to the core and that linkage is removed; for a    *)
(* lost link, or one whose core->proton linkage is already gone, the      *)
(* other linkage is removed too and the qd_link_t freed, since no second  *)
(* CORE_link_detach will come.                                              *)
DetachBody(l, lost) ==
  IF ~qdCtx[l] THEN UNCHANGED <<qd, qdCtx, qdr, actions, frees>>
  ELSE /\ actions' = Append(actions, Action("detach", l, lost))
       /\ qdCtx' = [qdCtx EXCEPT ![l] = FALSE]
       /\ IF lost \/ ~qdr[l].ctx
          THEN /\ qdr' = [qdr EXCEPT ![l].ctx = FALSE]
               /\ QdLinkFree(l)
          ELSE UNCHANGED <<qdr, qd, frees>>

-----------------------------------------------------------------------------
(* AMQP_incoming_link_handler and AMQP_outgoing_link_handler: a link the   *)
(* peer attaches first.  qdr_link_first_attach creates the qdr_link_t and  *)
(* posts the first-attach action; both contexts are set.                  *)
AMQP_link_first_attach_handler(l) ==
  /\ io = "up"
  /\ qd[l] = "none" /\ ~qdr[l].exists
  /\ qd' = [qd EXCEPT ![l] = "live"]
  /\ qdCtx' = [qdCtx EXCEPT ![l] = TRUE]
  /\ qdr' = [qdr EXCEPT ![l] = [exists |-> TRUE, core |-> FALSE, ctx |-> TRUE,
                                        detachCount |-> 0]]
  /\ pnl' = [pnl EXCEPT ![l].remote = "active"]
  /\ actions' = Append(actions, Action("first_attach", l, FALSE))
  /\ UNCHANGED <<work, calls, io, coreUp, frees, flows>>

(* AMQP_link_attach_handler: the peer answers an attach the router sent;  *)
(* qdr_link_second_attach is posted for the qd_link_t's qdr_link_t.        *)
AMQP_link_attach_handler(l) ==
  /\ Event(l)
  /\ pnl[l].local # "uninit" /\ pnl[l].remote = "uninit"
  /\ pnl' = [pnl EXCEPT ![l].remote = "active"]
  /\ actions' = Append(actions, Action("second_attach", l, FALSE))
  /\ UNCHANGED <<qd, qdCtx, qdr, work, calls, io, coreUp, frees, flows>>

(* AMQP_link_flow_handler: the peer's credit goes to the core, unless the *)
(* proton->core linkage is already gone.                                  *)
AMQP_link_flow_handler(l) ==
  /\ Event(l)
  /\ pnl[l].remote = "active"
  /\ flows < MaxFlows
  /\ flows' = flows + 1
  /\ actions' = IF qdCtx[l] THEN Append(actions, Action("flow", l, FALSE)) ELSE actions
  /\ UNCHANGED <<qd, qdCtx, qdr, pnl, work, calls, io, coreUp, frees>>

(* AMQP_link_detach_handler for a detach frame from the peer.             *)
AMQP_link_detach_handler(l) ==
  /\ Event(l)
  /\ pnl[l].remote = "active"
  /\ pnl' = [pnl EXCEPT ![l].remote = "closed"]
  /\ DetachBody(l, FALSE)
  /\ UNCHANGED <<work, calls, io, coreUp, flows>>

(* The connection drops.  From here on the connection's work is never     *)
(* processed again and the container calls AMQP_link_detach_handler with  *)
(* QD_LOST for each link that has a qd_link_t.                             *)
ConnectionLost ==
  /\ io = "up"
  /\ io' = "lost"
  /\ UNCHANGED <<qd, qdCtx, qdr, pnl, actions, work, calls, coreUp, frees, flows>>

LostDetach(l) ==
  /\ io = "lost" /\ qd[l] = "live" /\ qdCtx[l]
  /\ DetachBody(l, TRUE)
  /\ UNCHANGED <<pnl, work, calls, io, coreUp, flows>>

(* AMQP_closed_handler, after the links: qdr_connection_closed.            *)
AMQP_closed_handler ==
  /\ io = "lost"
  /\ \A l \in Links : qd[l] = "live" => ~qdCtx[l]
  /\ io' = "closed"
  /\ actions' = Append(actions, Action("conn_closed", NoLink, FALSE))
  /\ UNCHANGED <<qd, qdCtx, qdr, pnl, work, calls, coreUp, frees, flows>>

-----------------------------------------------------------------------------
(* The core's callbacks, run by the connection's I/O thread in the order  *)
(* the core queued them.                                                   *)
NextWork(op) == io = "up" /\ work # <<>> /\ Head(work).op = op

(* CORE_link_first_attach: a link the router attaches first; the qd_link_t *)
(* is created, the two contexts set and the proton link opened.           *)
CORE_link_first_attach ==
  LET l == Head(work).l IN
  /\ NextWork("first_attach")
  /\ qd' = [qd EXCEPT ![l] = "live"]
  /\ qdCtx' = [qdCtx EXCEPT ![l] = TRUE]
  /\ qdr' = [qdr EXCEPT ![l].ctx = TRUE]
  /\ pnl' = [pnl EXCEPT ![l].local = "active"]
  /\ work' = Tail(work)
  /\ UNCHANGED <<actions, calls, io, coreUp, frees, flows>>

(* CORE_link_second_attach: opens the proton link unless the core->proton *)
(* linkage is gone.                                                         *)
CORE_link_second_attach ==
  LET l == Head(work).l IN
  /\ NextWork("second_attach")
  /\ pnl' = IF qdr[l].ctx /\ pnl[l].local = "uninit"
            THEN [pnl EXCEPT ![l].local = "active"] ELSE pnl
  /\ work' = Tail(work)
  /\ UNCHANGED <<qd, qdCtx, qdr, actions, calls, io, coreUp, frees, flows>>

(* CORE_link_detach: closes or detaches the proton link and removes the   *)
(* core->proton linkage; the second detach frees the qd_link_t.            *)
CORE_link_detach ==
  LET l == Head(work).l
      first == Head(work).first IN
  /\ NextWork("detach")
  /\ IF qdr[l].ctx
     THEN /\ pnl' = [pnl EXCEPT ![l].local = "closed"]
          /\ qdr' = [qdr EXCEPT ![l].ctx = FALSE]
          /\ IF first THEN UNCHANGED <<qd, frees>> ELSE QdLinkFree(l)
     ELSE UNCHANGED <<pnl, qdr, qd, frees>>
  /\ work' = Tail(work)
  /\ UNCHANGED <<qdCtx, actions, calls, io, coreUp, flows>>

(* CORE_link_flow, _offer, _drained, _drain and _push: each returns when   *)
(* the core->proton linkage is gone, else acts on the proton link          *)
(* (credit, not modelled, so the five are one step here).                   *)
CORE_link_call(l) ==
  /\ io = "up"
  /\ calls[l]
  /\ calls' = [calls EXCEPT ![l] = FALSE]
  /\ UNCHANGED <<qd, qdCtx, qdr, pnl, actions, work, io, coreUp, frees, flows>>

-----------------------------------------------------------------------------
(* The core (connections.c, spec C7).  An outbound detach counts in       *)
(* detach_count and is "first" when it is the first detach of the link.   *)
OutboundDetach(l, count) ==
  /\ qdr' = [qdr EXCEPT ![l].detachCount = count + 1]
  /\ work' = Append(work, Work("detach", l, count + 1 = 1))

(* The core attaches a link first (an outgoing route or link route).      *)
CoreFirstAttach(l) ==
  /\ coreUp
  /\ qd[l] = "none" /\ ~qdr[l].exists
  /\ qdr' = [qdr EXCEPT ![l] = [exists |-> TRUE, core |-> TRUE, ctx |-> FALSE,
                                        detachCount |-> 0]]
  /\ work' = Append(work, Work("first_attach", l, FALSE))
  /\ UNCHANGED <<qd, qdCtx, pnl, actions, calls, io, coreUp, frees, flows>>

(* The core detaches a link on its own (address gone, policy, error).     *)
CoreDetach(l) ==
  /\ coreUp
  /\ qdr[l].core /\ qdr[l].detachCount = 0
  /\ OutboundDetach(l, 0)
  /\ UNCHANGED <<qd, qdCtx, pnl, actions, calls, io, coreUp, frees, flows>>

(* The core schedules a link callback (credit, deliveries, drain).        *)
CoreScheduleCall(l) ==
  /\ coreUp
  /\ qdr[l].core /\ qdr[l].detachCount = 0
  /\ ~calls[l]
  /\ calls' = [calls EXCEPT ![l] = TRUE]
  /\ UNCHANGED <<qd, qdCtx, qdr, pnl, actions, work, io, coreUp, frees, flows>>

(* Fault model: every inbound detach that is not lost is answered with an *)
(* outbound detach, also when the router's own detach went first.         *)
CoreProcessActionAlwaysAnswers ==
  LET a == Head(actions)
      l == a.l IN
  /\ actions # <<>>
  /\ actions' = Tail(actions)
  /\ CASE a.op = "first_attach" ->
            \/ /\ qdr' = [qdr EXCEPT ![l].core = TRUE]
               /\ work' = Append(work, Work("second_attach", l, FALSE))
               /\ UNCHANGED <<calls, coreUp>>
            \/ /\ qdr' = [qdr EXCEPT ![l].core = TRUE, ![l].detachCount = @ + 1]
               /\ work' = Append(work, Work("detach", l, qdr[l].detachCount = 0))
               /\ UNCHANGED <<calls, coreUp>>
       [] a.op = "detach" /\ a.lost ->
            /\ qdr' = [qdr EXCEPT ![l].detachCount = @ + 1]
            /\ UNCHANGED <<work, calls, coreUp>>
       [] a.op = "detach" ->
            /\ OutboundDetach(l, qdr[l].detachCount + 1)
            /\ UNCHANGED <<calls, coreUp>>
       [] a.op = "conn_closed" ->
            /\ coreUp' = FALSE
            /\ work' = <<>>
            /\ calls' = [k \in Links |-> FALSE]
            /\ UNCHANGED qdr
       [] OTHER -> UNCHANGED <<qdr, work, calls, coreUp>>
  /\ UNCHANGED <<qd, qdCtx, pnl, io, frees, flows>>

(* The core processes the next action from the connection: it answers or *)
(* refuses a first attach; it counts an inbound detach and answers the    *)
(* first one with the second outbound detach, unless the link was lost;   *)
(* a closed connection's work and links are dropped.                      *)
CoreProcessAction ==
  LET a == Head(actions)
      l == a.l IN
  /\ actions # <<>>
  /\ actions' = Tail(actions)
  /\ CASE a.op = "first_attach" ->
            \/ /\ qdr' = [qdr EXCEPT ![l].core = TRUE]
               /\ work' = Append(work, Work("second_attach", l, FALSE))
               /\ UNCHANGED <<calls, coreUp>>
            \/ /\ qdr' = [qdr EXCEPT ![l].core = TRUE, ![l].detachCount = @ + 1]
               /\ work' = Append(work, Work("detach", l, qdr[l].detachCount = 0))
               /\ UNCHANGED <<calls, coreUp>>
       [] a.op = "detach" /\ (a.lost \/ qdr[l].detachCount = 1) ->
            /\ qdr' = [qdr EXCEPT ![l].detachCount = @ + 1]
            /\ UNCHANGED <<work, calls, coreUp>>
       [] a.op = "detach" ->
            /\ OutboundDetach(l, qdr[l].detachCount + 1)
            /\ UNCHANGED <<calls, coreUp>>
       [] a.op = "conn_closed" ->
            /\ coreUp' = FALSE
            /\ work' = <<>>
            /\ calls' = [k \in Links |-> FALSE]
            /\ UNCHANGED qdr
       [] OTHER -> UNCHANGED <<qdr, work, calls, coreUp>>
  /\ UNCHANGED <<qd, qdCtx, pnl, io, frees, flows>>

-----------------------------------------------------------------------------
Init ==
  /\ qd = [l \in Links |-> "none"]
  /\ qdCtx = [l \in Links |-> FALSE]
  /\ qdr = [l \in Links |-> [exists |-> FALSE, core |-> FALSE, ctx |-> FALSE,
                                  detachCount |-> 0]]
  /\ pnl = [l \in Links |-> [local |-> "uninit", remote |-> "uninit"]]
  /\ actions = <<>>
  /\ work = <<>>
  /\ calls = [l \in Links |-> FALSE]
  /\ io = "up"
  /\ coreUp = TRUE
  /\ frees = [l \in Links |-> 0]
  /\ flows = 0

(* The peer's frames.                                                       *)
Peer ==
  \E l \in Links :
    \/ AMQP_link_first_attach_handler(l)
    \/ AMQP_link_attach_handler(l)
    \/ AMQP_link_flow_handler(l)
    \/ AMQP_link_detach_handler(l)

IoThread ==
  \/ CORE_link_first_attach \/ CORE_link_second_attach \/ CORE_link_detach
  \/ \E l \in Links : CORE_link_call(l)
  \/ \E l \in Links : LostDetach(l)
  \/ AMQP_closed_handler

Core ==
  \/ CoreProcessAction
  \/ \E l \in Links : CoreFirstAttach(l) \/ CoreDetach(l)
  \/ \E l \in Links : CoreScheduleCall(l)

Next == Peer \/ ConnectionLost \/ IoThread \/ Core

Spec == Init /\ [][Next]_vars

(* The I/O thread runs every callback the core queued and every handler  *)
(* of a dropped connection (qdr_connection_process drains the work list   *)
(* on each activation), and the core thread processes every action; a     *)
(* peer answers the attaches and detaches the router sends (AMQP 1.0      *)
(* requires it).  Nothing forces a peer to attach, detach or send flow,   *)
(* the core to open or detach a link, or the connection to drop.          *)
Fairness ==
  /\ WF_vars(CORE_link_first_attach)
  /\ WF_vars(CORE_link_second_attach)
  /\ WF_vars(CORE_link_detach)
  /\ WF_vars(AMQP_closed_handler)
  /\ WF_vars(CoreProcessAction)
  /\ \A l \in Links :
       /\ WF_vars(LostDetach(l))
       /\ WF_vars(AMQP_link_attach_handler(l))
       /\ WF_vars(pnl[l].local = "closed" /\ AMQP_link_detach_handler(l))
       /\ WF_vars(CORE_link_call(l))

FairSpec == Spec /\ Fairness

-----------------------------------------------------------------------------
TypeOK ==
  /\ qd \in [Links -> {"none", "live", "freed"}]
  /\ qdCtx \in [Links -> BOOLEAN]
  /\ qdr \in [Links -> [exists : BOOLEAN, core : BOOLEAN, ctx : BOOLEAN,
                        detachCount : 0..2]]
  /\ pnl \in [Links -> [local : {"uninit", "active", "closed"},
                        remote : {"uninit", "active", "closed"}]]
  /\ calls \in [Links -> BOOLEAN]
  /\ io \in {"up", "lost", "closed"}
  /\ coreUp \in BOOLEAN

(* The qd_link_t the core's callbacks reach through qdr_link_get_context   *)
(* is never one that was freed: whichever of the detach handler, the       *)
(* QD_LOST path or the second CORE_link_detach frees it, the core->proton *)
(* linkage is removed in the same step, so a CORE_link_* callback still   *)
(* queued for the link returns early instead of using freed memory.       *)
NoDanglingLinkage ==
  \A l \in Links : qdr[l].ctx => qd[l] = "live"

(* A qd_link_t is freed at most once, whatever order the peer's detach,   *)
(* the core's detach and a connection drop arrive in.                      *)
FreedOnce ==
  \A l \in Links : frees[l] <= 1

(* Spec C7: a detach is two-sided.  A detach from the peer is answered by *)
(* a detach from the router (the second CORE_link_detach, or the first    *)
(* if the router's own detach crossed it) while the connection is up.     *)
DetachAnswered ==
  \A l \in Links :
    (pnl[l].remote = "closed" /\ pnl[l].local # "closed")
      ~> (pnl[l].local = "closed" \/ io # "up")

(* Once both ends of a link are detached, the qd_link_t is eventually     *)
(* freed while the connection stays up: the detach handler frees it when  *)
(* the core->proton linkage is already gone, CORE_link_detach when it is  *)
(* the second detach.                                                       *)
QdLinkReleased ==
  \A l \in Links :
    (pnl[l].local = "closed" /\ pnl[l].remote = "closed")
      ~> (qd[l] = "freed" \/ io # "up")

====
