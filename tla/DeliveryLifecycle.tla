-------------------------- MODULE DeliveryLifecycle --------------------------
(***************************************************************************)
(* The I/O bridge of router_node.c for deliveries: a producer sends       *)
(* messages on an incoming link of connection "in", the router core      *)
(* forwards each to one consumer link on connection "out".  Modelled are  *)
(* the four handlers that move a delivery between the wire and the core:  *)
(* AMQP_rx_handler, AMQP_disposition_handler (both connections),          *)
(* CORE_link_deliver and CORE_delivery_update, with the two-way context   *)
(* pointers between a proton delivery and a qdr_delivery_t, and the       *)
(* reference the I/O side holds on the qdr_delivery_t while they are set. *)
(*                                                                         *)
(* Delivery <<m, "in">> is message m's inbound delivery, <<m, "out">> its *)
(* outbound copy; each qdr delivery has at most one proton delivery, so   *)
(* a context pointer is a flag on each side.  The core side (transfer.c,  *)
(* not in this repository) follows spec 4.3: a queued action or work item *)
(* holds a reference, the core holds one while the delivery is unsettled  *)
(* on its link, and settling one of a pair of peers settles the other.    *)
(* Each connection is processed by one I/O thread at a time; the core     *)
(* thread runs concurrently with both.                                    *)
(***************************************************************************)
EXTENDS Integers, Sequences, FiniteSets, SequencesExt

CONSTANTS
  Msgs,              \* messages the producer sends
  Kinds,             \* what AMQP_rx_handler finds in a message
  NoMsg              \* no message is between qdr_link_deliver and its linkage

NONE == "NONE"          \* no disposition
ACCEPTED == "ACCEPTED"  \* PN_ACCEPTED
REJECTED == "REJECTED"  \* PN_REJECTED
RELEASED == "RELEASED"  \* PN_RELEASED
Outcomes == {ACCEPTED, RELEASED}
Sides == {"in", "out"}
Ids == Msgs \X Sides
Peer(d) == <<d[1], IF d[2] = "in" THEN "out" ELSE "in">>

VARIABLES
  pn,         \* [Ids -> proton delivery: wire state and context pointer]
  dl,         \* [Ids -> qdr_delivery_t: context pointer, settled, peer linkage]
  refs,       \* [Ids -> ref_count of the qdr_delivery_t]
  actq,       \* [Sides -> Seq of actions the connection's thread submitted]
  work,       \* [Sides -> Seq of work items the core queued for the connection]
  rxPending,  \* the message AMQP_rx_handler has handed to the core
  ioRef,      \* [Ids -> references the I/O side has taken minus released]
  RemoteSndSettled  \* the consumer link's remote snd-settle-mode is settled

vars == <<pn, dl, refs, actq, work, rxPending, ioRef, RemoteSndSettled>>

NoPn == [exists |-> FALSE, kind |-> NONE, presettled |-> FALSE, received |-> FALSE,
         remoteState |-> NONE, remoteSettled |-> FALSE, localState |-> NONE,
         localSettled |-> FALSE, ctx |-> FALSE, event |-> FALSE]
NoDl == [created |-> FALSE, ctx |-> FALSE, settled |-> FALSE, peer |-> FALSE]

Deliver(d) == [op |-> "deliver", d |-> d]
Update(d, disp, settled, give) ==
  [op |-> "update", d |-> d, disp |-> disp, settled |-> settled, give |-> give]

(* A thread that is processing connection "in" between qdr_link_deliver   *)
(* and the end of the rx handler runs nothing else for that connection.   *)
Idle(side) == side = "in" => rxPending = NoMsg

-----------------------------------------------------------------------------
(* The wire.  A producer transfers message m, pre-settled or not; it      *)
(* settles an unsettled transfer once the router has sent a disposition.  *)
ProducerSend(m, k, settled) ==
  /\ ~pn[<<m, "in">>].exists
  /\ pn' = [pn EXCEPT ![<<m, "in">>] = [NoPn EXCEPT !.exists = TRUE, !.kind = k,
                                          !.presettled = settled, !.remoteSettled = settled]]
  /\ UNCHANGED <<dl, refs, actq, work, rxPending, ioRef, RemoteSndSettled>>

ProducerSettle(m) ==
  LET p == <<m, "in">> IN
  /\ Idle("in")
  /\ pn[p].received /\ ~pn[p].remoteSettled /\ pn[p].localState # NONE
  /\ pn' = [pn EXCEPT ![p].remoteSettled = TRUE, ![p].event = TRUE]
  /\ UNCHANGED <<dl, refs, actq, work, rxPending, ioRef, RemoteSndSettled>>

(* The consumer updates the outcome of an unsettled transfer, settling it *)
(* now or later.                                                           *)
ConsumerDisposition(m, outcome, settle) ==
  LET p == <<m, "out">> IN
  /\ pn[p].exists /\ ~pn[p].presettled /\ ~pn[p].remoteSettled
  /\ settle \/ pn[p].remoteState = NONE
  /\ pn' = [pn EXCEPT ![p].remoteState = outcome, ![p].remoteSettled = settle,
                      ![p].event = TRUE]
  /\ UNCHANGED <<dl, refs, actq, work, rxPending, ioRef, RemoteSndSettled>>

-----------------------------------------------------------------------------
(* An invalid, proxied or unaddressed message: pn_link_flow,              *)
(* pn_delivery_update(REJECTED), pn_delivery_settle, qd_message_free.      *)
RejectDelivery(p) ==
  pn' = [pn EXCEPT ![p].received = TRUE, ![p].localState = REJECTED,
                   ![p].localSettled = TRUE]

(* AMQP_rx_handler up to the hand-off: a complete message on a router     *)
(* link that is not link-routed.  A message that fails qd_message_check   *)
(* or the user-id proxy check, and one without any address, is rejected   *)
(* without the core; otherwise qdr_link_deliver creates the delivery,     *)
(* whose one reference belongs to the link-deliver action.                *)
AMQP_rx_handler(m) ==
  LET p == <<m, "in">> IN
  /\ Idle("in")
  /\ pn[p].exists /\ ~pn[p].received
  /\ IF pn[p].kind = "valid"
     THEN /\ pn' = [pn EXCEPT ![p].received = TRUE]
          /\ dl' = [dl EXCEPT ![p] = [NoDl EXCEPT !.created = TRUE,
                                                  !.settled = pn[p].remoteSettled]]
          /\ refs' = [refs EXCEPT ![p] = 1]
          /\ actq' = [actq EXCEPT !["in"] = Append(@, Deliver(p))]
          /\ rxPending' = m
     ELSE /\ RejectDelivery(p)
          /\ UNCHANGED <<dl, refs, actq, rxPending>>
  /\ UNCHANGED <<work, ioRef, RemoteSndSettled>>

(* Fault model: the I/O reference is taken before the settled test, also *)
(* for a pre-settled transfer.                                             *)
RxLinkIncrefAlways ==
  LET p == <<rxPending, "in">> IN
  /\ rxPending # NoMsg
  /\ refs' = [refs EXCEPT ![p] = @ + 1]
  /\ ioRef' = [ioRef EXCEPT ![p] = @ + 1]
  /\ IF pn[p].remoteSettled
     THEN /\ pn' = [pn EXCEPT ![p].localSettled = TRUE]
          /\ UNCHANGED dl
     ELSE /\ pn' = [pn EXCEPT ![p].ctx = TRUE]
          /\ dl' = [dl EXCEPT ![p].ctx = TRUE]
  /\ rxPending' = NoMsg
  /\ UNCHANGED <<actq, work, RemoteSndSettled>>

(* The rest of AMQP_rx_handler, after qdr_link_deliver returned: a        *)
(* pre-settled transfer is settled, otherwise the two contexts are set    *)
(* and the I/O side takes its reference.  The core may already have       *)
(* processed the action.                                                   *)
RxLink ==
  LET p == <<rxPending, "in">> IN
  /\ rxPending # NoMsg
  /\ IF pn[p].remoteSettled
     THEN /\ pn' = [pn EXCEPT ![p].localSettled = TRUE]
          /\ UNCHANGED <<dl, refs, ioRef>>
     ELSE /\ pn' = [pn EXCEPT ![p].ctx = TRUE]
          /\ dl' = [dl EXCEPT ![p].ctx = TRUE]
          /\ refs' = [refs EXCEPT ![p] = @ + 1]
          /\ ioRef' = [ioRef EXCEPT ![p] = @ + 1]
  /\ rxPending' = NoMsg
  /\ UNCHANGED <<actq, work, RemoteSndSettled>>

(* Fault model: on settlement only the proton side of the linkage is      *)
(* cleared.                                                                *)
AMQP_disposition_handlerKeepsQdrCtx(p) ==
  /\ Idle(p[2])
  /\ pn[p].event
  /\ IF ~pn[p].ctx
     THEN /\ pn' = [pn EXCEPT ![p].event = FALSE]
          /\ UNCHANGED <<dl, refs, actq, ioRef>>
     ELSE LET give == pn[p].remoteSettled IN
          /\ pn' = [pn EXCEPT ![p].event = FALSE,
                              ![p].ctx = IF give THEN FALSE ELSE @,
                              ![p].localSettled = IF give THEN TRUE ELSE @]
          /\ ioRef' = [ioRef EXCEPT ![p] = IF give THEN @ - 1 ELSE @]
          /\ actq' = [actq EXCEPT ![p[2]] =
                        Append(@, Update(p, pn[p].remoteState, give, give))]
          /\ refs' = [refs EXCEPT ![p] = @ + 1]
          /\ UNCHANGED dl
  /\ UNCHANGED <<work, rxPending, RemoteSndSettled>>

(* AMQP_disposition_handler for proton delivery p: ignored without a      *)
(* qdr delivery; on remote settlement both contexts are cleared and the   *)
(* I/O reference is given to the core with the disposition update, whose  *)
(* action holds its own reference; then the proton delivery is settled.   *)
AMQP_disposition_handler(p) ==
  /\ Idle(p[2])
  /\ pn[p].event
  /\ IF ~pn[p].ctx
     THEN /\ pn' = [pn EXCEPT ![p].event = FALSE]
          /\ UNCHANGED <<dl, refs, actq, ioRef>>
     ELSE LET give == pn[p].remoteSettled IN
          /\ pn' = [pn EXCEPT ![p].event = FALSE,
                              ![p].ctx = IF give THEN FALSE ELSE @,
                              ![p].localSettled = IF give THEN TRUE ELSE @]
          /\ dl' = [dl EXCEPT ![p].ctx = IF give THEN FALSE ELSE @]
          /\ ioRef' = [ioRef EXCEPT ![p] = IF give THEN @ - 1 ELSE @]
          /\ actq' = [actq EXCEPT ![p[2]] =
                        Append(@, Update(p, pn[p].remoteState, give, give))]
          /\ refs' = [refs EXCEPT ![p] = @ + 1]
  /\ UNCHANGED <<work, rxPending, RemoteSndSettled>>

-----------------------------------------------------------------------------
(* CORE_link_deliver for the outbound delivery o at the head of the work  *)
(* list of "out": a proton delivery is created; an unsettled delivery to  *)
(* a consumer that does not pre-settle gets the two contexts and an I/O   *)
(* reference; toward a consumer whose snd-settle-mode is settled the core *)
(* is told ACCEPTED+settled; a settled one is settled on the wire.  The   *)
(* work item's reference is dropped when the item is done.                *)
CORE_link_deliver ==
  /\ work["out"] # <<>> /\ Head(work["out"]).op = "deliver"
  /\ LET o       == Head(work["out"]).d
         settled == dl[o].settled
         linked  == ~settled /\ ~RemoteSndSettled
         tellCore == ~settled /\ RemoteSndSettled
     IN  /\ pn' = [pn EXCEPT ![o] = [NoPn EXCEPT !.exists = TRUE,
                                       !.presettled = settled \/ RemoteSndSettled,
                                       !.localSettled = settled \/ RemoteSndSettled,
                                       !.ctx = linked]]
         /\ dl' = [dl EXCEPT ![o].ctx = linked]
         /\ ioRef' = [ioRef EXCEPT ![o] = IF linked THEN @ + 1 ELSE @]
         /\ actq' = [actq EXCEPT !["out"] =
                       IF tellCore THEN Append(@, Update(o, ACCEPTED, TRUE, FALSE)) ELSE @]
         /\ refs' = [refs EXCEPT ![o] = @ + (IF linked THEN 1 ELSE 0)
                                         + (IF tellCore THEN 1 ELSE 0) - 1]
  /\ work' = [work EXCEPT !["out"] = Tail(@)]
  /\ UNCHANGED <<rxPending, RemoteSndSettled>>

(* Fault model: the "if (!pnd) return" test is missing; a settlement     *)
(* drops the I/O reference whether or not it is still held.               *)
CORE_delivery_updateNoCtxCheck(side) ==
  /\ Idle(side)
  /\ work[side] # <<>> /\ Head(work[side]).op = "update"
  /\ LET w == Head(work[side])
         d == w.d
     IN  /\ pn' = [pn EXCEPT ![d].localState =
                                IF w.disp # pn[d].remoteState THEN w.disp ELSE @,
                              ![d].ctx = IF w.settled THEN FALSE ELSE @,
                              ![d].localSettled = IF w.settled THEN TRUE ELSE @]
         /\ dl' = [dl EXCEPT ![d].ctx = IF w.settled THEN FALSE ELSE @]
         /\ refs' = [refs EXCEPT ![d] = @ - (IF w.settled THEN 1 ELSE 0) - 1]
         /\ ioRef' = [ioRef EXCEPT ![d] = IF w.settled THEN @ - 1 ELSE @]
  /\ work' = [work EXCEPT ![side] = Tail(@)]
  /\ UNCHANGED <<actq, rxPending, RemoteSndSettled>>

(* Fault model: settlement unlinks and settles without the decref.        *)
CORE_delivery_updateNoDecref(side) ==
  /\ Idle(side)
  /\ work[side] # <<>> /\ Head(work[side]).op = "update"
  /\ LET w == Head(work[side])
         d == w.d
     IN  IF ~dl[d].ctx
         THEN /\ refs' = [refs EXCEPT ![d] = @ - 1]
              /\ UNCHANGED <<pn, dl, ioRef>>
         ELSE /\ pn' = [pn EXCEPT ![d].localState =
                                    IF w.disp # pn[d].remoteState THEN w.disp ELSE @,
                                  ![d].ctx = IF w.settled THEN FALSE ELSE @,
                                  ![d].localSettled = IF w.settled THEN TRUE ELSE @]
              /\ dl' = [dl EXCEPT ![d].ctx = IF w.settled THEN FALSE ELSE @]
              /\ refs' = [refs EXCEPT ![d] = @ - 1]
              /\ ioRef' = [ioRef EXCEPT ![d] = IF w.settled THEN @ - 1 ELSE @]
  /\ work' = [work EXCEPT ![side] = Tail(@)]
  /\ UNCHANGED <<actq, rxPending, RemoteSndSettled>>

(* CORE_delivery_update for delivery d at the head of side's work list:   *)
(* nothing without a proton delivery; a changed disposition is written to *)
(* the proton delivery; on settlement the contexts are cleared, the       *)
(* proton delivery settled and the I/O reference dropped.                 *)
CORE_delivery_update(side) ==
  /\ Idle(side)
  /\ work[side] # <<>> /\ Head(work[side]).op = "update"
  /\ LET w == Head(work[side])
         d == w.d
     IN  IF ~dl[d].ctx
         THEN /\ refs' = [refs EXCEPT ![d] = @ - 1]
              /\ UNCHANGED <<pn, dl, ioRef>>
         ELSE /\ pn' = [pn EXCEPT ![d].localState =
                                    IF w.disp # pn[d].remoteState THEN w.disp ELSE @,
                                  ![d].ctx = IF w.settled THEN FALSE ELSE @,
                                  ![d].localSettled = IF w.settled THEN TRUE ELSE @]
              /\ dl' = [dl EXCEPT ![d].ctx = IF w.settled THEN FALSE ELSE @]
              /\ refs' = [refs EXCEPT ![d] = @ - (IF w.settled THEN 1 ELSE 0) - 1]
              /\ ioRef' = [ioRef EXCEPT ![d] = IF w.settled THEN @ - 1 ELSE @]
  /\ work' = [work EXCEPT ![side] = Tail(@)]
  /\ UNCHANGED <<actq, rxPending, RemoteSndSettled>>

-----------------------------------------------------------------------------
(* The core thread (transfer.c, spec 4.2-4.3).  The link-deliver action   *)
(* forwards the inbound delivery to the consumer link: the outbound copy  *)
(* shares its settlement, is peer-linked to it while unsettled, and is     *)
(* queued for CORE_link_deliver.  An unsettled delivery is kept on its    *)
(* link's unsettled list, which holds a reference.                        *)
CoreLinkDeliver ==
  /\ actq["in"] # <<>> /\ Head(actq["in"]).op = "deliver"
  /\ LET d == Head(actq["in"]).d
         o == Peer(d)
         s == dl[d].settled
     IN  /\ dl' = [dl EXCEPT ![o] = [NoDl EXCEPT !.created = TRUE, !.settled = s,
                                                  !.peer = ~s],
                             ![d].peer = ~s]
         /\ refs' = [refs EXCEPT ![d] = @ - (IF s THEN 1 ELSE 0),
                                 ![o] = IF s THEN 1 ELSE 2]
         /\ work' = [work EXCEPT !["out"] = Append(@, Deliver(o))]
  /\ actq' = [actq EXCEPT !["in"] = Tail(@)]
  /\ UNCHANGED <<pn, rxPending, ioRef, RemoteSndSettled>>

(* A disposition update: a linked peer gets the disposition (and the      *)
(* settlement) pushed to its connection by a work item holding a          *)
(* reference; a newly settled delivery and its peer leave their unsettled *)
(* lists and are unlinked; a given reference is dropped, and so is the    *)
(* action's own.                                                           *)
CoreUpdateDisposition(side) ==
  /\ actq[side] # <<>> /\ Head(actq[side]).op = "update"
  /\ LET a      == Head(actq[side])
         d      == a.d
         p      == Peer(d)
         linked == dl[d].peer
         newly(x) == a.settled /\ ~dl[x].settled
     IN  /\ dl' = [dl EXCEPT ![d].settled = @ \/ a.settled,
                             ![d].peer = @ /\ ~a.settled,
                             ![p].settled = @ \/ (linked /\ a.settled),
                             ![p].peer = @ /\ ~a.settled]
         /\ refs' = [refs EXCEPT
                       ![d] = @ - 1 - (IF newly(d) THEN 1 ELSE 0) - (IF a.give THEN 1 ELSE 0),
                       ![p] = @ + (IF linked THEN 1 ELSE 0)
                                - (IF linked /\ newly(p) THEN 1 ELSE 0)]
         /\ work' = [work EXCEPT ![p[2]] =
                       IF linked THEN Append(@, Update(p, a.disp, a.settled, FALSE)) ELSE @]
  /\ actq' = [actq EXCEPT ![side] = Tail(@)]
  /\ UNCHANGED <<pn, rxPending, ioRef, RemoteSndSettled>>

-----------------------------------------------------------------------------
Init ==
  /\ pn = [p \in Ids |-> NoPn]
  /\ dl = [d \in Ids |-> NoDl]
  /\ refs = [d \in Ids |-> 0]
  /\ actq = [s \in Sides |-> <<>>]
  /\ work = [s \in Sides |-> <<>>]
  /\ rxPending = NoMsg
  /\ ioRef = [d \in Ids |-> 0]
  /\ RemoteSndSettled \in BOOLEAN

(* Every message has been sent and received and every queue, work list   *)
(* and event handled: the router idles until the next transfer.           *)
Terminated ==
  /\ \A m \in Msgs : pn[<<m, "in">>].received
  /\ \A s \in Sides : actq[s] = <<>> /\ work[s] = <<>>
  /\ rxPending = NoMsg
  /\ \A p \in Ids : ~pn[p].event

Next ==
  \/ Terminated /\ UNCHANGED vars
  \/ \E m \in Msgs, k \in Kinds, s \in BOOLEAN : ProducerSend(m, k, s)
  \/ \E m \in Msgs : ProducerSettle(m) \/ AMQP_rx_handler(m)
  \/ \E m \in Msgs, o \in Outcomes, s \in BOOLEAN : ConsumerDisposition(m, o, s)
  \/ RxLink
  \/ \E p \in Ids : AMQP_disposition_handler(p)
  \/ CORE_link_deliver
  \/ \E s \in Sides : CORE_delivery_update(s) \/ CoreUpdateDisposition(s)
  \/ CoreLinkDeliver

Spec == Init /\ [][Next]_vars

(* The core thread and the I/O threads keep running while they have work  *)
(* (spec 5: the core waits only on an empty action list, an activated     *)
(* connection is processed); the producer and the consumer are assumed to *)
(* settle the transfers they received unsettled.                          *)
Fairness ==
  /\ WF_vars(RxLink)
  /\ \A m \in Msgs : WF_vars(AMQP_rx_handler(m)) /\ WF_vars(ProducerSettle(m))
  /\ \A m \in Msgs : WF_vars(\E o \in Outcomes : ConsumerDisposition(m, o, TRUE))
  /\ \A p \in Ids : WF_vars(AMQP_disposition_handler(p))
  /\ WF_vars(CORE_link_deliver) /\ WF_vars(CoreLinkDeliver)
  /\ \A s \in Sides : WF_vars(CORE_delivery_update(s)) /\ WF_vars(CoreUpdateDisposition(s))

FairSpec == Spec /\ Fairness

-----------------------------------------------------------------------------
Disps == {NONE, ACCEPTED, REJECTED, RELEASED}
Items == [op : {"deliver"}, d : Ids]
           \cup [op : {"update"}, d : Ids, disp : Disps, settled : BOOLEAN, give : BOOLEAN]

TypeOK ==
  /\ refs \in [Ids -> Nat]
  /\ ioRef \in [Ids -> Nat]
  /\ actq \in [Sides -> Seq(Items)]
  /\ work \in [Sides -> Seq(Items)]
  /\ rxPending \in Msgs \cup {NoMsg}

(* Deliveries a queued action or work item, a context pointer or the rx  *)
(* handler in progress refers to (after the hand-off the rx handler only  *)
(* dereferences the delivery of an unsettled transfer).                    *)
Referenced ==
  {a.d : a \in UNION {Range(actq[s]) \cup Range(work[s]) : s \in Sides}}
    \cup {d \in Ids : pn[d].ctx \/ dl[d].ctx}
    \cup {<<m, "in">> : m \in {x \in Msgs \cap {rxPending} : ~pn[<<x, "in">>].remoteSettled}}

(* Spec 3 and 8.2: a delivery is never used after it is freed.  Every     *)
(* qdr_delivery_t that a proton context, a queued action or work item, or *)
(* the rx handler still refers to has a positive reference count, and the *)
(* two context pointers of a delivery are set and cleared together.      *)
NoUseAfterFree ==
  \A d \in Ids :
    /\ d \in Referenced => refs[d] > 0
    /\ pn[d].ctx = dl[d].ctx

(* Spec 4.3: the I/O reference taken when the contexts are linked (rx     *)
(* handler, CORE_link_deliver) is released exactly once, by the           *)
(* disposition handler giving it to the core or by CORE_delivery_update   *)
(* dropping it, whichever sees the settlement first.                      *)
IoReferenceOnce ==
  \A d \in Ids : ioRef[d] = IF dl[d].ctx THEN 1 ELSE 0

(* Spec 3: a delivery is released once both sides have settled it: every *)
(* delivery the rx handler hands to the core, and its outbound copy, is   *)
(* eventually freed, and every transfer is eventually settled by the      *)
(* router.                                                                 *)
DeliveriesReleased ==
  \A d \in Ids :
    /\ dl[d].created ~> refs[d] = 0
    /\ pn[d].exists ~> pn[d].localSettled

(* Spec 7: an unroutable message is released (disposition RELEASED) and  *)
(* the link stays open.  AMQP_rx_handler finds no address at all for a    *)
(* message on an anonymous link without "to".                              *)
UnroutableReleased ==
  \A m \in Msgs :
    pn[<<m, "in">>].kind = "no_address" /\ pn[<<m, "in">>].received
      => pn[<<m, "in">>].localState = RELEASED

=============================================================================
