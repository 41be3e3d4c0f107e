---------------------------- MODULE PolicyLimits ----------------------------
(***************************************************************************)
(* Session and link admission of the policy gate (policy.c):              *)
(* qd_policy_approve_amqp_session, qd_policy_approve_amqp_sender_link and *)
(* qd_policy_approve_amqp_receiver_link on the connections of one policy  *)
(* user group.  Every connection of the group was given the same          *)
(* settings by qd_policy_open_lookup_user, including the pointer to the   *)
(* group's denialCounts record, which the deny paths increment with a     *)
(* plain "++".  A connection is processed by one I/O thread at a time,    *)
(* different connections by different threads, so a "++" is a load and a  *)
(* store that the steps of other connections can separate.               *)
(*                                                                         *)
(* The counts n_sessions, n_senders and n_receivers are kept by the       *)
(* container (container.c, not in this repository): an approved begin or  *)
(* attach adds one, an end or detach takes one away.                      *)
(***************************************************************************)
EXTENDS Integers, Sequences, FiniteSetsExt

CONSTANTS
  Conns,          \* connections of the user group
  SettingsSet,    \* settings records lookup_settings can return
  User,           \* the authenticated user of the group's connections
  Terminus,       \* link source / target addresses a peer can propose
  NoAddress,      \* a terminus without address (NULL or "")
  Dynamic,        \* a dynamic source terminus
  MaxAttempts     \* bound on begins and attaches per connection

Kinds == {"session", "sender", "receiver"}

VARIABLES
  settings,      \* the group's qd_policy_settings_t (read-only after open)
  nCount,        \* [Conns -> [Kinds -> n_sessions / n_senders / n_receivers]]
  denialCounts,  \* [Kinds -> sessionDenied / senderDenied / receiverDenied]
  denials,       \* [Conns -> [Kinds -> denials this connection made]] (history)
  pc,            \* [Conns -> "idle" or the kind whose ++ is half done]
  reg,           \* [Conns -> the counter value loaded by that ++]
  attempts       \* [Conns -> begins and attaches so far]

vars == <<settings, nCount, denialCounts, denials, pc, reg, attempts>>

(* The CSV matcher of PolicyLinkName, for the group's user.               *)
LN == INSTANCE PolicyLinkName
        WITH Users <- {User}, AllowLists <- {}, Names <- {},
             user <- User, allowed <- <<>>, proposed <- <<>>, approved <- FALSE

(* qd_policy_approve_link_name in CSV mode: targets for a sender, sources *)
(* for a receiver.                                                         *)
ApproveLinkName(addr, isReceiver) ==
  LN!ApproveLinkName(User, IF isReceiver THEN settings.sources ELSE settings.targets,
                     addr)

(* The limit test: a limit of 0 means none; n == max denies.               *)
LimitReached(c, k, max) == max # 0 /\ nCount[c][k] = max

(* The deny path: the endpoint is closed and the group's counter for k is *)
(* loaded for its "++"; the store is DenialStore.                          *)
Deny(c, k) ==
  /\ pc' = [pc EXCEPT ![c] = k]
  /\ reg' = [reg EXCEPT ![c] = denialCounts[k]]
  /\ UNCHANGED nCount

(* The container records an approved endpoint.                           *)
Admit(c, k) ==
  /\ nCount' = [nCount EXCEPT ![c][k] = @ + 1]
  /\ UNCHANGED <<pc, reg>>

Begin(c) ==
  /\ pc[c] = "idle"
  /\ attempts[c] < MaxAttempts
  /\ attempts' = [attempts EXCEPT ![c] = @ + 1]

(* History: a begin or attach of kind k that the step did not admit is a  *)
(* refusal.                                                                *)
RecordRefusal(c, k) ==
  denials' = [denials EXCEPT ![c][k] = IF nCount'[c][k] = nCount[c][k] THEN @ + 1 ELSE @]

-----------------------------------------------------------------------------
(* qd_policy_approve_amqp_session with qd_policy_deny_amqp_session.        *)
ApproveAmqpSession(c) ==
  /\ Begin(c)
  /\ IF LimitReached(c, "session", settings.maxSessions)
     THEN Deny(c, "session") ELSE Admit(c, "session")
  /\ RecordRefusal(c, "session")
  /\ UNCHANGED <<settings, denialCounts>>

(* Fault model: the sender limit is tested with ">" instead of "==".       *)
ApproveAmqpSenderLinkGt(c, target) ==
  /\ Begin(c)
  /\ IF \/ settings.maxSenders # 0 /\ nCount[c]["sender"] > settings.maxSenders
        \/ target # NoAddress /\ ~ApproveLinkName(target, FALSE)
        \/ target = NoAddress /\ ~settings.allowAnonymousSender
     THEN Deny(c, "sender") ELSE Admit(c, "sender")
  /\ RecordRefusal(c, "sender")
  /\ UNCHANGED <<settings, denialCounts>>

(* qd_policy_approve_amqp_sender_link: the maxSenders limit, then the     *)
(* target name against the targets list, or, for an anonymous sender,    *)
(* allowAnonymousSender.  Every refusal goes through                      *)
(* _qd_policy_deny_amqp_sender_link.                                        *)
ApproveAmqpSenderLink(c, target) ==
  /\ Begin(c)
  /\ IF \/ LimitReached(c, "sender", settings.maxSenders)
        \/ target # NoAddress /\ ~ApproveLinkName(target, FALSE)
        \/ target = NoAddress /\ ~settings.allowAnonymousSender
     THEN Deny(c, "sender") ELSE Admit(c, "sender")
  /\ RecordRefusal(c, "sender")
  /\ UNCHANGED <<settings, denialCounts>>

(* qd_policy_approve_amqp_receiver_link: the maxReceivers limit; a        *)
(* dynamic source is decided by allowDynamicSource alone; an addressed    *)
(* source is matched against the sources list; a receiver without source *)
(* is refused.                                                             *)
ApproveAmqpReceiverLink(c, source) ==
  /\ Begin(c)
  /\ CASE LimitReached(c, "receiver", settings.maxReceivers) -> Deny(c, "receiver")
       [] source = Dynamic ->
            IF settings.allowDynamicSource THEN Admit(c, "receiver")
                                           ELSE Deny(c, "receiver")
       [] source # NoAddress /\ ApproveLinkName(source, TRUE) -> Admit(c, "receiver")
       [] OTHER -> Deny(c, "receiver")
  /\ RecordRefusal(c, "receiver")
  /\ UNCHANGED <<settings, denialCounts>>

(* The store of "denialCounts->xDenied++" (policy.c:439, 506, 515).        *)
DenialStore(c) ==
  /\ pc[c] # "idle"
  /\ denialCounts' = [denialCounts EXCEPT ![pc[c]] = reg[c] + 1]
  /\ pc' = [pc EXCEPT ![c] = "idle"]
  /\ UNCHANGED <<settings, nCount, denials, reg, attempts>>

(* Session end or link detach, recorded by the container.                 *)
Close(c, k) ==
  /\ pc[c] = "idle"
  /\ nCount[c][k] > 0
  /\ nCount' = [nCount EXCEPT ![c][k] = @ - 1]
  /\ UNCHANGED <<settings, denialCounts, denials, pc, reg, attempts>>

-----------------------------------------------------------------------------
Init ==
  /\ settings \in SettingsSet
  /\ nCount = [c \in Conns |-> [k \in Kinds |-> 0]]
  /\ denialCounts = [k \in Kinds |-> 0]
  /\ denials = [c \in Conns |-> [k \in Kinds |-> 0]]
  /\ pc = [c \in Conns |-> "idle"]
  /\ reg = [c \in Conns |-> 0]
  /\ attempts = [c \in Conns |-> 0]

Next ==
  \E c \in Conns :
    \/ ApproveAmqpSession(c)
    \/ \E t \in Terminus \cup {NoAddress} : ApproveAmqpSenderLink(c, t)
    \/ \E s \in Terminus \cup {NoAddress, Dynamic} : ApproveAmqpReceiverLink(c, s)
    \/ DenialStore(c)
    \/ \E k \in Kinds : Close(c, k)

Spec == Init /\ [][Next]_vars

-----------------------------------------------------------------------------
(* Spec 4.5 and scenario 8.3: a connection never holds more sessions,     *)
(* senders or receivers than the settings allow, whatever order begins,   *)
(* attaches, ends and detaches arrive in (the limit tests use "==").      *)
LimitsRespected ==
  \A c \in Conns :
    /\ settings.maxSessions # 0 => nCount[c]["session"] <= settings.maxSessions
    /\ settings.maxSenders # 0 => nCount[c]["sender"] <= settings.maxSenders
    /\ settings.maxReceivers # 0 => nCount[c]["receiver"] <= settings.maxReceivers

(* Spec 4.5 and 5: every refusal of a begin or attach is counted once in  *)
(* the group's sessionDenied / senderDenied / receiverDenied.  Whenever no *)
(* connection is inside a deny path, each counter equals the refusals of  *)
(* its kind made on all connections of the group.                         *)
DenialsCounted ==
  (\A c \in Conns : pc[c] = "idle") =>
    \A k \in Kinds :
      denialCounts[k] = MapThenSumSet(LAMBDA c : denials[c][k], Conns)

=============================================================================
