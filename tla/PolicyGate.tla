----------------------------- MODULE PolicyGate -----------------------------
(***************************************************************************)
(* The policy gate of policy.c over the whole life of a connection of one *)
(* user group: the socket gate (PolicyCounters) admits or refuses the      *)
(* socket, qd_policy_amqp_open looks the user up when the AMQP Open frame  *)
(* arrives and allows or closes the connection, the session and link      *)
(* admission of PolicyLimits runs on allowed connections only, and        *)
(* qd_policy_socket_close ends the connection.  Every allowed connection  *)
(* of the group gets the group's settings, with the pointer to its        *)
(* denialCounts record, from qd_policy_open_lookup_user.                  *)
(*                                                                         *)
(* The server's I/O threads (Threads) run the socket gate: any of them    *)
(* may accept a socket or close a connection, so accepts and closes of    *)
(* different connections interleave on the plain-int counters.  Each      *)
(* connection's begin, attach, end and detach run on the thread then      *)
(* processing it, so a connection's close never splits its own            *)
(* "denialCounts->x++".                                                    *)
(***************************************************************************)
EXTENDS Integers, FiniteSets

CONSTANTS
  Threads, Conns, MaxConnectionLimit, NoSocket,
  SettingsSet, User, Terminus, NoAddress, Dynamic, MaxAttempts

VARIABLES
  nConnections, nDenied, nProcessed, sock, sgPc, cur, sgReg,
  settings, nCount, denialCounts, denials, plPc, plReg, attempts,
  opened      \* [Conns -> "none" | "allowed" | "denied"]: AMQP Open outcome

sgVars == <<nConnections, nDenied, nProcessed, sock, sgPc, cur, sgReg>>
plVars == <<settings, nCount, denialCounts, denials, plPc, plReg, attempts>>
vars == <<sgVars, plVars, opened>>

SG == INSTANCE PolicyCounters
        WITH Sockets <- Conns, pc <- sgPc, reg <- sgReg
PL == INSTANCE PolicyLimits
        WITH pc <- plPc, reg <- plReg

-----------------------------------------------------------------------------
(* qd_policy_amqp_open with qd_policy_open_lookup_user, for a connection   *)
(* the socket gate admitted.  The lookup in the policy engine either       *)
(* returns the group's settings name, and the settings are copied to the  *)
(* connection, or returns nothing (user, host or vhost not allowed, or a  *)
(* name too long for the buffer), and the connection is closed with       *)
(* resource-limit-exceeded.                                                 *)
QdPolicyAmqpOpen(c) ==
  /\ sock[c] = "open"
  /\ opened[c] = "none"
  /\ \E allowed \in BOOLEAN :
       opened' = [opened EXCEPT ![c] = IF allowed THEN "allowed" ELSE "denied"]
  /\ UNCHANGED <<sgVars, plVars>>

(* The container asks the gate about a begin or attach only on a          *)
(* connection the open allowed and that is not closing.                   *)
Serving(c) == sock[c] = "open" /\ opened[c] = "allowed"

(* A begin, attach, end or detach on connection c, through PolicyLimits.  *)
ConnStep(c) ==
  /\ \/ Serving(c) /\ PL!ApproveAmqpSession(c)
     \/ Serving(c) /\ \E t \in Terminus \cup {NoAddress} : PL!ApproveAmqpSenderLink(c, t)
     \/ Serving(c) /\ \E s \in Terminus \cup {NoAddress, Dynamic} :
                        PL!ApproveAmqpReceiverLink(c, s)
     \/ PL!DenialStore(c)
     \/ Serving(c) /\ \E k \in PL!Kinds : PL!Close(c, k)
  /\ UNCHANGED <<sgVars, opened>>

(* The socket gate on any I/O thread; the close of a connection is never  *)
(* in the middle of that connection's own denial count.                   *)
SocketStep ==
  /\ \/ \E t \in Threads :
          \/ \E s \in Conns : SG!AcceptCheck(t, s)
          \/ \E s \in Conns : plPc[s] = "idle" /\ SG!CloseLoad(t, s)
          \/ SG!ConnStore(t) \/ SG!DeniedLoad(t) \/ SG!DeniedStore(t)
          \/ SG!ProcLoad(t) \/ SG!ProcStore(t) \/ SG!CloseStore(t)
  /\ UNCHANGED <<plVars, opened>>

Init ==
  /\ SG!Init
  /\ PL!Init
  /\ opened = [c \in Conns |-> "none"]

Next ==
  \/ SocketStep
  \/ \E c \in Conns : QdPolicyAmqpOpen(c) \/ ConnStep(c)

Spec == Init /\ [][Next]_vars

-----------------------------------------------------------------------------
(* PolicyLimits' LimitsRespected on the composed system: each connection  *)
(* the open allowed stays within its group's session, sender and receiver *)
(* limits (the n == max tests of policy.c:450, 659, 710), while the gate's *)
(* threads accept and close other connections of the group and other      *)
(* connections' denials run.  The process-wide counters and the shared    *)
(* denial counts do not stay exact here; socket_gate_assert and            *)
(* denial_counts_race show why.                                            *)
LimitsRespected == PL!LimitsRespected

=============================================================================
