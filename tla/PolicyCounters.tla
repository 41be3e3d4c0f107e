--------------------------- MODULE PolicyCounters ---------------------------
(***************************************************************************)
(* The socket-level connection gate of policy.c: qd_policy_socket_accept   *)
(* and qd_policy_socket_close on the process-wide counters n_connections, *)
(* n_denied and n_processed.  The counters are plain ints, and the gate   *)
(* is called by the I/O threads of the server, so each "x += 1" is a load *)
(* into a register followed by a store, and the steps of different threads *)
(* interleave (a data race: every interleaving of the loads and stores is *)
(* an outcome the build can produce).                                      *)
(*                                                                         *)
(* A socket goes new -> admitted -> open, or new -> refusing -> denied,   *)
(* in accept, and open -> closing -> closed in close.  A socket is closed *)
(* through the gate only after its accept returned true.                  *)
(***************************************************************************)
EXTENDS Integers, FiniteSets

CONSTANTS
  Threads,             \* I/O threads that call the gate
  Sockets,             \* incoming sockets (bounds the number of accepts)
  MaxConnectionLimit,  \* policy->max_connection_limit
  NoSocket             \* a thread handling no socket

VARIABLES
  nConnections,  \* n_connections
  nDenied,       \* n_denied
  nProcessed,    \* n_processed
  sock,          \* [Sockets -> status]
  pc,            \* [Threads -> the step the thread is at]
  cur,           \* [Threads -> the socket the thread is handling]
  reg            \* [Threads -> the value the thread loaded]

vars == <<nConnections, nDenied, nProcessed, sock, pc, cur, reg>>

-----------------------------------------------------------------------------
(* qd_policy_socket_accept, line 201: the compare and the load of          *)
(* "n_connections += 1" read the counter once; the connection is allowed  *)
(* iff the value read is below the limit.                                 *)
AcceptCheck(t, s) ==
  /\ pc[t] = "idle"
  /\ sock[s] = "new"
  /\ sock' = [sock EXCEPT ![s] = IF nConnections < MaxConnectionLimit
                                 THEN "admitted" ELSE "refusing"]
  /\ reg' = [reg EXCEPT ![t] = nConnections]
  /\ pc' = [pc EXCEPT ![t] = IF nConnections < MaxConnectionLimit
                             THEN "conn_store" ELSE "denied_load"]
  /\ cur' = [cur EXCEPT ![t] = s]
  /\ UNCHANGED <<nConnections, nDenied, nProcessed>>

(* Line 203: the store of n_connections + 1.                              *)
ConnStore(t) ==
  /\ pc[t] = "conn_store"
  /\ nConnections' = reg[t] + 1
  /\ pc' = [pc EXCEPT ![t] = "proc_load"]
  /\ UNCHANGED <<nDenied, nProcessed, sock, cur, reg>>

(* Line 208: n_denied += 1, a load and a store.                           *)
DeniedLoad(t) ==
  /\ pc[t] = "denied_load"
  /\ reg' = [reg EXCEPT ![t] = nDenied]
  /\ pc' = [pc EXCEPT ![t] = "denied_store"]
  /\ UNCHANGED <<nConnections, nDenied, nProcessed, sock, cur>>

DeniedStore(t) ==
  /\ pc[t] = "denied_store"
  /\ nDenied' = reg[t] + 1
  /\ pc' = [pc EXCEPT ![t] = "proc_load"]
  /\ UNCHANGED <<nConnections, nProcessed, sock, cur, reg>>

(* Line 211: n_processed += 1, after which accept returns its result.    *)
ProcLoad(t) ==
  /\ pc[t] = "proc_load"
  /\ reg' = [reg EXCEPT ![t] = nProcessed]
  /\ pc' = [pc EXCEPT ![t] = "proc_store"]
  /\ UNCHANGED <<nConnections, nDenied, nProcessed, sock, cur>>

ProcStore(t) ==
  /\ pc[t] = "proc_store"
  /\ nProcessed' = reg[t] + 1
  /\ sock' = [sock EXCEPT ![cur[t]] = IF @ = "admitted" THEN "open" ELSE "denied"]
  /\ pc' = [pc EXCEPT ![t] = "idle"]
  /\ cur' = [cur EXCEPT ![t] = NoSocket]
  /\ UNCHANGED <<nConnections, nDenied, reg>>

(* qd_policy_socket_close, line 220: the load of "n_connections -= 1".     *)
(* Only an accepted socket is closed through the gate.                    *)
CloseLoad(t, s) ==
  /\ pc[t] = "idle"
  /\ sock[s] = "open"
  /\ sock' = [sock EXCEPT ![s] = "closing"]
  /\ reg' = [reg EXCEPT ![t] = nConnections]
  /\ pc' = [pc EXCEPT ![t] = "close_store"]
  /\ cur' = [cur EXCEPT ![t] = s]
  /\ UNCHANGED <<nConnections, nDenied, nProcessed>>

(* Lines 220-221: the store of n_connections - 1; the assert that follows *)
(* is the invariant CountNonNegative.  The vhost-policy notification to   *)
(* the policy manager and the log line change none of the counters.       *)
CloseStore(t) ==
  /\ pc[t] = "close_store"
  /\ nConnections' = reg[t] - 1
  /\ sock' = [sock EXCEPT ![cur[t]] = "closed"]
  /\ pc' = [pc EXCEPT ![t] = "idle"]
  /\ cur' = [cur EXCEPT ![t] = NoSocket]
  /\ UNCHANGED <<nDenied, nProcessed, reg>>

-----------------------------------------------------------------------------
Init ==
  /\ nConnections = 0
  /\ nDenied = 0
  /\ nProcessed = 0
  /\ sock = [s \in Sockets |-> "new"]
  /\ pc = [t \in Threads |-> "idle"]
  /\ cur = [t \in Threads |-> NoSocket]
  /\ reg = [t \in Threads |-> 0]

Next ==
  \E t \in Threads :
    \/ \E s \in Sockets : AcceptCheck(t, s) \/ CloseLoad(t, s)
    \/ ConnStore(t) \/ DeniedLoad(t) \/ DeniedStore(t)
    \/ ProcLoad(t) \/ ProcStore(t) \/ CloseStore(t)

Spec == Init /\ [][Next]_vars

-----------------------------------------------------------------------------
(* Sockets the router holds as connections: accepted and not yet past the *)
(* decrement.                                                              *)
Connected == {s \in Sockets : sock[s] \in {"admitted", "open", "closing"}}

(* Spec 4.5: socket accept admits a connection only while fewer than      *)
(* maxConnections are open, so the open connections never exceed it.      *)
LimitRespected == Cardinality(Connected) <= MaxConnectionLimit

(* The assert of qd_policy_socket_close (policy.c:221): n_connections is  *)
(* never negative.                                                         *)
CountNonNegative == nConnections >= 0

(* Spec 5 and 8.4: the counters are never torn.  Whenever no thread is in *)
(* the middle of the gate, n_connections counts the open connections,     *)
(* n_denied the refused sockets and n_processed every accepted or refused *)
(* socket.                                                                  *)
CountsExact ==
  (\A t \in Threads : pc[t] = "idle") =>
    /\ nConnections = Cardinality({s \in Sockets : sock[s] = "open"})
    /\ nDenied = Cardinality({s \in Sockets : sock[s] = "denied"})
    /\ nProcessed = Cardinality({s \in Sockets : sock[s] # "new"})

=============================================================================
