---------------------------- MODULE MCPolicyGate ----------------------------
(***************************************************************************)
(* Instance of PolicyGate: two sockets of user "a" against a connection  *)
(* limit of one, so that a socket is refused while the other is open and *)
(* a later connection of the group follows an earlier one; the group's    *)
(* settings are those of MCPolicyLimits.  Two I/O threads run the socket *)
(* gate, so accepts and closes interleave.                                *)
(***************************************************************************)
EXTENDS PolicyGate, Sequences

CONSTANTS t1, t2, k1, k2

\* A string as the sequence of its one-character strings.
Str(s) == [i \in 1..Len(s) |-> SubSeq(s, i, i)]

TwoThreads == {t1, t2}
GateConns == {k1, k2}
MCUser == Str("a")
MCTerminus == {Str("a"), Str("ab"), Str("b")}
MCSettingsSet ==
  [maxSessions : {1}, maxSenders : {2}, maxReceivers : {1},
   allowAnonymousSender : BOOLEAN, allowDynamicSource : BOOLEAN,
   targets : {Str("a*")}, sources : {Str("b")}]
=============================================================================
