--------------------------- MODULE MCPolicyLimits ---------------------------
(***************************************************************************)
(* Model-checking instance of PolicyLimits: user "a" of one user group,  *)
(* with one session, two senders and one receiver allowed per connection, *)
(* senders to targets "a*" and receivers from source "b", and both values *)
(* of allowAnonymousSender and allowDynamicSource.                        *)
(***************************************************************************)
EXTENDS PolicyLimits

CONSTANTS c1, c2

\* A string as the sequence of its one-character strings.
Str(s) == [i \in 1..Len(s) |-> SubSeq(s, i, i)]

OneConn == {c1}
TwoConns == {c1, c2}
MCUser == Str("a")
MCTerminus == {Str("a"), Str("ab"), Str("b")}
MCSettingsSet ==
  [maxSessions : {1}, maxSenders : {2}, maxReceivers : {1},
   allowAnonymousSender : BOOLEAN, allowDynamicSource : BOOLEAN,
   targets : {Str("a*")}, sources : {Str("b")}]
=============================================================================
