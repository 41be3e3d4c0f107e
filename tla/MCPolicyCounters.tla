-------------------------- MODULE MCPolicyCounters --------------------------
(***************************************************************************)
(* Instances of PolicyCounters: four sockets against a limit of two, so   *)
(* that sockets are both admitted and refused and admitted sockets close  *)
(* and make room again; one I/O thread or two.                             *)
(***************************************************************************)
EXTENDS PolicyCounters

CONSTANTS t1, t2, k1, k2, k3, k4

OneThread == {t1}
TwoThreads == {t1, t2}
MCSockets == {k1, k2, k3, k4}
=============================================================================
