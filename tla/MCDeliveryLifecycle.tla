------------------------ MODULE MCDeliveryLifecycle ------------------------
(***************************************************************************)
(* Model-checking instance of DeliveryLifecycle: two messages, so that    *)
(* the work lists and action queues hold items of both, and each message  *)
(* routable, invalid or without address.                                  *)
(***************************************************************************)
EXTENDS DeliveryLifecycle

CONSTANTS m1, m2

OneMsg == {m1}
TwoMsgs == {m1, m2}
AllKinds == {"valid", "invalid", "no_address"}
RoutableKinds == {"valid"}
=============================================================================
