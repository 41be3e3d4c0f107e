-------------------------- MODULE MCLinkLifecycle --------------------------
(***************************************************************************)
(* Instances of LinkLifecycle: two links on one connection, so that one   *)
(* link can be attached by the peer and the other by the router, and the  *)
(* core can process the actions of one link between the steps of the     *)
(* other; one flow frame.                                                   *)
(***************************************************************************)
EXTENDS LinkLifecycle

CONSTANTS l1, l2

TwoLinks == {l1, l2}
OneLink == {l1}
=============================================================================
