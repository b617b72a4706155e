--------------------------- MODULE MCSubscriptions ---------------------------
(* The people and event sets of the Subscriptions runs. *)
EXTENDS Subscriptions, TLC

CONSTANTS expenses, both, admin
=============================================================================
