------------------------- MODULE MCWebhookEvents -------------------------
(* Two events about one bill and one of a type the app does not support. *)
EXTENDS WebhookEvents, TLC

CONSTANTS e1, e2, e3, bill, w1, w2

MCSubject == [e \in Event |-> IF e = e3 THEN NoResource ELSE bill]

WorkerSymmetry == Permutations(Worker)
=============================================================================
