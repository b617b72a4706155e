---------------------------- MODULE MCSyncWindow ----------------------------
(* The items of the SyncWindow runs: a bill and an expense. *)
EXTENDS SyncWindow

CONSTANTS b1, x1, r1, r2

MCModuleOf == [i \in Item |-> IF i = x1 THEN "expenses" ELSE "bills"]
=============================================================================
