--------------------------- MODULE MCBillPayments ---------------------------
(* The payload alphabet and the symmetry of the BillPayments runs. *)
EXTENDS BillPayments, TLC

CONSTANTS p1, p2

\* An unbuildable, a partial and a full transfer; one reported as cancelled;
\* one whose type is gone; one that became a card transaction.
MCObservation ==
    [type: {"TRANSFER"}, terminal: {FALSE}, amount: {0, 2, 3}]
        \cup [type: {"TRANSFER"}, terminal: {TRUE}, amount: {2}]
        \cup [type: {""}, terminal: {FALSE}, amount: {3}]
        \cup [type: {"CARD_TRANSACTION"}, terminal: {FALSE}, amount: {2}]

PaymentSymmetry == Permutations(Payment)
=============================================================================
