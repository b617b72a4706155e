---------------------------- MODULE MCExpenses ----------------------------
(* Two card expenses of a merchant, of one connection or of two. *)
EXTENDS Expenses, TLC

CONSTANTS c1, c2, x1, x2, w1, w2

OneOwner == [x \in Expense |-> c1]
TwoOwners == [x \in Expense |-> IF x = x1 THEN c1 ELSE c2]

Invoicing == [mapped |-> TRUE, strategy |-> "Purchase Invoice", create |-> TRUE,
              complete |-> TRUE, explicit |-> FALSE, suppliers |-> TRUE, mark |-> TRUE]

OnlyInvoicing == {Invoicing}

\* Also: claims, and a rule that names the supplier.
AnyPosting == {Invoicing,
               [Invoicing EXCEPT !.strategy = "Expense Claim"],
               [Invoicing EXCEPT !.explicit = TRUE]}

MCPlace == [x \in Expense |-> IF x = x1 THEN 1 ELSE 2]

Symmetry == Permutations(Worker)

\* Also: postings guarded, Bank Transactions only, claims lacking an employee.
MCChoice == {Invoicing,
             [Invoicing EXCEPT !.create = FALSE],
             [Invoicing EXCEPT !.strategy = "Bank Transaction Only"],
             [Invoicing EXCEPT !.strategy = "Expense Claim", !.complete = FALSE]}
=============================================================================
