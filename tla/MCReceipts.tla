---------------------------- MODULE MCReceipts ----------------------------
(* Two expenses, a native attachment of the first, and three messages: one  *)
(* matches both expenses and shares a part with Airwallex, another holds    *)
(* the same receipt twice and matches the first better, and the newest only *)
(* takes a place in the listings.  The first expense settles, and the first *)
(* message is too old for it.                                               *)
EXTENDS Receipts, TLC

CONSTANTS x1, x2, a1, m1, m2, m3, p1, p2, c1, w1, w2

MCOwnerOf == [a \in Attachment |-> x1]
MCContentOf == [a \in Attachment |-> c1]
MCPartsOf == [m \in Message |-> IF m = m1 THEN {<<p1, c1>>}
                                ELSE IF m = m2 THEN {<<p1, c1>>, <<p2, c1>>} ELSE {<<p2, c1>>}]
MCDateOf == [m \in Message |-> IF m = m1 THEN 1 ELSE IF m = m2 THEN 2 ELSE 3]
MCLastVersion == [x \in Expense |-> IF x = x1 THEN 2 ELSE 1]

\* m1 shows name and amount of both expenses (0.8, over IMAP too); m2 those
\* of x1, within the month (0.8500000000000001), and nothing of x2.
Both == [merchant |-> 550, amount |-> TRUE, currency |-> FALSE, age |-> 0,
         recent |-> TRUE, found |-> TRUE,
         head |-> [word |-> TRUE, amount |-> TRUE, currency |-> FALSE]]
Neither == [merchant |-> 0, amount |-> FALSE, currency |-> FALSE, age |-> 50,
            recent |-> TRUE, found |-> TRUE,
            head |-> [word |-> FALSE, amount |-> FALSE, currency |-> FALSE]]

MCLikeness ==
    [m \in Message |-> [x \in Expense |-> [v \in 1..MCLastVersion[x] |->
        CASE m = m1 -> [Both EXCEPT !.recent = v = 1]
          [] m = m2 /\ x = x1 -> [Both EXCEPT !.age = 50]
          [] OTHER -> Neither]]]

MCProvider == {"Manual", "Airwallex + Frappe Email Account", "IMAP"}

WorkerSymmetry == Permutations(Worker)
=============================================================================
