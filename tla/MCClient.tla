------------------------------ MODULE MCClient ------------------------------
(* Two cursors, up to two records on a bookmarked page, a numbered table of *)
(* up to three records listed by twos, and four records at most.            *)
EXTENDS Client, TLC

CONSTANTS c1, c2, r1, r2, r3
=============================================================================
