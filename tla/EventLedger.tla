---------------------------- MODULE EventLedger ----------------------------
(***************************************************************************)
(* What an administrator may rely on about webhook events, jobs, locks,    *)
(* attempts and the scheduler left out: an event is taken in, it is        *)
(* settled in one step together with the document its result speaks of,    *)
(* and settled events are forgotten.  WebhookEvents implements this on a   *)
(* host that runs a job as one transaction.                                *)
(***************************************************************************)
CONSTANTS
    Event,          \* event ids Airwallex delivers
    Resource,       \* what they are about
    NoResource,     \* subject of an unsupported event type
    Subject         \* Subject[e]: the resource of e

VARIABLES
    ledger,         \* what is known of each event
    books           \* resources with an ERPNext document

Outcome == {"ignored", "held", "booked"}

Init ==
    /\ ledger = [e \in Event |-> "unknown"]
    /\ books = {}

\* store_event: an event is taken in once, however often it is delivered.
TakeIn(e) ==
    /\ ledger[e] = "unknown"
    /\ ledger' = [ledger EXCEPT ![e] = "waiting"]
    /\ UNCHANGED books

\* process_event: the outcome and the document become known together.  A
\* second job of the event may settle it once more, never unsettle it.
Settle(e, outcome) ==
    /\ ledger[e] # "unknown"
    /\ (outcome = "ignored") <=> (Subject[e] = NoResource)
    /\ ledger' = [ledger EXCEPT ![e] = outcome]
    /\ books' = IF outcome = "booked" THEN books \cup {Subject[e]} ELSE books

\* cleanup_old_events
Forget(S) ==
    /\ \A e \in S : ledger[e] \in Outcome
    /\ ledger' = [e \in Event |-> IF e \in S THEN "unknown" ELSE ledger[e]]
    /\ UNCHANGED books

Next ==
    \/ \E e \in Event : TakeIn(e) \/ \E outcome \in Outcome : Settle(e, outcome)
    \/ \E S \in SUBSET Event : Forget(S)

Spec == Init /\ [][Next]_<<ledger, books>>
=============================================================================
