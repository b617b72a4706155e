----------------------------- MODULE SyncWindow -----------------------------
(***************************************************************************)
(* The polling side of the integration: the hourly, daily and on-demand    *)
(* runs of services/sync.run_sync over one connection, and the time window *)
(* each of them asks Airwallex for.  Webhooks may all be lost: these runs  *)
(* are the recovery.                                                       *)
(*                                                                         *)
(* An item is an expense, bill, report, transaction, conversion or         *)
(* transfer.  Airwallex filters on its creation time; the importers hold   *)
(* an item until it is settled, or approved, and a run has to list it      *)
(* again after that.  A run is one transaction: what it imported and the   *)
(* cursor are committed at its end or not at all.                          *)
(***************************************************************************)
EXTENDS Integers, FiniteSets

CONSTANTS
    Item,           \* items Airwallex may come to hold
    Module,         \* enabled modules: banking, expenses, bills, ...
    ModuleOf,       \* ModuleOf[i]: the module that lists item i
    Runner,         \* workers of the "long" queue: runs may overlap
    OnDemand,       \* modules an administrator syncs on their own
    Overlap,        \* settings.overlap_hours
    StartDate,      \* settings.sync_start_date
    NoDate,         \* StartDate of a connection without one
    Lookback,       \* the 30 days such a connection looks back
    RunLimit,       \* the timeout of a long-queue job
    MaxItems,       \* settings.max_records_per_sync
    MaxClock,       \* bound: last hour of the model
    MaxFaults       \* bound: failed runs

ASSUME WindowAssumption ==
    /\ ModuleOf \in [Item -> Module]
    /\ OnDemand \subseteq Module
    /\ Overlap \in Nat \ {0} /\ RunLimit \in Nat /\ Lookback \in Nat
    /\ NoDate \notin Int /\ StartDate \in Int \cup {NoDate}
    /\ MaxItems \in Nat \ {0}
    /\ MaxClock \in Nat /\ MaxFaults \in Nat

VARIABLES
    clock,          \* now
    created,        \* creation time of each item, 0 before it exists
    settled,        \* since when each item is what its importer waits for, or 0
    imported,       \* items imported by a run that committed
    cursor,         \* settings.last_successful_sync, 0 if none
    run,            \* what each runner is doing
    faults          \* faults left (bound)

vars == <<clock, created, settled, imported, cursor, run, faults>>

-----------------------------------------------------------------------------
Scope == {"incremental"} \cup OnDemand

Run == [pc: {"idle", "running"}, todo: SUBSET Module, from: Int, started: Nat,
        took: SUBSET Item]

IdleRun == [pc |-> "idle", todo |-> {}, from |-> 0, started |-> 0, took |-> {}]

\* Mutants of StartTime: the overlap is forgotten, or taken from now.
StartAtCursor(scope) ==
    IF scope = "incremental" /\ cursor > 0 THEN cursor ELSE StartDate

StartBeforeNow(scope) ==
    IF scope = "incremental" /\ cursor > 0 THEN clock - Overlap ELSE StartDate

\* _start_time
StartTime(scope) ==
    IF scope = "incremental" /\ cursor > 0 THEN cursor - Overlap
    ELSE IF StartDate # NoDate THEN StartDate
    ELSE clock - Lookback

\* Mutant of Modules: "incremental" is taken for the name of a module.
ModulesByName(scope) == {scope}

\* _modules
Modules(scope) == IF scope = "incremental" THEN Module ELSE {scope}

Init ==
    /\ clock = 1
    /\ created = [i \in Item |-> 0]
    /\ settled = [i \in Item |-> 0]
    /\ imported = {}
    /\ cursor = 0
    /\ run = [r \in Runner |-> IdleRun]
    /\ faults = MaxFaults

-----------------------------------------------------------------------------
(* Airwallex and the clock *)

Create(i) ==
    /\ created[i] = 0
    /\ created' = [created EXCEPT ![i] = clock]
    /\ UNCHANGED <<clock, settled, imported, cursor, run, faults>>

\* A transaction settles, a bill is approved, a missing mapping is supplied.
Settle(i) ==
    /\ created[i] > 0 /\ settled[i] = 0
    /\ settled' = [settled EXCEPT ![i] = clock]
    /\ UNCHANGED <<clock, created, imported, cursor, run, faults>>

\* No run outlives its timeout.
Tick ==
    /\ clock < MaxClock
    /\ \A r \in Runner : run[r].pc = "running" => clock < run[r].started + RunLimit
    /\ clock' = clock + 1
    /\ UNCHANGED <<created, settled, imported, cursor, run, faults>>

-----------------------------------------------------------------------------
(* run_sync *)

\* hourly_recovery ("incremental") and daily_recovery ("all") ask for the same;
\* background.enqueue_sync may ask for a single module.
Start(r, scope) ==
    /\ run[r].pc = "idle"
    /\ run' = [run EXCEPT ![r] = [pc |-> "running", todo |-> Modules(scope),
                                  from |-> StartTime(scope), started |-> clock, took |-> {}]]
    /\ UNCHANGED <<clock, created, settled, imported, cursor, faults>>

\* What a module lists from the start time on; how Airwallex orders it, and so
\* which max_items of it a run takes, is not known here.
Listed(m, from) == {i \in Item : ModuleOf[i] = m /\ created[i] > 0 /\ created[i] >= from}

Taken(S) ==
    IF Cardinality(S) <= MaxItems THEN {S} ELSE {T \in SUBSET S : Cardinality(T) = MaxItems}

\* sync_expenses, sync_bills, ...: one module after the other.  The importers
\* hold what is not settled.
SyncModule(r, m) ==
    /\ run[r].pc = "running" /\ m \in run[r].todo
    /\ \E T \in Taken(Listed(m, run[r].from)) :
        run' = [run EXCEPT ![r].todo = @ \ {m}, ![r].took = @ \cup {i \in T : settled[i] > 0}]
    /\ UNCHANGED <<clock, created, settled, imported, cursor, faults>>

\* settings.db_set("last_successful_sync", now), and the commit.
Finish(r) ==
    /\ run[r].pc = "running" /\ run[r].todo = {}
    /\ cursor' = clock
    /\ imported' = imported \cup run[r].took
    /\ run' = [run EXCEPT ![r] = IdleRun]
    /\ UNCHANGED <<clock, created, settled, faults>>

\* An item raises, the API is down, the job times out: everything is rolled
\* back.  A dry run ends the same way.
Fail(r) ==
    /\ run[r].pc = "running"
    /\ faults > 0
    /\ faults' = faults - 1
    /\ run' = [run EXCEPT ![r] = IdleRun]
    /\ UNCHANGED <<clock, created, settled, imported, cursor>>

-----------------------------------------------------------------------------
Continue(r) == (\E m \in Module : SyncModule(r, m)) \/ Finish(r)

Next ==
    \/ \E i \in Item : Create(i) \/ Settle(i)
    \/ Tick
    \/ \E r \in Runner, scope \in Scope : Start(r, scope)
    \/ \E r \in Runner : Continue(r) \/ Fail(r)

Spec == Init /\ [][Next]_vars

\* Cron goes on starting runs and a started run goes on.
Fairness ==
    \A r \in Runner : WF_vars(Start(r, "incremental")) /\ WF_vars(Continue(r))

FairSpec == Spec /\ Fairness

-----------------------------------------------------------------------------
(* Properties *)

TypeOK ==
    /\ clock \in Nat /\ cursor \in Nat /\ faults \in Nat
    /\ created \in [Item -> Nat] /\ settled \in [Item -> Nat] /\ imported \subseteq Item
    /\ run \in [Runner -> Run]

InScope(i) == created[i] > 0 /\ StartDate # NoDate /\ created[i] >= StartDate

Settled(i) == InScope(i) /\ settled[i] > 0

\* Settled within the overlap, less the time a run may take.
Prompt(i) == Settled(i) /\ settled[i] + RunLimit <= created[i] + Overlap

\* The moving window leaves nothing behind that settles in time: such an item
\* is imported, or still in the window the next incremental run will ask for,
\* although the cursor is the end, not the start, of a run, items appear and
\* settle while it lists other modules, and runs overlap and fail.
NothingSkipped ==
    \A i \in Item : Prompt(i) /\ i \notin imported => cursor = 0 \/ created[i] >= cursor - Overlap

\* Every such item is imported in the end by a run that commits, without any
\* webhook.
PromptIsImported == \A i \in Item : Prompt(i) ~> i \in imported
=============================================================================
