--------------------------- MODULE WebhookEvents ---------------------------
(***************************************************************************)
(* The life of an Airwallex Webhook Event: stored by the HTTP endpoint     *)
(* (api.webhook, services/webhooks.store_event), processed by queue jobs   *)
(* (process_event), swept and re-queued every five minutes                 *)
(* (tasks.process_webhook_queue, recover_stale_events) and deleted after   *)
(* ninety days (tasks.cleanup_old_events).                                 *)
(*                                                                         *)
(* Two hosts run this code.  Durable = TRUE: every db_set is visible to    *)
(* the other jobs at once and survives a killed worker, as the docstring   *)
(* of recover_stale_events and the test stub assume.  Durable = FALSE:     *)
(* a job is one database transaction, as Frappe runs it: it reads a        *)
(* snapshot, locks the rows it updates, commits when the job returns and   *)
(* rolls back when the job raises or is killed.                            *)
(***************************************************************************)
EXTENDS Naturals, FiniteSets

CONSTANTS
    Event,          \* event ids Airwallex delivers
    Resource,       \* expenses, bills and reimbursement reports they are about
    NoResource,     \* subject of an event type process_event does not support
    Subject,        \* Subject[e]: the resource the payload of e is about
    Poison,         \* events whose handler raises every time
    Worker,         \* workers of the "short" queue
    NoEvent,        \* event of an idle worker
    MaxAttempts,    \* settings.webhook_max_attempts
    QueueLimit,     \* limit=100 of the two scheduler listings
    Durable,        \* see above
    MaxQueued,      \* bound: jobs waiting for one event
    MaxDeliveries,  \* bound: deliveries of one event id
    MaxFaults       \* bound: raised exceptions, kills, lost jobs, disablings

ASSUME ConstantsAssumption ==
    /\ NoEvent \notin Event
    /\ NoResource \notin Resource
    /\ Subject \in [Event -> Resource \cup {NoResource}]
    /\ Poison \subseteq {e \in Event : Subject[e] # NoResource}
    /\ MaxAttempts \in Nat \ {0}
    /\ QueueLimit \in Nat \ {0}
    /\ Durable \in BOOLEAN
    /\ MaxQueued \in Nat \ {0}
    /\ MaxDeliveries \in Nat
    /\ MaxFaults \in Nat

VARIABLES
    event,       \* the Airwallex Webhook Event row of each event id
    older,       \* creation order of the stored rows, as pairs
    queue,       \* process_event jobs waiting for each event
    job,         \* what each worker is running
    sched,       \* the running process_webhook_queue job
    booked,      \* resources that have a committed ERPNext document
    enabled,     \* settings.enabled
    faults,      \* faults left (bound)
    deliveries,  \* deliveries made of each event (bound)
    claims       \* history: process_event runs that counted an attempt, up to
                 \* one more than MaxAttempts (bound)

vars == <<event, older, queue, job, sched, booked, enabled, faults, deliveries, claims>>

-----------------------------------------------------------------------------
(* Rows, jobs and what they read *)

Done == {"Processed", "Ignored"}
Settled == Done \cup {"Dead Letter"}
Pending == {"Received", "Retrying"}
Status == {"Absent", "Processing"} \cup Pending \cup Settled

Row == [status: Status, attempts: Nat, age: {"fresh", "stale", "expired"},
        result: {"none", "ignored", "held", "booked"}]

AbsentRow == [status |-> "Absent", attempts |-> 0, age |-> "fresh", result |-> "none"]
NewRow == [AbsentRow EXCEPT !.status = "Received"]

Holding == {"claimed", "counted", "looked", "written"}

Job == [pc: {"idle", "loaded"} \cup Holding, event: Event \cup {NoEvent},
        attempts: Nat, seen: BOOLEAN, row: Row, inserted: BOOLEAN]

IdleJob == [pc |-> "idle", event |-> NoEvent, attempts |-> 0, seen |-> FALSE,
            row |-> AbsentRow, inserted |-> FALSE]

Stored(e) == event[e].status # "Absent"

RunsOn(w, e) == job[w].pc # "idle" /\ job[w].event = e

\* An uncommitted UPDATE keeps the row locked until the transaction ends.
Locked(e) == ~Durable /\ \E w \in Worker : job[w].pc \in Holding /\ job[w].event = e

\* The row as the running job sees it: its own uncommitted writes included.
View(w) == IF Durable THEN event[job[w].event] ELSE job[w].row

\* Mutant of DbSet: each db_set is followed by a commit on either host.
DbSetCommitted(w, row, next) ==
    /\ event' = [event EXCEPT ![job[w].event] = row]
    /\ job' = [job EXCEPT ![w] = [next EXCEPT !.row = row]]

\* db_set in a running job: in the table at once, or in the transaction.
DbSet(w, row, next) ==
    IF Durable
    THEN /\ event' = [event EXCEPT ![job[w].event] = row]
         /\ job' = [job EXCEPT ![w] = next]
    ELSE /\ job' = [job EXCEPT ![w] = [next EXCEPT !.row = row]]
         /\ UNCHANGED event

\* Mutant of Finish: the status is committed, the documents are not.
FinishWithoutDocuments(w, status, result) ==
    /\ event' = [event EXCEPT ![job[w].event] =
                    [View(w) EXCEPT !.status = status, !.result = result]]
    /\ job' = [job EXCEPT ![w] = IdleJob]
    /\ UNCHANGED booked

\* The last db_set of process_event, and the commit that ends the job.
Finish(w, status, result) ==
    /\ event' = [event EXCEPT ![job[w].event] =
                    [View(w) EXCEPT !.status = status, !.result = result]]
    /\ booked' = booked \cup (IF job[w].inserted THEN {Subject[job[w].event]} ELSE {})
    /\ job' = [job EXCEPT ![w] = IdleJob]

AtMost(n, bound) == IF n < bound THEN n ELSE bound

Enqueued(S) == [e \in Event |-> IF e \in S THEN AtMost(queue[e] + 1, MaxQueued) ELSE queue[e]]

\* order_by="creation asc", limit=QueueLimit
Oldest(S) == {e \in S : Cardinality({d \in S : <<d, e>> \in older}) < QueueLimit}

Fault == faults > 0 /\ faults' = faults - 1

-----------------------------------------------------------------------------
Init ==
    /\ event = [e \in Event |-> AbsentRow]
    /\ older = {}
    /\ queue = [e \in Event |-> 0]
    /\ job = [w \in Worker |-> IdleJob]
    /\ sched = [pc |-> "idle", reap |-> {}]
    /\ booked = {}
    /\ enabled = TRUE
    /\ faults = MaxFaults
    /\ deliveries = [e \in Event |-> 0]
    /\ claims = [e \in Event |-> 0]

-----------------------------------------------------------------------------
(* The endpoint *)

\* store_event: a known id only gets its duplicate flag (an UPDATE, so it
\* waits for the row lock); an unknown one is inserted as Received.
StoreEvent(e) ==
    /\ enabled                        \* no enabled connection verifies it: 401
    /\ deliveries[e] < MaxDeliveries
    /\ ~Locked(e)
    /\ deliveries' = [deliveries EXCEPT ![e] = @ + 1]
    /\ IF Stored(e)
       THEN UNCHANGED <<event, older, claims>>
       ELSE /\ event' = [event EXCEPT ![e] = NewRow]
            /\ older' = older \cup ({d \in Event : Stored(d)} \X {e})
            /\ claims' = [claims EXCEPT ![e] = 0]

\* api.webhook: the job is enqueued whether or not the event was known.
Deliver(e) ==
    /\ StoreEvent(e)
    /\ queue' = Enqueued({e})
    /\ UNCHANGED <<job, sched, booked, enabled, faults>>

\* The request dies between its commit and enqueue_after_commit.
DeliverWithoutJob(e) ==
    /\ StoreEvent(e)
    /\ Fault
    /\ UNCHANGED <<queue, job, sched, booked, enabled>>

-----------------------------------------------------------------------------
(* process_event *)

\* The job finds the event gone, or already Processed or Ignored.
Skip(w, e) ==
    /\ job[w].pc = "idle" /\ queue[e] > 0
    /\ event[e].status \in Done \cup {"Absent"}
    /\ queue' = [queue EXCEPT ![e] = @ - 1]
    /\ UNCHANGED <<event, older, job, sched, booked, enabled, faults, deliveries, claims>>

\* get_doc, and in a transaction the snapshot every later read is served from.
Load(w, e) ==
    /\ job[w].pc = "idle" /\ queue[e] > 0
    /\ event[e].status \notin Done \cup {"Absent"}
    /\ queue' = [queue EXCEPT ![e] = @ - 1]
    /\ job' = [job EXCEPT ![w] = [IdleJob EXCEPT !.pc = "loaded", !.event = e,
                                    !.attempts = event[e].attempts,
                                    !.seen = ~Durable /\ Subject[e] \in booked]]
    /\ UNCHANGED <<event, older, sched, booked, enabled, faults, deliveries, claims>>

\* db_set("status", "Processing", update_modified=True)
ClaimStatus(w) ==
    /\ job[w].pc = "loaded"
    /\ ~Locked(job[w].event)
    /\ DbSet(w, [event[job[w].event] EXCEPT !.status = "Processing", !.age = "fresh"],
                [job[w] EXCEPT !.pc = "claimed"])
    /\ UNCHANGED <<older, queue, sched, booked, enabled, faults, deliveries, claims>>

\* Mutant of ClaimAttempts: the count is written back without the attempt.
ClaimWithoutCounting(w) ==
    /\ job[w].pc = "claimed"
    /\ DbSet(w, [View(w) EXCEPT !.attempts = job[w].attempts, !.age = "fresh"],
                [job[w] EXCEPT !.pc = "counted"])
    /\ claims' = [claims EXCEPT ![job[w].event] = AtMost(@ + 1, MaxAttempts + 1)]
    /\ UNCHANGED <<older, queue, sched, booked, enabled, faults, deliveries>>

\* db_set("attempts", int(event.attempts or 0) + 1): from the loaded document
ClaimAttempts(w) ==
    /\ job[w].pc = "claimed"
    /\ DbSet(w, [View(w) EXCEPT !.attempts = job[w].attempts + 1, !.age = "fresh"],
                [job[w] EXCEPT !.pc = "counted", !.attempts = job[w].attempts + 1])
    /\ claims' = [claims EXCEPT ![job[w].event] = AtMost(@ + 1, MaxAttempts + 1)]
    /\ UNCHANGED <<older, queue, sched, booked, enabled, faults, deliveries>>

\* An event type no handler takes.
Ignore(w) ==
    /\ job[w].pc = "counted"
    /\ Subject[job[w].event] = NoResource
    /\ Finish(w, "Ignored", "ignored")
    /\ UNCHANGED <<older, queue, sched, enabled, faults, deliveries, claims>>

\* The handler returns held or guarded (a mapping, status or switch is
\* missing): it books nothing and the event is Processed all the same.
Hold(w) ==
    /\ job[w].pc = "counted"
    /\ Subject[job[w].event] # NoResource /\ job[w].event \notin Poison
    /\ Finish(w, "Processed", "held")
    /\ UNCHANGED <<older, queue, sched, enabled, faults, deliveries, claims>>

\* Mutant of Lookup: unsupported event types reach a handler.
LookupAnything(w) ==
    /\ job[w].pc = "counted"
    /\ job[w].event \notin Poison
    /\ job' = [job EXCEPT ![w].pc = "looked",
                          ![w].seen = IF Durable THEN Subject[job[w].event] \in booked ELSE @]
    /\ UNCHANGED <<event, older, queue, sched, booked, enabled, faults, deliveries, claims>>

\* The handler looks the Airwallex id up.
Lookup(w) ==
    /\ job[w].pc = "counted"
    /\ Subject[job[w].event] # NoResource /\ job[w].event \notin Poison
    /\ job' = [job EXCEPT ![w].pc = "looked",
                          ![w].seen = IF Durable THEN Subject[job[w].event] \in booked ELSE @]
    /\ UNCHANGED <<event, older, queue, sched, booked, enabled, faults, deliveries, claims>>

\* Mutant of UpdateDocument: the handler answers "exists" without a lookup.
UpdateUnseen(w) ==
    /\ job[w].pc = "looked"
    /\ job' = [job EXCEPT ![w].pc = "written"]
    /\ UNCHANGED <<event, older, queue, sched, booked, enabled, faults, deliveries, claims>>

\* The handler found the document: it updates it in place.
UpdateDocument(w) ==
    /\ job[w].pc = "looked" /\ job[w].seen
    /\ job' = [job EXCEPT ![w].pc = "written"]
    /\ UNCHANGED <<event, older, queue, sched, booked, enabled, faults, deliveries, claims>>

\* Mutant of InsertDocument: the document is committed as it is inserted.
InsertCommitted(w) ==
    /\ job[w].pc = "looked" /\ ~job[w].seen
    /\ Subject[job[w].event] \notin booked
    /\ booked' = booked \cup {Subject[job[w].event]}
    /\ job' = [job EXCEPT ![w].pc = "written"]
    /\ UNCHANGED <<event, older, queue, sched, enabled, faults, deliveries, claims>>

\* insert(): the unique index makes it wait for an uncommitted insert of the
\* same Airwallex id.
InsertDocument(w) ==
    LET r == Subject[job[w].event] IN
    /\ job[w].pc = "looked" /\ ~job[w].seen
    /\ r \notin booked
    /\ \A v \in Worker : job[v].inserted => Subject[job[v].event] # r
    /\ booked' = IF Durable THEN booked \cup {r} ELSE booked
    /\ job' = [job EXCEPT ![w].pc = "written", ![w].inserted = ~Durable]
    /\ UNCHANGED <<event, older, queue, sched, enabled, faults, deliveries, claims>>

Return(w) ==
    /\ job[w].pc = "written"
    /\ Finish(w, "Processed", "booked")
    /\ UNCHANGED <<older, queue, sched, enabled, faults, deliveries, claims>>

\* Mutant of Except: the limit is met one attempt early.
ExceptEarly(w) ==
    /\ event' = IF Durable
                THEN [event EXCEPT ![job[w].event].status =
                        IF job[w].attempts + 1 < MaxAttempts THEN "Retrying" ELSE "Dead Letter"]
                ELSE event
    /\ job' = [job EXCEPT ![w] = IdleJob]
    /\ UNCHANGED <<older, queue, sched, booked, enabled, deliveries, claims>>

\* Mutant of Except: the failure is committed before the exception is raised
\* again.
ExceptCommitted(w) ==
    /\ event' = [event EXCEPT ![job[w].event].status =
                    IF job[w].attempts < MaxAttempts THEN "Retrying" ELSE "Dead Letter"]
    /\ job' = [job EXCEPT ![w] = IdleJob]
    /\ UNCHANGED <<older, queue, sched, booked, enabled, deliveries, claims>>

\* except: Retrying or Dead Letter is written, then the exception is raised
\* again, which rolls a transaction back, that write included.
Except(w) ==
    /\ event' = IF Durable
                THEN [event EXCEPT ![job[w].event].status =
                        IF job[w].attempts < MaxAttempts THEN "Retrying" ELSE "Dead Letter"]
                ELSE event
    /\ job' = [job EXCEPT ![w] = IdleJob]
    /\ UNCHANGED <<older, queue, sched, booked, enabled, deliveries, claims>>

\* The handler raises before, between or after its writes.
HandlerRaises(w) ==
    /\ job[w].pc \in {"counted", "looked", "written"}
    /\ Fault
    /\ Except(w)

PoisonRaises(w) ==
    /\ job[w].pc = "counted" /\ job[w].event \in Poison
    /\ Except(w)
    /\ UNCHANGED faults

\* A document of another job took the Airwallex id after the lookup.
UniqueViolation(w) ==
    /\ job[w].pc = "looked" /\ ~job[w].seen
    /\ Subject[job[w].event] \in booked
    /\ Except(w)
    /\ UNCHANGED faults

\* The worker is killed, or get_doc, get_client or json.loads raises outside
\* the try block: no handler writes the status.
Stop(w) ==
    /\ job[w].pc # "idle"
    /\ Fault
    /\ job' = [job EXCEPT ![w] = IdleJob]
    /\ UNCHANGED <<event, older, queue, sched, booked, enabled, deliveries, claims>>

LoseJob(e) ==
    /\ queue[e] > 0
    /\ Fault
    /\ queue' = [queue EXCEPT ![e] = @ - 1]
    /\ UNCHANGED <<event, older, job, sched, booked, enabled, deliveries, claims>>

-----------------------------------------------------------------------------
(* process_webhook_queue and recover_stale_events *)

Stale == {e \in Event : event[e].status = "Processing" /\ event[e].age = "stale"}

\* recover_stale_events lists the stale events of enabled connections.
SchedList ==
    /\ sched.pc = "idle"
    /\ \E S \in SUBSET (IF enabled THEN Stale ELSE {}) :
        /\ enabled => Cardinality(S) = AtMost(Cardinality(Stale), QueueLimit)
        /\ sched' = [pc |-> "reaping", reap |-> S]
    /\ UNCHANGED <<event, older, queue, job, booked, enabled, faults, deliveries, claims>>

\* Mutant of Reap: the lost run is counted a second time.
ReapAndCount(e) ==
    /\ sched.pc = "reaping" /\ e \in sched.reap
    /\ event' = [event EXCEPT ![e].age = "fresh", ![e].attempts = @ + 1, ![e].status =
                    IF event[e].attempts + 1 >= MaxAttempts THEN "Dead Letter" ELSE "Retrying"]
    /\ sched' = [sched EXCEPT !.reap = @ \ {e}]
    /\ UNCHANGED <<older, queue, job, booked, enabled, faults, deliveries, claims>>

\* It re-reads a listed event for its attempts only, and writes its status.
Reap(e) ==
    /\ sched.pc = "reaping" /\ e \in sched.reap
    /\ event' = [event EXCEPT ![e].age = "fresh", ![e].status =
                    IF event[e].attempts >= MaxAttempts THEN "Dead Letter" ELSE "Retrying"]
    /\ sched' = [sched EXCEPT !.reap = @ \ {e}]
    /\ UNCHANGED <<older, queue, job, booked, enabled, faults, deliveries, claims>>

\* Mutants of SchedEnqueue: only one of the two pending statuses is listed.
SchedEnqueueReceived ==
    /\ sched.pc = "reaping" /\ sched.reap = {}
    /\ queue' = Enqueued(Oldest({e \in Event : event[e].status = "Received"}))
    /\ sched' = [sched EXCEPT !.pc = "idle"]
    /\ UNCHANGED <<event, older, job, booked, enabled, faults, deliveries, claims>>

SchedEnqueueRetrying ==
    /\ sched.pc = "reaping" /\ sched.reap = {}
    /\ queue' = Enqueued(Oldest({e \in Event : event[e].status = "Retrying"}))
    /\ sched' = [sched EXCEPT !.pc = "idle"]
    /\ UNCHANGED <<event, older, job, booked, enabled, faults, deliveries, claims>>

\* A job for each of the oldest pending events, of any connection.
SchedEnqueue ==
    /\ sched.pc = "reaping" /\ sched.reap = {}
    /\ queue' = Enqueued(Oldest({e \in Event : event[e].status \in Pending}))
    /\ sched' = [sched EXCEPT !.pc = "idle"]
    /\ UNCHANGED <<event, older, job, booked, enabled, faults, deliveries, claims>>

SchedStop ==
    /\ sched.pc = "reaping"
    /\ Fault
    /\ sched' = [pc |-> "idle", reap |-> {}]
    /\ UNCHANGED <<event, older, queue, job, booked, enabled, deliveries, claims>>

-----------------------------------------------------------------------------
(* Time, retention and the administrator *)

\* modified passes now - webhook_processing_timeout_minutes, which nothing
\* ties to the time a job may run.
BecomesStale(e) ==
    /\ event[e].status = "Processing" /\ event[e].age = "fresh"
    /\ event' = [event EXCEPT ![e].age = "stale"]
    /\ UNCHANGED <<older, queue, job, sched, booked, enabled, faults, deliveries, claims>>

\* Ninety days without a change, longer than any job or scheduler run; only
\* the retention of Processed and Ignored rows asks.
Expires(e) ==
    /\ event[e].status \in Done /\ event[e].age # "expired"
    /\ \A w \in Worker : ~RunsOn(w, e)
    /\ e \notin sched.reap
    /\ event' = [event EXCEPT ![e].age = "expired"]
    /\ UNCHANGED <<older, queue, job, sched, booked, enabled, faults, deliveries, claims>>

\* Mutant of Cleanup: every Processed or Ignored row, whatever its age.
CleanupAll ==
    LET gone == {e \in Event : event[e].status \in Done} IN
    /\ gone # {}
    /\ event' = [e \in Event |-> IF e \in gone THEN AbsentRow ELSE event[e]]
    /\ older' = {p \in older : p[1] \notin gone /\ p[2] \notin gone}
    /\ UNCHANGED <<queue, job, sched, booked, enabled, faults, deliveries, claims>>

\* cleanup_old_events deletes every expired Processed or Ignored row.
Cleanup ==
    LET gone == {e \in Event : event[e].status \in Done /\ event[e].age = "expired"} IN
    /\ gone # {}
    /\ event' = [e \in Event |-> IF e \in gone THEN AbsentRow ELSE event[e]]
    /\ older' = {p \in older : p[1] \notin gone /\ p[2] \notin gone}
    /\ UNCHANGED <<queue, job, sched, booked, enabled, faults, deliveries, claims>>

Enable ==
    /\ ~enabled
    /\ enabled' = TRUE
    /\ UNCHANGED <<event, older, queue, job, sched, booked, faults, deliveries, claims>>

Disable ==
    /\ enabled
    /\ Fault
    /\ enabled' = FALSE
    /\ UNCHANGED <<event, older, queue, job, sched, booked, deliveries, claims>>

-----------------------------------------------------------------------------
Advance(w) ==
    \/ ClaimStatus(w) \/ ClaimAttempts(w)
    \/ Ignore(w) \/ Hold(w) \/ Lookup(w)
    \/ UpdateDocument(w) \/ InsertDocument(w) \/ UniqueViolation(w)
    \/ PoisonRaises(w) \/ Return(w)

Scheduler == SchedList \/ (\E e \in Event : Reap(e)) \/ SchedEnqueue

Next ==
    \/ \E e \in Event :
        \/ Deliver(e) \/ DeliverWithoutJob(e) \/ LoseJob(e)
        \/ BecomesStale(e) \/ Expires(e)
    \/ \E w \in Worker, e \in Event : Skip(w, e) \/ Load(w, e)
    \/ \E w \in Worker : Advance(w) \/ HandlerRaises(w) \/ Stop(w)
    \/ Scheduler \/ SchedStop
    \/ Cleanup \/ Enable \/ Disable

Spec == Init /\ [][Next]_vars

\* The queue is first in, first out, so a waiting job is taken although other
\* jobs keep the workers busy; a lock wait is served; a running job, cron and
\* the clock go on.  Nothing is assumed of Airwallex or the administrator.
Fairness ==
    /\ \A e \in Event : SF_vars(\E w \in Worker : Skip(w, e) \/ Load(w, e))
    /\ \A w \in Worker : SF_vars(Advance(w))
    /\ WF_vars(Scheduler)
    /\ \A e \in Event : WF_vars(BecomesStale(e))

FairSpec == Spec /\ Fairness

-----------------------------------------------------------------------------
(* Properties *)

TypeOK ==
    /\ event \in [Event -> Row]
    /\ older \subseteq Event \X Event
    /\ queue \in [Event -> Nat]
    /\ job \in [Worker -> Job]
    /\ sched \in [pc: {"idle", "reaping"}, reap: SUBSET Event]
    /\ booked \subseteq Resource
    /\ enabled \in BOOLEAN
    /\ faults \in Nat
    /\ deliveries \in [Event -> Nat]
    /\ claims \in [Event -> Nat]

\* An event is given up only after MaxAttempts runs really claimed it: lost
\* updates of attempts, reaped live jobs and redeliveries never make
\* process_event or recover_stale_events dead-letter it early.
NoPrematureDeadLetter ==
    \A e \in Event : event[e].status = "Dead Letter" => claims[e] >= MaxAttempts

\* A row whose result says its resource was imported tells the truth: the
\* document exists, whatever other jobs of the same resource did, whichever
\* job was killed or rolled back after the insert.
ResultIsBooked ==
    \A e \in Event : event[e].result = "booked" => Subject[e] \in booked

\* Why those hold.  A running job keeps its row: retention cannot delete an
\* event under a job or a reaper that holds it, so a redelivery never resets
\* the count of an event whose old job is still to write.
RowsOutliveJobs ==
    /\ \A w \in Worker : job[w].pc # "idle" => job[w].event \in Event /\ Stored(job[w].event)
    /\ \A w \in Worker : job[w].pc \in Holding /\ ~Durable => job[w].row.age # "expired"
    /\ \A e \in Event : event[e].age = "expired" =>
        /\ event[e].status \in Done
        /\ \A w \in Worker : ~RunsOn(w, e)
        /\ e \notin sched.reap

\* No copy of the attempts of an event, in the table, in a document loaded
\* long ago or in a transaction, runs ahead of the runs that counted.
Counted(n, e) == n <= claims[e] \/ claims[e] > MaxAttempts

AttemptsCounted ==
    /\ \A e \in Event : Counted(event[e].attempts, e)
    /\ \A w \in Worker : job[w].pc # "idle" => Counted(job[w].attempts, job[w].event)
    /\ \A w \in Worker : job[w].pc \in Holding /\ ~Durable =>
                            Counted(job[w].row.attempts, job[w].event)

\* On a transactional host no other job ever sees an attempt in progress or a
\* failed one: what process_event and recover_stale_events write between load
\* and return never reaches the table, so the reaper has nothing to reap.
OnlyOutcomesVisible ==
    /\ \A e \in Event : event[e].status \in {"Absent", "Received"} \cup Done
    /\ sched.reap = {}

\* On a transactional host a Processed or Ignored event is never taken back:
\* a second job that loaded it earlier and fails later changes nothing.
DoneStaysDone ==
    [][\A e \in Event : event[e].status \in Done => event'[e].status \in Done \cup {"Absent"}]_vars

\* On a transactional host the rows other jobs see are a ledger in which an
\* event is taken in, settled together with its document, and forgotten.
Shown(e) ==
    IF event[e].status = "Absent" THEN "unknown"
    ELSE IF event[e].status \in Done THEN event[e].result
    ELSE "waiting"

Ledger == INSTANCE EventLedger WITH ledger <- [e \in Event |-> Shown(e)], books <- booked

\* No interleaving of jobs, faults, sweeps and retention shows a half-done
\* event: every step is one of the ledger's, or shows nothing.
ImplementsLedger == Ledger!Spec

\* docs/webhooks.md: "Failed events can retry up to the configured attempt
\* limit and then move to a dead-letter state": an event whose handler fails
\* every time is a Dead Letter in the end.
FailuresEndInDeadLetter ==
    <>[]enabled => \A e \in Poison : <>Stored(e) => <>(event[e].status = "Dead Letter")

\* No stored event is forgotten: once faults stop and the connection stays
\* enabled, each is Processed, Ignored or a Dead Letter for good, those
\* behind a poisonous one in the bounded listing included.
EventsSettle ==
    <>[]enabled => <>[](\A e \in Event : Stored(e) => event[e].status \in Settled)
=============================================================================
