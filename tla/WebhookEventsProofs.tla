------------------------ MODULE WebhookEventsProofs ------------------------
(***************************************************************************)
(* What holds of the webhook queue for every set of events, resources and  *)
(* workers, every attempt limit and both hosts.                            *)
(***************************************************************************)
EXTENDS WebhookEvents, TLAPS

\* The strengthening under ResultIsBooked: what a job knows of its document
\* is true, or about to be committed.
LookupsTrue ==
    /\ \A w \in Worker : job[w].seen => Subject[job[w].event] \in booked
    /\ \A w \in Worker : job[w].inserted => job[w].pc = "written"
    /\ \A w \in Worker : job[w].pc \in {"looked", "written"} => Subject[job[w].event] \in Resource
    /\ \A w \in Worker : job[w].pc = "written" =>
                            job[w].inserted \/ Subject[job[w].event] \in booked
    /\ \A w \in Worker : job[w].row.result = "booked" => Subject[job[w].event] \in booked

\* A row whose status and result are rewritten by Finish is a row.
LEMMA RowUpdates ==
    ASSUME NEW r \in Row, NEW s \in Status, NEW n \in Nat,
           NEW a \in {"fresh", "stale", "expired"},
           NEW x \in {"none", "ignored", "held", "booked"}
    PROVE  /\ [r EXCEPT !.status = s, !.result = x] \in Row
           /\ [r EXCEPT !.status = s, !.age = a] \in Row
           /\ [r EXCEPT !.age = a, !.status = s] \in Row
           /\ [r EXCEPT !.attempts = n, !.age = a] \in Row
           /\ [r EXCEPT !.status = s] \in Row
           /\ [r EXCEPT !.age = a] \in Row
BY DEF Row

LEMMA JobUpdates ==
    ASSUME NEW j \in Job
    PROVE  /\ \A b \in BOOLEAN : [j EXCEPT !.pc = "written", !.inserted = b] \in Job
           /\ \A n \in Nat : [j EXCEPT !.pc = "counted", !.attempts = n] \in Job
<1>1. ASSUME NEW b \in BOOLEAN PROVE [j EXCEPT !.pc = "written", !.inserted = b] \in Job
  BY DEF Job, Holding
<1>2. ASSUME NEW n \in Nat PROVE [j EXCEPT !.pc = "counted", !.attempts = n] \in Job
  BY DEF Job, Holding
<1> QED
  BY <1>1, <1>2

LEMMA FixedRows ==
    /\ AbsentRow \in Row
    /\ NewRow \in Row
    /\ IdleJob \in Job
BY DEF Row, AbsentRow, NewRow, IdleJob, Job, Status, Pending, Settled, Done, Holding

LEMMA TypeInit == Init => TypeOK
<1> SUFFICES ASSUME Init PROVE TypeOK
  OBVIOUS
<1> QED
  BY FixedRows, ConstantsAssumption DEF Init, TypeOK

LEMMA QueueTyped ==
    ASSUME TypeOK, NEW S
    PROVE  Enqueued(S) \in [Event -> Nat]
BY ConstantsAssumption DEF Enqueued, AtMost, TypeOK

LEMMA ViewTyped ==
    ASSUME TypeOK, NEW w \in Worker, job[w].pc # "idle", RowsOutliveJobs
    PROVE  /\ View(w) \in Row
           /\ job[w].event \in Event
BY DEF View, TypeOK, RowsOutliveJobs, Job

LEMMA FinishTyped ==
    ASSUME TypeOK, RowsOutliveJobs, LookupsTrue, NEW w \in Worker, job[w].pc # "idle",
           NEW s \in Status, NEW x \in {"none", "ignored", "held", "booked"},
           Finish(w, s, x)
    PROVE  /\ event' \in [Event -> Row]
           /\ job' \in [Worker -> Job]
           /\ booked' \subseteq Resource
<1>1. View(w) \in Row /\ job[w].event \in Event
  BY ViewTyped
<1>2. [View(w) EXCEPT !.status = s, !.result = x] \in Row
  BY <1>1, RowUpdates
<1>3. job[w].inserted => Subject[job[w].event] \in Resource
  BY DEF LookupsTrue
<1> QED
  BY <1>1, <1>2, <1>3, FixedRows DEF Finish, TypeOK

LEMMA DbSetTyped ==
    ASSUME TypeOK, RowsOutliveJobs, NEW w \in Worker, job[w].pc # "idle",
           NEW r \in Row, NEW j \in Job, DbSet(w, r, j)
    PROVE  /\ event' \in [Event -> Row]
           /\ job' \in [Worker -> Job]
<1>1. job[w].event \in Event
  BY DEF RowsOutliveJobs
<1>2. [j EXCEPT !.row = r] \in Job
  BY DEF Job
<1> QED
  BY <1>1, <1>2 DEF DbSet, TypeOK

LEMMA ExceptTyped ==
    ASSUME TypeOK, RowsOutliveJobs, NEW w \in Worker, job[w].pc # "idle", Except(w)
    PROVE  /\ event' \in [Event -> Row]
           /\ job' \in [Worker -> Job]
<1>1. job[w].event \in Event /\ event[job[w].event] \in Row
  BY DEF RowsOutliveJobs, TypeOK
<1>2. "Retrying" \in Status /\ "Dead Letter" \in Status
  BY DEF Status, Pending, Settled, Done
<1>3. /\ [event[job[w].event] EXCEPT !.status = "Retrying"] \in Row
      /\ [event[job[w].event] EXCEPT !.status = "Dead Letter"] \in Row
  BY <1>1, <1>2 DEF Row
<1> QED
  BY <1>1, <1>3, FixedRows DEF Except, TypeOK

LEMMA TypeStep ==
    ASSUME TypeOK, RowsOutliveJobs, LookupsTrue, Next
    PROVE  TypeOK'
<1> USE DEF TypeOK
<1>q. \A S : Enqueued(S) \in [Event -> Nat]
  BY QueueTyped
<1>1. ASSUME NEW e \in Event, Deliver(e) PROVE TypeOK'
  BY <1>1, <1>q, FixedRows DEF Deliver, StoreEvent
<1>2. ASSUME NEW e \in Event, DeliverWithoutJob(e) PROVE TypeOK'
  BY <1>2, FixedRows DEF DeliverWithoutJob, StoreEvent, Fault
<1>3. ASSUME NEW e \in Event, LoseJob(e) PROVE TypeOK'
  BY <1>3 DEF LoseJob, Fault
<1>4. ASSUME NEW e \in Event, BecomesStale(e) PROVE TypeOK'
  <2>1. [event[e] EXCEPT !.age = "stale"] \in Row
    BY DEF Row
  <2> QED
    BY <1>4, <2>1 DEF BecomesStale
<1>5. ASSUME NEW e \in Event, Expires(e) PROVE TypeOK'
  <2>1. [event[e] EXCEPT !.age = "expired"] \in Row
    BY DEF Row
  <2> QED
    BY <1>5, <2>1 DEF Expires
<1>6. ASSUME NEW w \in Worker, NEW e \in Event, Skip(w, e) PROVE TypeOK'
  BY <1>6 DEF Skip
<1>7. ASSUME NEW w \in Worker, NEW e \in Event, Load(w, e) PROVE TypeOK'
  <2>1. event[e].attempts \in Nat
    BY DEF Row
  <2>2. [IdleJob EXCEPT !.pc = "loaded", !.event = e, !.attempts = event[e].attempts,
                        !.seen = ~Durable /\ Subject[e] \in booked] \in Job
    BY <2>1, FixedRows, ConstantsAssumption DEF Job
  <2> QED
    BY <1>7, <2>2 DEF Load
<1>8. ASSUME NEW w \in Worker, ClaimStatus(w) PROVE TypeOK'
  <2>1. job[w].pc # "idle" /\ job[w].event \in Event
    BY <1>8 DEF ClaimStatus, RowsOutliveJobs
  <2>2. [event[job[w].event] EXCEPT !.status = "Processing", !.age = "fresh"] \in Row
    BY <2>1, RowUpdates DEF Status
  <2>3. [job[w] EXCEPT !.pc = "claimed"] \in Job
    BY DEF Job, Holding
  <2> QED
    BY <1>8, <2>1, <2>2, <2>3, DbSetTyped DEF ClaimStatus
<1>9. ASSUME NEW w \in Worker, ClaimAttempts(w) PROVE TypeOK'
  <2>1. job[w].pc # "idle" /\ job[w].event \in Event
    BY <1>9 DEF ClaimAttempts, RowsOutliveJobs
  <2>2. job[w].attempts + 1 \in Nat
    BY DEF Job
  <2>3. View(w) \in Row
    BY <2>1, ViewTyped
  <2>4. [View(w) EXCEPT !.attempts = job[w].attempts + 1, !.age = "fresh"] \in Row
    BY <2>2, <2>3 DEF Row
  <2>5. [job[w] EXCEPT !.pc = "counted", !.attempts = job[w].attempts + 1] \in Job
    BY <2>2, JobUpdates
  <2>6. claims' \in [Event -> Nat]
    BY <1>9, <2>1, ConstantsAssumption DEF ClaimAttempts, AtMost
  <2> QED
    BY <1>9, <2>1, <2>4, <2>5, <2>6, DbSetTyped DEF ClaimAttempts
<1>10. ASSUME NEW w \in Worker, Ignore(w) \/ Hold(w) \/ Return(w) PROVE TypeOK'
  <2>1. job[w].pc # "idle"
    BY <1>10 DEF Ignore, Hold, Return
  <2>2. "Processed" \in Status /\ "Ignored" \in Status
    BY DEF Status, Settled, Done
  <2>3. event' \in [Event -> Row] /\ job' \in [Worker -> Job] /\ booked' \subseteq Resource
    BY <1>10, <2>1, <2>2, FinishTyped DEF Ignore, Hold, Return
  <2> QED
    BY <1>10, <2>3 DEF Ignore, Hold, Return
<1>11. ASSUME NEW w \in Worker, Lookup(w) \/ UpdateDocument(w) PROVE TypeOK'
  BY <1>11 DEF Lookup, UpdateDocument, Job, Holding
<1>12. ASSUME NEW w \in Worker, InsertDocument(w) PROVE TypeOK'
  <2>1. Subject[job[w].event] \in Resource
    BY <1>12 DEF InsertDocument, LookupsTrue
  <2>2. booked' \subseteq Resource
    BY <1>12, <2>1 DEF InsertDocument
  <2>3. [job[w] EXCEPT !.pc = "written", !.inserted = ~Durable] \in Job
    BY JobUpdates, ConstantsAssumption
  <2>4. job' \in [Worker -> Job]
    BY <1>12, <2>3 DEF InsertDocument
  <2> QED
    BY <1>12, <2>2, <2>4 DEF InsertDocument
<1>13. ASSUME NEW w \in Worker, UniqueViolation(w) \/ PoisonRaises(w) PROVE TypeOK'
  <2>1. job[w].pc # "idle" /\ Except(w) /\ UNCHANGED faults
    BY <1>13 DEF UniqueViolation, PoisonRaises
  <2> QED
    BY <2>1, ExceptTyped DEF Except
<1>14. ASSUME NEW w \in Worker, HandlerRaises(w) PROVE TypeOK'
  <2>1. job[w].pc # "idle" /\ Except(w) /\ Fault
    BY <1>14 DEF HandlerRaises
  <2>2. faults' \in Nat
    BY <2>1 DEF Fault
  <2> QED
    BY <2>1, <2>2, ExceptTyped DEF Except
<1>15. ASSUME NEW w \in Worker, Stop(w) PROVE TypeOK'
  BY <1>15, FixedRows DEF Stop, Fault
<1>16. CASE SchedList
  BY <1>16 DEF SchedList, Stale
<1>17. ASSUME NEW e \in Event, Reap(e) PROVE TypeOK'
  <2>1. /\ [event[e] EXCEPT !.age = "fresh", !.status = "Dead Letter"] \in Row
        /\ [event[e] EXCEPT !.age = "fresh", !.status = "Retrying"] \in Row
    BY RowUpdates DEF Status, Pending, Settled
  <2>2. event' \in [Event -> Row]
    BY <1>17, <2>1 DEF Reap
  <2> QED
    BY <1>17, <2>2 DEF Reap
<1>18. CASE SchedEnqueue
  BY <1>18, <1>q DEF SchedEnqueue
<1>19. CASE SchedStop
  BY <1>19 DEF SchedStop, Fault
<1>20. CASE Cleanup
  BY <1>20, FixedRows DEF Cleanup
<1>21. CASE Enable
  BY <1>21 DEF Enable
<1>22. CASE Disable
  <2>1. faults' \in Nat
    BY <1>22 DEF Disable, Fault
  <2>2. enabled' \in BOOLEAN
    BY <1>22 DEF Disable
  <2> QED
    BY <1>22, <2>1, <2>2 DEF Disable
<1> QED
  BY <1>1, <1>2, <1>3, <1>4, <1>5, <1>6, <1>7, <1>8, <1>9, <1>10, <1>11, <1>12, <1>13,
     <1>14, <1>15, <1>16, <1>17, <1>18, <1>19, <1>20, <1>21, <1>22 DEF Next, Advance, Scheduler

\* What a db_set leaves alone and what it changes, on either host.
LEMMA DbSetEffect ==
    ASSUME TypeOK, NEW w \in Worker, job[w].event \in Event,
           NEW r \in Row, NEW j \in Job, DbSet(w, r, j)
    PROVE  /\ \A f \in Event : f # job[w].event => event'[f] = event[f]
           /\ event'[job[w].event] \in {event[job[w].event], r}
           /\ \A v \in Worker : v # w => job'[v] = job[v]
           /\ job'[w].pc = j.pc /\ job'[w].event = j.event
           /\ job'[w].attempts = j.attempts /\ job'[w].seen = j.seen
           /\ job'[w].inserted = j.inserted
           /\ job'[w].row \in {j.row, r}
BY DEF DbSet, TypeOK, Job

\* An action that ends or keeps jobs, deletes no row and ages none keeps
\* every running job its row.
LEMMA RowsKept ==
    ASSUME TypeOK, RowsOutliveJobs,
           \A v \in Worker : job'[v].pc # "idle" => job[v].pc # "idle" /\ job'[v].event = job[v].event,
           \A f \in Event : Stored(f) => event'[f].status # "Absent",
           \A f \in Event : event'[f].age = "expired" =>
                                event[f].age = "expired" /\ event'[f].status \in Done,
           sched'.reap \subseteq sched.reap,
           \A v \in Worker : job'[v].pc \in Holding /\ ~Durable => job'[v].row.age # "expired"
    PROVE  RowsOutliveJobs'
BY DEF RowsOutliveJobs, RunsOn, Stored

\* A running job's row is stored and not expired.
LEMMA RunningRow ==
    ASSUME TypeOK, RowsOutliveJobs, NEW w \in Worker, job[w].pc # "idle"
    PROVE  /\ job[w].event \in Event
           /\ event[job[w].event] \in Row
           /\ event[job[w].event].status # "Absent"
           /\ event[job[w].event].age # "expired"
           /\ job[w].row \in Row
           /\ job[w].pc \in Holding => View(w) \in Row /\ View(w).age # "expired"
BY DEF RowsOutliveJobs, RunsOn, Stored, TypeOK, Job, View

LEMMA FinishKeepsRows ==
    ASSUME TypeOK, RowsOutliveJobs, NEW w \in Worker, job[w].pc \in Holding,
           NEW s \in Done, NEW x, Finish(w, s, x), UNCHANGED sched
    PROVE  RowsOutliveJobs'
<1>1. job[w].pc # "idle"
  BY DEF Holding
<1>2. View(w) \in Row /\ View(w).age # "expired" /\ job[w].event \in Event
  BY <1>1, RunningRow
<1> DEFINE r == [View(w) EXCEPT !.status = s, !.result = x]
<1>3. r.status = s /\ r.age = View(w).age /\ s # "Absent"
  BY <1>2 DEF Row, Done
<1>4. event' = [event EXCEPT ![job[w].event] = r]
  BY DEF Finish
<1> HIDE DEF r
<1>5. \A f \in Event : event'[f] = IF f = job[w].event THEN r ELSE event[f]
  BY <1>4, <1>2 DEF TypeOK
<1>6. \A v \in Worker : job'[v] = IF v = w THEN IdleJob ELSE job[v]
  BY DEF Finish, TypeOK
<1>7. \A f \in Event : Stored(f) => event'[f].status # "Absent"
  BY <1>3, <1>5 DEF Stored
<1>8. \A f \in Event : event'[f].age = "expired" =>
                event[f].age = "expired" /\ event'[f].status \in Done
  BY <1>2, <1>3, <1>5 DEF RowsOutliveJobs
<1>9. \A v \in Worker : job'[v].pc # "idle" => job[v].pc # "idle" /\ job'[v].event = job[v].event
  BY <1>6 DEF IdleJob
<1>10. \A v \in Worker : job'[v].pc \in Holding /\ ~Durable => job'[v].row.age # "expired"
  BY <1>6 DEF IdleJob, Holding, RowsOutliveJobs
<1> QED
  BY <1>7, <1>8, <1>9, <1>10, RowsKept

LEMMA DbSetKeepsRows ==
    ASSUME TypeOK, RowsOutliveJobs, NEW w \in Worker, job[w].pc # "idle",
           NEW r \in Row, Durable => r.status # "Absent", r.age # "expired",
           NEW j \in Job, j.event = job[w].event,
           DbSet(w, r, j), UNCHANGED sched
    PROVE  RowsOutliveJobs'
<1>1. job[w].event \in Event
  BY RunningRow
<1>2. \A f \in Event : event'[f] = event[f] \/ (f = job[w].event /\ event'[f] = r)
  BY <1>1 DEF DbSet, TypeOK
<1>2a. ~Durable => event' = event
  BY DEF DbSet
<1>3. \A v \in Worker : v # w => job'[v] = job[v]
  BY DEF DbSet, TypeOK
<1>4. job'[w].event = job[w].event
  BY DEF DbSet, TypeOK, Job
<1>5. ~Durable => job'[w].row = r
  BY DEF DbSet, TypeOK, Job
<1>6. \A f \in Event : Stored(f) => event'[f].status # "Absent"
  BY <1>2, <1>2a DEF Stored
<1>7. \A f \in Event : event'[f].age = "expired" =>
                event[f].age = "expired" /\ event'[f].status \in Done
  BY <1>2 DEF RowsOutliveJobs
<1>8. \A v \in Worker : job'[v].pc # "idle" => job[v].pc # "idle" /\ job'[v].event = job[v].event
  BY <1>3, <1>4
<1>9. \A v \in Worker : job'[v].pc \in Holding /\ ~Durable => job'[v].row.age # "expired"
  BY <1>3, <1>5 DEF RowsOutliveJobs
<1> QED
  BY <1>6, <1>7, <1>8, <1>9, RowsKept

LEMMA ExceptKeepsRows ==
    ASSUME TypeOK, RowsOutliveJobs, NEW w \in Worker, job[w].pc # "idle", Except(w)
    PROVE  RowsOutliveJobs'
<1>1. job[w].event \in Event /\ event[job[w].event].age # "expired"
  BY RunningRow
<1>2. \A f \in Event : f # job[w].event => event'[f] = event[f]
  BY <1>1 DEF Except, TypeOK
<1>3. event'[job[w].event].age = event[job[w].event].age
  BY <1>1 DEF Except, TypeOK, Row
<1>4. \/ event'[job[w].event].status = event[job[w].event].status
      \/ event'[job[w].event].status \in {"Retrying", "Dead Letter"}
  BY <1>1, ZenonT(40) DEF Except, TypeOK, Row
<1>5. \A v \in Worker : job'[v] = IF v = w THEN IdleJob ELSE job[v]
  BY DEF Except, TypeOK
<1>6. \A f \in Event : Stored(f) => event'[f].status # "Absent"
  BY <1>2, <1>4 DEF Stored
<1>7. \A f \in Event : event'[f].age = "expired" =>
                event[f].age = "expired" /\ event'[f].status \in Done
  BY <1>1, <1>2, <1>3 DEF RowsOutliveJobs
<1>8. \A v \in Worker : job'[v].pc # "idle" => job[v].pc # "idle" /\ job'[v].event = job[v].event
  BY <1>5 DEF IdleJob
<1>9. \A v \in Worker : job'[v].pc \in Holding /\ ~Durable => job'[v].row.age # "expired"
  BY <1>5 DEF IdleJob, Holding, RowsOutliveJobs
<1> QED
  BY <1>6, <1>7, <1>8, <1>9, RowsKept DEF Except

LEMMA RowsStep ==
    ASSUME TypeOK, RowsOutliveJobs, Next
    PROVE  RowsOutliveJobs'
<1>1. ASSUME NEW e \in Event, StoreEvent(e), UNCHANGED <<job, sched>> PROVE RowsOutliveJobs'
  <2>1. \A f \in Event : event'[f] = event[f] \/ event'[f] = NewRow
    BY <1>1 DEF StoreEvent, TypeOK
  <2>2. NewRow.status = "Received" /\ NewRow.age = "fresh"
    BY DEF NewRow, AbsentRow
  <2> QED
    BY <1>1, <2>1, <2>2, RowsKept DEF RowsOutliveJobs, Stored
<1>2. ASSUME NEW e \in Event, Deliver(e) \/ DeliverWithoutJob(e) PROVE RowsOutliveJobs'
  BY <1>1, <1>2 DEF Deliver, DeliverWithoutJob
<1>3. ASSUME UNCHANGED <<event, job, sched>> PROVE RowsOutliveJobs'
  BY <1>3 DEF RowsOutliveJobs, RunsOn, Stored
<1>4. ASSUME NEW e \in Event, LoseJob(e) \/ \E w \in Worker : Skip(w, e) PROVE RowsOutliveJobs'
  BY <1>3, <1>4 DEF LoseJob, Skip
<1>5. ASSUME NEW e \in Event, BecomesStale(e) PROVE RowsOutliveJobs'
  BY <1>5 DEF BecomesStale, TypeOK, Row, RowsOutliveJobs, RunsOn, Stored
<1>6. ASSUME NEW e \in Event, Expires(e) PROVE RowsOutliveJobs'
  BY <1>6 DEF Expires, TypeOK, Row, RowsOutliveJobs, RunsOn, Stored
<1>7. ASSUME NEW w \in Worker, NEW e \in Event, Load(w, e) PROVE RowsOutliveJobs'
  BY <1>7 DEF Load, IdleJob, TypeOK, Job, Holding, RowsOutliveJobs, RunsOn, Stored, Done
<1>8. ASSUME NEW w \in Worker, ClaimStatus(w) PROVE RowsOutliveJobs'
  <2>1. job[w].pc # "idle" /\ job[w] \in Job /\ event[job[w].event] \in Row
    BY <1>8, RunningRow DEF ClaimStatus, TypeOK
  <2>2. [job[w] EXCEPT !.pc = "claimed"] \in Job
    BY <2>1 DEF Job, Holding
  <2>3. [event[job[w].event] EXCEPT !.status = "Processing", !.age = "fresh"] \in Row
    BY <2>1, RowUpdates DEF Status
  <2>4. /\ [event[job[w].event] EXCEPT !.status = "Processing", !.age = "fresh"].status = "Processing"
        /\ [event[job[w].event] EXCEPT !.status = "Processing", !.age = "fresh"].age = "fresh"
        /\ [job[w] EXCEPT !.pc = "claimed"].event = job[w].event
    BY <2>1 DEF Row, Job
  <2> QED
    BY <1>8, <2>1, <2>2, <2>3, <2>4, DbSetKeepsRows DEF ClaimStatus
<1>9. ASSUME NEW w \in Worker, ClaimAttempts(w) PROVE RowsOutliveJobs'
  <2> DEFINE r == [View(w) EXCEPT !.attempts = job[w].attempts + 1, !.age = "fresh"]
             j == [job[w] EXCEPT !.pc = "counted", !.attempts = job[w].attempts + 1]
  <2>1. job[w].pc = "claimed" /\ job[w] \in Job /\ job[w].attempts + 1 \in Nat
    BY <1>9 DEF ClaimAttempts, TypeOK, Job
  <2>2. job[w].event \in Event /\ View(w) \in Row
    BY <2>1, RunningRow DEF Holding
  <2>3. j \in Job
    BY <2>1, JobUpdates
  <2>4. r \in Row
    BY <2>1, <2>2 DEF Row
  <2>5. r.age = "fresh" /\ r.status = View(w).status /\ j.event = job[w].event
    BY <2>1, <2>2 DEF Row, Job
  <2>6. Durable => View(w).status # "Absent"
    BY <2>1, RunningRow, <1>9 DEF View, ClaimAttempts
  <2>7. DbSet(w, r, j) /\ UNCHANGED sched
    BY <1>9 DEF ClaimAttempts
  <2> HIDE DEF r, j
  <2> QED
    BY <2>1, <2>3, <2>4, <2>5, <2>6, <2>7, DbSetKeepsRows
<1>10. ASSUME NEW w \in Worker, Ignore(w) \/ Hold(w) \/ Return(w) PROVE RowsOutliveJobs'
  BY <1>10, FinishKeepsRows DEF Ignore, Hold, Return, Done, Holding
<1>11. ASSUME NEW w \in Worker, Lookup(w) \/ UpdateDocument(w) \/ InsertDocument(w) PROVE RowsOutliveJobs'
  <2>1. \A v \in Worker : job'[v].event = job[v].event /\ job'[v].row = job[v].row
    BY <1>11 DEF Lookup, UpdateDocument, InsertDocument, TypeOK, Job
  <2>2. \A v \in Worker : job'[v].pc = job[v].pc \/ job[v].pc \in Holding
    BY <1>11 DEF Lookup, UpdateDocument, InsertDocument, TypeOK, Job, Holding
  <2>3. UNCHANGED <<event, sched>>
    BY <1>11 DEF Lookup, UpdateDocument, InsertDocument
  <2>4. \A v \in Worker : job'[v].pc # "idle" => job[v].pc # "idle" /\ job'[v].event = job[v].event
    BY <2>1, <2>2 DEF Holding
  <2>5. \A v \in Worker : job'[v].pc \in Holding /\ ~Durable => job'[v].row.age # "expired"
    BY <2>1, <2>2 DEF RowsOutliveJobs
  <2> QED
    BY <2>3, <2>4, <2>5, RowsKept DEF Stored, RowsOutliveJobs
<1>12. ASSUME NEW w \in Worker, UniqueViolation(w) \/ PoisonRaises(w) \/ HandlerRaises(w)
       PROVE  RowsOutliveJobs'
  BY <1>12, ExceptKeepsRows DEF UniqueViolation, PoisonRaises, HandlerRaises
<1>13. ASSUME NEW w \in Worker, Stop(w) PROVE RowsOutliveJobs'
  BY <1>13 DEF Stop, IdleJob, TypeOK, Job, Holding, RowsOutliveJobs, RunsOn, Stored
<1>14. CASE SchedList
  BY <1>14 DEF SchedList, Stale, TypeOK, RowsOutliveJobs, RunsOn, Stored
<1>15. ASSUME NEW e \in Event, Reap(e) PROVE RowsOutliveJobs'
  <2>1. \A f \in Event : f # e => event'[f] = event[f]
    BY <1>15 DEF Reap, TypeOK
  <2>2. event'[e].age = "fresh" /\ event'[e].status \in {"Retrying", "Dead Letter"}
    BY <1>15, ZenonT(40) DEF Reap, TypeOK, Row
  <2>3. sched'.reap \subseteq sched.reap /\ job' = job
    BY <1>15 DEF Reap, TypeOK
  <2> QED
    BY <2>1, <2>2, <2>3, RowsKept DEF RowsOutliveJobs, Stored
<1>16. CASE SchedEnqueue
  BY <1>16 DEF SchedEnqueue, TypeOK, RowsOutliveJobs, RunsOn, Stored
<1>17. CASE SchedStop
  BY <1>17 DEF SchedStop, TypeOK, RowsOutliveJobs, RunsOn, Stored
<1>18. CASE Cleanup
  BY <1>18 DEF Cleanup, AbsentRow, TypeOK, RowsOutliveJobs, RunsOn, Stored
<1>19. CASE Enable \/ Disable
  BY <1>3, <1>19 DEF Enable, Disable
<1> QED
  BY <1>2, <1>4, <1>5, <1>6, <1>7, <1>8, <1>9, <1>10, <1>11, <1>12, <1>13, <1>14, <1>15,
     <1>16, <1>17, <1>18, <1>19 DEF Next, Advance, Scheduler

\* An action that leaves jobs as they are or ends them, and unbooks nothing,
\* keeps what the other jobs know.
LEMMA LookupsKept ==
    ASSUME TypeOK, LookupsTrue,
           \A v \in Worker : job'[v] = job[v] \/ job'[v] = IdleJob,
           booked \subseteq booked'
    PROVE  LookupsTrue'
BY DEF LookupsTrue, IdleJob, AbsentRow

\* The results of stored rows stay true when only rows of a true or empty
\* result are written.
LEMMA ResultsKept ==
    ASSUME TypeOK, ResultIsBooked, booked \subseteq booked',
           \A f \in Event : \/ event'[f].result = event[f].result
                             \/ event'[f].result # "booked"
                             \/ Subject[f] \in booked'
    PROVE  ResultIsBooked'
BY DEF ResultIsBooked

LEMMA FinishIsTrue ==
    ASSUME TypeOK, RowsOutliveJobs, LookupsTrue, ResultIsBooked,
           NEW w \in Worker, job[w].pc # "idle", NEW s, NEW x, Finish(w, s, x),
           x = "booked" => job[w].pc = "written"
    PROVE  LookupsTrue' /\ ResultIsBooked'
<1>1. job[w].event \in Event /\ View(w) \in Row
  BY ViewTyped
<1>2. booked \subseteq booked'
  BY DEF Finish
<1>3. \A v \in Worker : job'[v] = job[v] \/ job'[v] = IdleJob
  BY DEF Finish, TypeOK
<1>4. \A f \in Event : f # job[w].event => event'[f] = event[f]
  BY <1>1 DEF Finish, TypeOK
<1>5. event'[job[w].event].result = x
  BY <1>1 DEF Finish, TypeOK, Row
<1>6. x = "booked" => Subject[job[w].event] \in booked'
  BY DEF Finish, LookupsTrue
<1> QED
  BY <1>2, <1>3, <1>4, <1>5, <1>6, LookupsKept, ResultsKept

LEMMA ExceptIsTrue ==
    ASSUME TypeOK, RowsOutliveJobs, LookupsTrue, ResultIsBooked,
           NEW w \in Worker, job[w].pc # "idle", Except(w)
    PROVE  LookupsTrue' /\ ResultIsBooked'
<1>1. job[w].event \in Event
  BY RunningRow
<1>2. \A f \in Event : event'[f].result = event[f].result
  BY <1>1, ZenonT(40) DEF Except, TypeOK, Row
<1>3. \A v \in Worker : job'[v] = job[v] \/ job'[v] = IdleJob
  BY DEF Except, TypeOK
<1> QED
  BY <1>2, <1>3, LookupsKept, ResultsKept DEF Except

LEMMA LookupsStep ==
    ASSUME TypeOK, RowsOutliveJobs, LookupsTrue, ResultIsBooked, Next
    PROVE  LookupsTrue' /\ ResultIsBooked'
<1>1. ASSUME UNCHANGED <<job, booked>>,
             \A f \in Event : event'[f].result \in {event[f].result, "none"}
      PROVE  LookupsTrue' /\ ResultIsBooked'
  BY <1>1, LookupsKept, ResultsKept
<1>2. ASSUME NEW e \in Event,
             Deliver(e) \/ DeliverWithoutJob(e) \/ LoseJob(e) \/ BecomesStale(e)
                \/ Expires(e) \/ Reap(e) \/ (\E w \in Worker : Skip(w, e))
      PROVE  LookupsTrue' /\ ResultIsBooked'
  <2>1. CASE Deliver(e) \/ DeliverWithoutJob(e)
    BY <1>1, <2>1 DEF Deliver, DeliverWithoutJob, StoreEvent, NewRow, AbsentRow, TypeOK
  <2>2. CASE LoseJob(e) \/ \E w \in Worker : Skip(w, e)
    BY <1>1, <2>2 DEF LoseJob, Skip
  <2>3. CASE BecomesStale(e) \/ Expires(e)
    BY <1>1, <2>3 DEF BecomesStale, Expires, TypeOK, Row
  <2>4. CASE Reap(e)
    BY <1>1, <2>4, ZenonT(40) DEF Reap, TypeOK, Row
  <2> QED
    BY <1>2, <2>1, <2>2, <2>3, <2>4
<1>3. CASE SchedList \/ SchedEnqueue \/ SchedStop \/ Enable \/ Disable
  BY <1>1, <1>3 DEF SchedList, SchedEnqueue, SchedStop, Enable, Disable
<1>4. CASE Cleanup
  BY <1>1, <1>4 DEF Cleanup, AbsentRow
<1>5. ASSUME NEW w \in Worker, NEW e \in Event, Load(w, e) PROVE LookupsTrue' /\ ResultIsBooked'
  <2>1. \A v \in Worker : v # w => job'[v] = job[v]
    BY <1>5 DEF Load, TypeOK
  <2>2. /\ job'[w].pc = "loaded" /\ job'[w].event = e /\ job'[w].row = AbsentRow
        /\ ~job'[w].inserted
        /\ job'[w].seen => Subject[e] \in booked
    BY <1>5 DEF Load, IdleJob, TypeOK
  <2>3. UNCHANGED <<event, booked>>
    BY <1>5 DEF Load
  <2> QED
    BY <2>1, <2>2, <2>3 DEF LookupsTrue, ResultIsBooked, AbsentRow
<1>6. ASSUME NEW w \in Worker, NEW r \in Row, NEW j \in Job, job[w].event \in Event,
             DbSet(w, r, j), booked' = booked,
             r.result \in {event[job[w].event].result, job[w].row.result},
             job[w].pc \in {"loaded", "claimed"}, j.pc \in {"claimed", "counted"},
             j.event = job[w].event, j.seen = job[w].seen, j.row = job[w].row,
             j.inserted = job[w].inserted
      PROVE  LookupsTrue' /\ ResultIsBooked'
  <2>1. r.result = "booked" => Subject[job[w].event] \in booked
    BY <1>6 DEF LookupsTrue, ResultIsBooked
  <2>2. ~job[w].inserted
    BY <1>6 DEF LookupsTrue
  <2>3. ResultIsBooked'
    BY <1>6, <2>1, DbSetEffect, ResultsKept
  <2>4. LookupsTrue'
    BY <1>6, <2>1, <2>2, DbSetEffect DEF LookupsTrue
  <2> QED
    BY <2>3, <2>4
<1>7. ASSUME NEW w \in Worker, ClaimStatus(w) \/ ClaimAttempts(w) PROVE LookupsTrue' /\ ResultIsBooked'
  <2>1. /\ job[w].pc \in {"loaded", "claimed"} /\ booked' = booked
        /\ job[w] \in Job /\ job[w].attempts + 1 \in Nat
    BY <1>7 DEF ClaimStatus, ClaimAttempts, TypeOK, Job
  <2>2. job[w].event \in Event /\ event[job[w].event] \in Row /\ View(w) \in Row
    BY <2>1, RunningRow, ViewTyped
  <2>3. CASE ClaimStatus(w)
    <3> DEFINE r == [event[job[w].event] EXCEPT !.status = "Processing", !.age = "fresh"]
               j == [job[w] EXCEPT !.pc = "claimed"]
    <3>1. r \in Row /\ r.result = event[job[w].event].result
      BY <2>2 DEF Status, Row
    <3>2. /\ j \in Job /\ j.pc = "claimed" /\ j.event = job[w].event /\ j.seen = job[w].seen
          /\ j.row = job[w].row /\ j.inserted = job[w].inserted
      BY <2>1 DEF Job, Holding
    <3>3. DbSet(w, r, j)
      BY <2>3 DEF ClaimStatus
    <3> HIDE DEF r, j
    <3> QED
      BY <1>6, <2>1, <2>2, <3>1, <3>2, <3>3
  <2>4. CASE ClaimAttempts(w)
    <3> DEFINE r == [View(w) EXCEPT !.attempts = job[w].attempts + 1, !.age = "fresh"]
               j == [job[w] EXCEPT !.pc = "counted", !.attempts = job[w].attempts + 1]
    <3>1. r \in Row /\ r.result = View(w).result
      BY <2>1, <2>2 DEF Row
    <3>2. View(w).result \in {event[job[w].event].result, job[w].row.result}
      BY DEF View
    <3>3. j \in Job
      BY <2>1, JobUpdates
    <3>4. /\ j.pc = "counted" /\ j.event = job[w].event /\ j.seen = job[w].seen
          /\ j.row = job[w].row /\ j.inserted = job[w].inserted
      BY <2>1 DEF Job
    <3>5. DbSet(w, r, j)
      BY <2>4 DEF ClaimAttempts
    <3> HIDE DEF r, j
    <3> QED
      BY <1>6, <2>1, <2>2, <3>1, <3>2, <3>3, <3>4, <3>5
  <2> QED
    BY <1>7, <2>3, <2>4
<1>8. ASSUME NEW w \in Worker, Ignore(w) \/ Hold(w) \/ Return(w) PROVE LookupsTrue' /\ ResultIsBooked'
  BY <1>8, FinishIsTrue DEF Ignore, Hold, Return
<1>9. ASSUME NEW w \in Worker, Lookup(w) \/ UpdateDocument(w) PROVE LookupsTrue' /\ ResultIsBooked'
  <2>1. job[w].event \in Event /\ Subject[job[w].event] \in Resource
    BY <1>9, RunningRow, ConstantsAssumption DEF Lookup, UpdateDocument, LookupsTrue
  <2>2. \A v \in Worker : v # w => job'[v] = job[v]
    BY <1>9 DEF Lookup, UpdateDocument, TypeOK
  <2>3. /\ job'[w].event = job[w].event /\ job'[w].row = job[w].row
        /\ job'[w].inserted = job[w].inserted /\ job'[w].pc \in {"looked", "written"}
    BY <1>9 DEF Lookup, UpdateDocument, TypeOK, Job
  <2>4. job'[w].seen => Subject[job[w].event] \in booked
    BY <1>9 DEF Lookup, UpdateDocument, TypeOK, Job, LookupsTrue
  <2>5. job'[w].pc = "written" => Subject[job[w].event] \in booked
    BY <1>9 DEF Lookup, UpdateDocument, TypeOK, Job, LookupsTrue
  <2>6. ~job[w].inserted
    BY <1>9 DEF Lookup, UpdateDocument, LookupsTrue
  <2>7. UNCHANGED <<event, booked>>
    BY <1>9 DEF Lookup, UpdateDocument
  <2> QED
    BY <2>1, <2>2, <2>3, <2>4, <2>5, <2>6, <2>7 DEF LookupsTrue, ResultIsBooked
<1>10. ASSUME NEW w \in Worker, InsertDocument(w) PROVE LookupsTrue' /\ ResultIsBooked'
  <2>1. \A v \in Worker : v # w => job'[v] = job[v]
    BY <1>10 DEF InsertDocument, TypeOK
  <2>2. /\ job'[w].event = job[w].event /\ job'[w].row = job[w].row
        /\ job'[w].pc = "written" /\ job'[w].seen = job[w].seen
        /\ Durable \/ job'[w].inserted
    BY <1>10 DEF InsertDocument, TypeOK, Job
  <2>3. booked \subseteq booked' /\ (Durable => Subject[job[w].event] \in booked')
    BY <1>10 DEF InsertDocument
  <2>4. Subject[job[w].event] \in Resource
    BY <1>10 DEF InsertDocument, LookupsTrue
  <2>5. event' = event
    BY <1>10 DEF InsertDocument
  <2>6. LookupsTrue'
    BY <2>1, <2>2, <2>3, <2>4, ConstantsAssumption DEF LookupsTrue
  <2>7. ResultIsBooked'
    BY <2>3, <2>5, ResultsKept
  <2> QED
    BY <2>6, <2>7
<1>11. ASSUME NEW w \in Worker, UniqueViolation(w) \/ PoisonRaises(w) \/ HandlerRaises(w)
       PROVE  LookupsTrue' /\ ResultIsBooked'
  BY <1>11, ExceptIsTrue DEF UniqueViolation, PoisonRaises, HandlerRaises
<1>12. ASSUME NEW w \in Worker, Stop(w) PROVE LookupsTrue' /\ ResultIsBooked'
  <2>1. \A v \in Worker : job'[v] = job[v] \/ job'[v] = IdleJob
    BY <1>12 DEF Stop, TypeOK
  <2> QED
    BY <1>12, <2>1, LookupsKept, ResultsKept DEF Stop
<1> QED
  BY <1>2, <1>3, <1>4, <1>5, <1>7, <1>8, <1>9, <1>10, <1>11, <1>12
     DEF Next, Advance, Scheduler

\* No claim is forgotten by an action that resets no count.
LEMMA CountedKept ==
    ASSUME TypeOK, claims' \in [Event -> Nat], NEW f \in Event, NEW n \in Nat,
           claims'[f] >= claims[f], Counted(n, f)
    PROVE  n <= claims'[f] \/ claims'[f] > MaxAttempts
BY ConstantsAssumption DEF Counted, TypeOK

\* An action that counts nothing, loads nothing and forgets nothing.
LEMMA AttemptsKept ==
    ASSUME TypeOK, AttemptsCounted, claims' = claims,
           \A f \in Event : Counted(event'[f].attempts, f),
           \A v \in Worker :
               /\ job'[v].pc # "idle" => Counted(job'[v].attempts, job'[v].event)
               /\ job'[v].pc \in Holding /\ ~Durable => Counted(job'[v].row.attempts, job'[v].event)
    PROVE  AttemptsCounted'
BY DEF AttemptsCounted, Counted

LEMMA DeadLetterKept ==
    ASSUME TypeOK, NoPrematureDeadLetter, claims' = claims,
           \A f \in Event : event'[f].status = "Dead Letter" =>
                              event[f].status = "Dead Letter" \/ claims[f] >= MaxAttempts
    PROVE  NoPrematureDeadLetter'
BY DEF NoPrematureDeadLetter

\* MaxAttempts counted attempts are MaxAttempts claims.
LEMMA ExhaustedIsClaimed ==
    ASSUME TypeOK, NEW f \in Event, NEW n \in Nat, Counted(n, f), n >= MaxAttempts
    PROVE  claims[f] >= MaxAttempts
BY ConstantsAssumption DEF Counted, TypeOK

LEMMA AttemptsStep ==
    ASSUME TypeOK, RowsOutliveJobs, AttemptsCounted, NoPrematureDeadLetter, Next
    PROVE  AttemptsCounted' /\ NoPrematureDeadLetter'
<1> DEFINE Goal == AttemptsCounted' /\ NoPrematureDeadLetter'
<1>z. \A f \in Event : Counted(0, f)
  BY DEF Counted, TypeOK
<1>1. ASSUME claims' = claims,
             \A v \in Worker : job'[v] = IdleJob \/
                /\ job'[v].pc # "idle" => job[v].pc # "idle"
                /\ job'[v].pc \in Holding => job[v].pc \in Holding
                /\ job'[v].event = job[v].event /\ job'[v].attempts = job[v].attempts
                /\ job'[v].row = job[v].row,
             \A f \in Event :
                /\ Counted(event'[f].attempts, f)
                /\ event'[f].status = "Dead Letter" =>
                        event[f].status = "Dead Letter" \/ claims[f] >= MaxAttempts
      PROVE  Goal
  <2>1. \A v \in Worker :
               /\ job'[v].pc # "idle" => Counted(job'[v].attempts, job'[v].event)
               /\ job'[v].pc \in Holding /\ ~Durable => Counted(job'[v].row.attempts, job'[v].event)
    <3> TAKE v \in Worker
    <3>1. CASE job'[v] = IdleJob
      BY <3>1 DEF IdleJob, Holding
    <3>2. CASE job'[v] # IdleJob
      BY <1>1, <3>2 DEF AttemptsCounted
    <3> QED
      BY <3>1, <3>2
  <2> QED
    BY <1>1, <2>1, AttemptsKept, DeadLetterKept
<1>2. ASSUME NEW e \in Event, StoreEvent(e), job' = job PROVE Goal
  <2>1. CASE Stored(e)
    BY <1>1, <1>2, <2>1 DEF StoreEvent, AttemptsCounted
  <2>2. CASE ~Stored(e)
    <3>1. \A f \in Event : f # e => event'[f] = event[f] /\ claims'[f] = claims[f]
      BY <1>2, <2>2 DEF StoreEvent, TypeOK
    <3>2. event'[e] = NewRow /\ claims'[e] = 0
      BY <1>2, <2>2 DEF StoreEvent, TypeOK
    <3>3. NewRow.attempts = 0 /\ NewRow.status = "Received"
      BY DEF NewRow, AbsentRow
    <3>4. \A v \in Worker : job[v].pc # "idle" => job[v].event # e /\ job[v].event \in Event
      BY <2>2 DEF RowsOutliveJobs
    <3>5. \A v \in Worker : job[v].pc \in Holding => job[v].pc # "idle"
      BY DEF Holding
    <3>6. AttemptsCounted'
      BY <1>2, <3>1, <3>2, <3>3, <3>4, <3>5, ConstantsAssumption DEF AttemptsCounted, Counted
    <3>7. NoPrematureDeadLetter'
      BY <3>1, <3>2, <3>3 DEF NoPrematureDeadLetter
    <3> QED
      BY <3>6, <3>7
  <2> QED
    BY <2>1, <2>2
<1>3. ASSUME NEW e \in Event, Deliver(e) \/ DeliverWithoutJob(e) PROVE Goal
  BY <1>2, <1>3 DEF Deliver, DeliverWithoutJob
<1>4. ASSUME UNCHANGED <<event, job, claims>> PROVE Goal
  BY <1>1, <1>4 DEF AttemptsCounted
<1>5. ASSUME NEW e \in Event, LoseJob(e) \/ \E w \in Worker : Skip(w, e) PROVE Goal
  BY <1>4, <1>5 DEF LoseJob, Skip
<1>6. CASE SchedList \/ SchedEnqueue \/ SchedStop \/ Enable \/ Disable
  BY <1>4, <1>6 DEF SchedList, SchedEnqueue, SchedStop, Enable, Disable
<1>7. ASSUME NEW e \in Event, BecomesStale(e) \/ Expires(e) PROVE Goal
  <2>1. \A f \in Event : event'[f].attempts = event[f].attempts /\ event'[f].status = event[f].status
    BY <1>7 DEF BecomesStale, Expires, TypeOK, Row
  <2> QED
    BY <1>1, <1>7, <2>1 DEF BecomesStale, Expires, AttemptsCounted
<1>8. ASSUME NEW e \in Event, Reap(e) PROVE Goal
  <2>1. \A f \in Event : f # e => event'[f] = event[f]
    BY <1>8 DEF Reap, TypeOK
  <2>2. /\ event'[e].attempts = event[e].attempts /\ event[e].attempts \in Nat
        /\ event'[e].status = IF event[e].attempts >= MaxAttempts THEN "Dead Letter" ELSE "Retrying"
    BY <1>8 DEF Reap, TypeOK, Row
  <2>3. Counted(event[e].attempts, e)
    BY DEF AttemptsCounted
  <2>4. event'[e].status = "Dead Letter" => claims[e] >= MaxAttempts
    BY <2>2, <2>3, ExhaustedIsClaimed
  <2> QED
    BY <1>1, <1>8, <2>1, <2>2, <2>4 DEF Reap, AttemptsCounted
<1>9. CASE Cleanup
  <2>1. \A f \in Event : event'[f] = event[f] \/ event'[f] = AbsentRow
    BY <1>9 DEF Cleanup
  <2>2. AbsentRow.attempts = 0 /\ AbsentRow.status = "Absent"
    BY DEF AbsentRow
  <2> QED
    BY <1>1, <1>9, <1>z, <2>1, <2>2 DEF Cleanup, AttemptsCounted
<1>10. ASSUME NEW w \in Worker, NEW e \in Event, Load(w, e) PROVE Goal
  <2>1. \A v \in Worker : v # w => job'[v] = job[v]
    BY <1>10 DEF Load, TypeOK
  <2>2. job'[w].pc = "loaded" /\ job'[w].event = e /\ job'[w].attempts = event[e].attempts
    BY <1>10 DEF Load, IdleJob, TypeOK
  <2>3. UNCHANGED <<event, claims>>
    BY <1>10 DEF Load
  <2>4. AttemptsCounted'
    BY <2>1, <2>2, <2>3, AttemptsKept DEF AttemptsCounted, Holding
  <2> QED
    BY <2>3, <2>4, DeadLetterKept
<1>11. ASSUME NEW w \in Worker, ClaimStatus(w) PROVE Goal
  <2> DEFINE r == [event[job[w].event] EXCEPT !.status = "Processing", !.age = "fresh"]
             j == [job[w] EXCEPT !.pc = "claimed"]
  <2>1. job[w].pc = "loaded" /\ job[w] \in Job /\ claims' = claims /\ DbSet(w, r, j)
    BY <1>11 DEF ClaimStatus, TypeOK
  <2>2. job[w].event \in Event /\ event[job[w].event] \in Row
    BY <2>1, RunningRow
  <2>3. r \in Row /\ r.attempts = event[job[w].event].attempts /\ r.status = "Processing"
    BY <2>2 DEF Status, Row
  <2>4. j \in Job /\ j.event = job[w].event /\ j.attempts = job[w].attempts /\ j.row = job[w].row
    BY <2>1 DEF Job, Holding
  <2> HIDE DEF r, j
  <2>5. \A f \in Event : Counted(event'[f].attempts, f)
    BY <2>1, <2>2, <2>3, <2>4, DbSetEffect DEF AttemptsCounted
  <2>6. Counted(job[w].attempts, job[w].event) /\ Counted(r.attempts, job[w].event)
    BY <2>1, <2>2, <2>3 DEF AttemptsCounted
  <2>7. ~Durable => job'[w].row = r
    BY <2>1, <2>4 DEF DbSet, TypeOK, Job
  <2>8. \A v \in Worker :
               /\ job'[v].pc # "idle" => Counted(job'[v].attempts, job'[v].event)
               /\ job'[v].pc \in Holding /\ ~Durable => Counted(job'[v].row.attempts, job'[v].event)
    BY <2>1, <2>2, <2>3, <2>4, <2>6, <2>7, DbSetEffect DEF AttemptsCounted
  <2>9. \A f \in Event : event'[f].status = "Dead Letter" => event[f].status = "Dead Letter"
    <3>1. /\ \A f \in Event : f # job[w].event => event'[f] = event[f]
          /\ event'[job[w].event] \in {event[job[w].event], r}
      BY <2>1, <2>2, <2>3, <2>4, DbSetEffect
    <3> QED
      BY <2>3, <3>1
  <2> QED
    BY <2>1, <2>5, <2>8, <2>9, AttemptsKept, DeadLetterKept
<1>12. ASSUME NEW w \in Worker, ClaimAttempts(w) PROVE Goal
  <2> DEFINE e == job[w].event
             n == job[w].attempts + 1
             r == [View(w) EXCEPT !.attempts = n, !.age = "fresh"]
             j == [job[w] EXCEPT !.pc = "counted", !.attempts = n]
  <2>1. job[w].pc = "claimed" /\ job[w] \in Job /\ job[w].attempts \in Nat /\ DbSet(w, r, j)
    BY <1>12 DEF ClaimAttempts, TypeOK, Job
  <2>2. e \in Event /\ View(w) \in Row /\ event[e] \in Row /\ n \in Nat
    BY <2>1, RunningRow DEF Holding
  <2> HIDE DEF n
  <2>3. r \in Row /\ r.attempts = n /\ r.status = View(w).status
    BY <2>1, <2>2 DEF Row
  <2>4. j \in Job /\ j.event = e /\ j.attempts = n
    <3>1. j \in Job
      BY <2>1, <2>2, JobUpdates
    <3> QED
      BY <2>1, <2>2, <3>1 DEF Job
  <2>5. /\ claims' \in [Event -> Nat]
        /\ \A f \in Event : f # e => claims'[f] = claims[f]
        /\ claims'[e] = AtMost(claims[e] + 1, MaxAttempts + 1)
    BY <1>12, <2>2, ConstantsAssumption DEF ClaimAttempts, TypeOK, AtMost
  <2>6. claims'[e] > MaxAttempts \/ claims'[e] = claims[e] + 1
    BY <2>5, ConstantsAssumption DEF AtMost, TypeOK
  <2>7. \A f \in Event : claims'[f] >= claims[f] \/ claims'[f] > MaxAttempts
    BY <2>5, <2>6, ConstantsAssumption DEF TypeOK
  <2>8. n <= claims'[e] \/ claims'[e] > MaxAttempts
    BY <2>1, <2>2, <2>5, <2>6, ConstantsAssumption DEF AttemptsCounted, Counted, TypeOK, n
  <2>9. \A f \in Event, m \in Nat :
            Counted(m, f) => (m <= claims'[f] \/ claims'[f] > MaxAttempts)
    BY <2>5, <2>6, ConstantsAssumption DEF Counted, TypeOK
  <2>10. ~Durable => job'[w].row = r
    <3>1. ~Durable => job' = [job EXCEPT ![w] = [j EXCEPT !.row = r]]
      BY <2>1 DEF DbSet
    <3>2. [j EXCEPT !.row = r].row = r
      BY <2>4 DEF Job
    <3> QED
      BY <3>1, <3>2 DEF TypeOK
  <2>10a. ~Durable => event' = event
    BY <2>1 DEF DbSet
  <2>11. Durable => View(w) = event[e]
    BY DEF View
  <2>12. /\ \A v \in Worker : job[v].attempts \in Nat /\ job[v].row.attempts \in Nat
         /\ \A f \in Event : event[f].attempts \in Nat
    BY DEF TypeOK, Job, Row
  <2> HIDE DEF r, j, e
  <2>13. /\ \A f \in Event : f # e => event'[f] = event[f]
         /\ event'[e] \in {event[e], r}
         /\ \A v \in Worker : v # w => job'[v] = job[v]
         /\ job'[w].event = e /\ job'[w].attempts = n
    BY <2>1, <2>2, <2>3, <2>4, DbSetEffect DEF e
  <2>14. \A f \in Event : event'[f].attempts <= claims'[f] \/ claims'[f] > MaxAttempts
    BY <2>2, <2>3, <2>8, <2>9, <2>12, <2>13 DEF AttemptsCounted
  <2>15. \A v \in Worker : v # w =>
            /\ job'[v].pc # "idle" => (\/ job'[v].attempts <= claims'[job'[v].event]
                                       \/ claims'[job'[v].event] > MaxAttempts)
            /\ job'[v].pc \in Holding /\ ~Durable =>
                                      (\/ job'[v].row.attempts <= claims'[job'[v].event]
                                       \/ claims'[job'[v].event] > MaxAttempts)
    BY <2>9, <2>12, <2>13 DEF AttemptsCounted, RowsOutliveJobs, Holding
  <2>16. AttemptsCounted'
    BY <2>3, <2>8, <2>10, <2>13, <2>14, <2>15 DEF AttemptsCounted, Counted
  <2>17. \A f \in Event : event'[f].status = "Dead Letter" => event[f].status = "Dead Letter"
    BY <2>2, <2>3, <2>10a, <2>11, <2>13
  <2>18. \A f \in Event : claims[f] >= MaxAttempts => claims'[f] >= MaxAttempts
    BY <2>5, <2>7, ConstantsAssumption DEF TypeOK
  <2> QED
    BY <2>16, <2>17, <2>18 DEF NoPrematureDeadLetter
<1>13. ASSUME NEW w \in Worker, Ignore(w) \/ Hold(w) \/ Return(w) PROVE Goal
  <2>1. PICK s \in Done, x \in {"ignored", "held", "booked"} : Finish(w, s, x)
    BY <1>13 DEF Ignore, Hold, Return, Done
  <2>2. job[w].pc \in Holding /\ job[w].pc # "idle" /\ claims' = claims
    BY <1>13 DEF Ignore, Hold, Return, Holding
  <2>3. job[w].event \in Event /\ View(w) \in Row
    BY <2>2, RunningRow
  <2>4. \A f \in Event : f # job[w].event => event'[f] = event[f]
    BY <2>1, <2>3 DEF Finish, TypeOK
  <2>5. event'[job[w].event].attempts = View(w).attempts /\ event'[job[w].event].status = s
    BY <2>1, <2>3 DEF Finish, TypeOK, Row
  <2>6. Counted(View(w).attempts, job[w].event)
    BY <2>2, <2>3, ConstantsAssumption DEF View, AttemptsCounted
  <2>7. \A v \in Worker : job'[v] = job[v] \/ job'[v] = IdleJob
    BY <2>1 DEF Finish, TypeOK
  <2>8. s # "Dead Letter"
    BY <2>1 DEF Done
  <2>9. \A f \in Event : Counted(event'[f].attempts, f) /\
            (event'[f].status = "Dead Letter" => event[f].status = "Dead Letter")
    BY <2>3, <2>4, <2>5, <2>6, <2>8 DEF AttemptsCounted
  <2> QED
    BY <1>1, <2>2, <2>7, <2>9
<1>14. ASSUME NEW w \in Worker, Lookup(w) \/ UpdateDocument(w) \/ InsertDocument(w) PROVE Goal
  <2>1. UNCHANGED <<event, claims>>
    BY <1>14 DEF Lookup, UpdateDocument, InsertDocument
  <2>2. \A v \in Worker :
            /\ job'[v].pc # "idle" => job[v].pc # "idle"
            /\ job'[v].pc \in Holding => job[v].pc \in Holding
            /\ job'[v].event = job[v].event /\ job'[v].attempts = job[v].attempts
            /\ job'[v].row = job[v].row
    BY <1>14 DEF Lookup, UpdateDocument, InsertDocument, TypeOK, Job, Holding
  <2> QED
    BY <1>1, <2>1, <2>2 DEF AttemptsCounted
<1>15. ASSUME NEW w \in Worker, job[w].pc # "idle", Except(w) PROVE Goal
  <2> DEFINE s == IF job[w].attempts < MaxAttempts THEN "Retrying" ELSE "Dead Letter"
             e == job[w].event
  <2>1. e \in Event /\ job[w].attempts \in Nat /\ event[e] \in Row
    BY <1>15, RunningRow DEF TypeOK, Job
  <2>a. event' = event \/ event' = [event EXCEPT ![e].status = s]
    BY <1>15 DEF Except
  <2>b. s = "Dead Letter" => ~(job[w].attempts < MaxAttempts)
    OBVIOUS
  <2> HIDE DEF s
  <2>2. \A f \in Event : f # e => event'[f] = event[f]
    BY <2>1, <2>a DEF TypeOK
  <2>3. event'[e].attempts = event[e].attempts
    BY <2>1, <2>a DEF TypeOK, Row
  <2>4. event'[e].status = "Dead Letter" =>
            event[e].status = "Dead Letter" \/ ~(job[w].attempts < MaxAttempts)
    <3>1. event'[e].status \in {event[e].status, s}
      BY <2>1, <2>a DEF TypeOK, Row
    <3> QED
      BY <2>b, <3>1
  <2>5. ~(job[w].attempts < MaxAttempts) => claims[job[w].event] >= MaxAttempts
    BY <1>15, <2>1, ExhaustedIsClaimed, ConstantsAssumption DEF AttemptsCounted
  <2>6. \A v \in Worker : job'[v] = job[v] \/ job'[v] = IdleJob
    BY <1>15 DEF Except, TypeOK
  <2>7. claims' = claims
    BY <1>15 DEF Except
  <2> QED
    BY <1>1, <2>2, <2>3, <2>4, <2>5, <2>6, <2>7 DEF AttemptsCounted
<1>16. ASSUME NEW w \in Worker, UniqueViolation(w) \/ PoisonRaises(w) \/ HandlerRaises(w)
       PROVE  Goal
  BY <1>15, <1>16 DEF UniqueViolation, PoisonRaises, HandlerRaises
<1>17. ASSUME NEW w \in Worker, Stop(w) PROVE Goal
  <2>1. \A v \in Worker : job'[v] = job[v] \/ job'[v] = IdleJob
    BY <1>17 DEF Stop, TypeOK
  <2> QED
    BY <1>1, <1>17, <2>1 DEF Stop, AttemptsCounted
<1> QED
  BY <1>3, <1>5, <1>6, <1>7, <1>8, <1>9, <1>10, <1>11, <1>12, <1>13, <1>14, <1>16, <1>17
     DEF Next, Advance, Scheduler

-----------------------------------------------------------------------------
(* The theorems *)

\* The inductive invariant: types, the rows of running jobs, the attempts
\* and lookups they carry, and the two properties these strengthen.
IInv ==
    /\ TypeOK
    /\ RowsOutliveJobs
    /\ LookupsTrue
    /\ ResultIsBooked
    /\ AttemptsCounted
    /\ NoPrematureDeadLetter

LEMMA InitIInv == Init => IInv
<1> SUFFICES ASSUME Init PROVE IInv
  OBVIOUS
<1>1. TypeOK
  BY TypeInit
<1>2. \A e \in Event : event[e] = AbsentRow
  BY DEF Init
<1>3. \A w \in Worker : job[w] = IdleJob
  BY DEF Init
<1>4. IdleJob.pc = "idle" /\ ~IdleJob.seen /\ ~IdleJob.inserted /\ IdleJob.row = AbsentRow
  BY DEF IdleJob
<1>5. /\ AbsentRow.status = "Absent" /\ AbsentRow.attempts = 0 /\ AbsentRow.age = "fresh"
      /\ AbsentRow.result = "none"
  BY DEF AbsentRow
<1>6. RowsOutliveJobs
  BY <1>2, <1>3, <1>4, <1>5 DEF RowsOutliveJobs, Holding
<1>7. LookupsTrue /\ ResultIsBooked
  BY <1>2, <1>3, <1>4, <1>5 DEF LookupsTrue, ResultIsBooked
<1>8. NoPrematureDeadLetter
  BY <1>2, <1>5 DEF NoPrematureDeadLetter
<1>9. \A e \in Event : Counted(0, e)
  BY <1>1 DEF Counted, TypeOK
<1>10. AttemptsCounted
  BY <1>2, <1>3, <1>4, <1>5, <1>9 DEF AttemptsCounted, Holding
<1> QED
  BY <1>1, <1>6, <1>7, <1>8, <1>10 DEF IInv

LEMMA StutterIInv == IInv /\ UNCHANGED vars => IInv'
BY DEF vars, IInv, TypeOK, RowsOutliveJobs, LookupsTrue, ResultIsBooked, AttemptsCounted,
       NoPrematureDeadLetter, Counted, Stored, RunsOn

LEMMA Inductive == Spec => []IInv
<1>1. Init => IInv
  BY InitIInv
<1>2. IInv /\ [Next]_vars => IInv'
  <2> SUFFICES ASSUME IInv, [Next]_vars PROVE IInv'
    OBVIOUS
  <2>1. CASE Next
    BY <2>1, TypeStep, RowsStep, LookupsStep, AttemptsStep DEF IInv
  <2>2. CASE UNCHANGED vars
    BY <2>2, StutterIInv
  <2> QED
    BY <2>1, <2>2
<1> QED
  BY <1>1, <1>2, PTL DEF Spec

\* Every variable keeps its type: no counter leaves the naturals and no job,
\* row or reaper holds anything but an event.
THEOREM TypeCorrect == Spec => []TypeOK
BY Inductive, PTL DEF IInv

\* process_event and recover_stale_events give an event up only after it was
\* really claimed MaxAttempts times, whatever attempts they lost or reaped.
THEOREM NeverDeadLetteredEarly == Spec => []NoPrematureDeadLetter
BY Inductive, PTL DEF IInv

\* The result a row shows for an import is true on both hosts, whichever
\* concurrent job, kill or rollback came between lookup, insert and return.
THEOREM ResultsAreTrue == Spec => []ResultIsBooked
BY Inductive, PTL DEF IInv

\* Up to the limit no attempt is ever counted that was not claimed, in the
\* row, in a document a job loaded long ago or in its transaction.
THEOREM AttemptsAreTrue == Spec => []AttemptsCounted
BY Inductive, PTL DEF IInv

\* Retention never deletes the row of a running job.
THEOREM RowsAreKept == Spec => []RowsOutliveJobs
BY Inductive, PTL DEF IInv

LEMMA VisibleStep ==
    ASSUME ~Durable, IInv, OnlyOutcomesVisible, [Next]_vars
    PROVE  /\ OnlyOutcomesVisible'
           /\ \A e \in Event : event[e].status \in Done => event'[e].status \in Done \cup {"Absent"}
<1> DEFINE Goal ==
      /\ OnlyOutcomesVisible'
      /\ \A e \in Event : event[e].status \in Done => event'[e].status \in Done \cup {"Absent"}
<1> USE DEF IInv
<1>1. ASSUME sched'.reap = sched.reap, \A f \in Event : event'[f].status = event[f].status
      PROVE  Goal
  BY <1>1 DEF OnlyOutcomesVisible
<1>2. ASSUME NEW e \in Event, StoreEvent(e), sched' = sched PROVE Goal
  BY <1>2 DEF StoreEvent, Stored, NewRow, AbsentRow, OnlyOutcomesVisible, TypeOK, Done
<1>3. ASSUME NEW e \in Event, Deliver(e) \/ DeliverWithoutJob(e) PROVE Goal
  BY <1>2, <1>3 DEF Deliver, DeliverWithoutJob
<1>4. ASSUME NEW e \in Event, LoseJob(e) \/ \E w \in Worker : Skip(w, e) \/ Load(w, e) PROVE Goal
  BY <1>1, <1>4 DEF LoseJob, Skip, Load
<1>5. ASSUME NEW e \in Event, BecomesStale(e) \/ Expires(e) PROVE Goal
  BY <1>1, <1>5 DEF BecomesStale, Expires, TypeOK, Row
<1>6. ASSUME NEW e \in Event, Reap(e) PROVE Goal
  BY <1>6 DEF Reap, OnlyOutcomesVisible
<1>7. ASSUME NEW w \in Worker,
             ClaimStatus(w) \/ ClaimAttempts(w) \/ Lookup(w) \/ UpdateDocument(w)
                \/ InsertDocument(w) \/ UniqueViolation(w) \/ PoisonRaises(w)
                \/ HandlerRaises(w) \/ Stop(w)
      PROVE  Goal
  BY <1>1, <1>7 DEF ClaimStatus, ClaimAttempts, Lookup, UpdateDocument, InsertDocument,
                    UniqueViolation, PoisonRaises, HandlerRaises, Stop, Except, DbSet
<1>8. ASSUME NEW w \in Worker, Ignore(w) \/ Hold(w) \/ Return(w) PROVE Goal
  <2>1. PICK s \in Done, x \in {"ignored", "held", "booked"} : Finish(w, s, x)
    BY <1>8 DEF Ignore, Hold, Return, Done
  <2>2. job[w].event \in Event /\ View(w) \in Row
    BY <1>8, ViewTyped DEF Ignore, Hold, Return
  <2>3. \A f \in Event : f # job[w].event => event'[f] = event[f]
    BY <2>1, <2>2 DEF Finish, TypeOK
  <2>4. event'[job[w].event].status = s
    BY <2>1, <2>2 DEF Finish, TypeOK, Row
  <2>5. sched' = sched
    BY <1>8 DEF Ignore, Hold, Return
  <2> QED
    BY <2>1, <2>3, <2>4, <2>5 DEF OnlyOutcomesVisible
<1>9. CASE SchedList
  <2>1. Stale = {}
    BY DEF Stale, OnlyOutcomesVisible, Done
  <2> QED
    BY <1>1, <1>9, <2>1 DEF SchedList, OnlyOutcomesVisible
<1>10. CASE SchedEnqueue
  BY <1>1, <1>10 DEF SchedEnqueue, TypeOK
<1>11. CASE SchedStop
  BY <1>1, <1>11 DEF SchedStop, OnlyOutcomesVisible
<1>12. CASE Cleanup
  BY <1>12 DEF Cleanup, AbsentRow, OnlyOutcomesVisible
<1>13. CASE Enable \/ Disable
  BY <1>1, <1>13 DEF Enable, Disable
<1>14. CASE UNCHANGED vars
  BY <1>1, <1>14 DEF vars
<1> QED
  BY <1>3, <1>4, <1>5, <1>6, <1>7, <1>8, <1>9, <1>10, <1>11, <1>12, <1>13, <1>14
     DEF Next, Advance, Scheduler

\* On a transactional host no Processing, Retrying or Dead Letter status is
\* ever committed, so the reaper of process_webhook_queue never finds work.
THEOREM TransactionsHideAttempts ==
    ASSUME ~Durable
    PROVE  Spec => []OnlyOutcomesVisible
<1>1. Init => OnlyOutcomesVisible
  BY DEF Init, OnlyOutcomesVisible, AbsentRow
<1>2. IInv /\ OnlyOutcomesVisible /\ [Next]_vars => OnlyOutcomesVisible'
  BY VisibleStep
<1> QED
  BY <1>1, <1>2, Inductive, PTL DEF Spec

\* On a transactional host a Processed or Ignored event is never taken back.
THEOREM TransactionsKeepOutcomes ==
    ASSUME ~Durable
    PROVE  Spec => DoneStaysDone
<1>1. IInv /\ OnlyOutcomesVisible /\ [Next]_vars =>
        [\A e \in Event : event[e].status \in Done => event'[e].status \in Done \cup {"Absent"}]_vars
  BY VisibleStep
<1> QED
  BY <1>1, Inductive, TransactionsHideAttempts, PTL DEF Spec, DoneStaysDone

-----------------------------------------------------------------------------
(***************************************************************************)
(* On a transactional host WebhookEvents implements EventLedger, for every *)
(* set of events, resources and workers: each step either shows the other  *)
(* jobs nothing, or is one step of the ledger.                             *)
(***************************************************************************)

\* What other jobs see of the events.
ShownLedger == [e \in Event |-> Shown(e)]

\* Every settled row says how.
OutcomesShown == \A e \in Event : event[e].status \in Done => event[e].result \in Ledger!Outcome

LedgerStep == Ledger!Next \/ UNCHANGED <<ShownLedger, booked>>

LEMMA InitLedger == Init => Ledger!Init /\ OutcomesShown
<1> SUFFICES ASSUME Init PROVE Ledger!Init /\ OutcomesShown
  OBVIOUS
<1>1. \A e \in Event : event[e] = AbsentRow
  BY DEF Init
<1>2. \A e \in Event : Shown(e) = "unknown"
  BY <1>1 DEF Shown, AbsentRow
<1> QED
  BY <1>1, <1>2 DEF Init, Ledger!Init, OutcomesShown, AbsentRow, Done

\* A step that changes no status, no result of a settled row and no document
\* shows nothing.
LEMMA NothingShown ==
    ASSUME OutcomesShown, booked' = booked,
           \A f \in Event : event'[f].status = event[f].status /\ event'[f].result = event[f].result
    PROVE  LedgerStep /\ OutcomesShown'
<1>1. \A f \in Event : Shown(f)' = Shown(f)
  BY DEF Shown
<1> QED
  BY <1>1 DEF LedgerStep, ShownLedger, OutcomesShown

\* store_event takes an event in, or finds it known.
LEMMA StoreShown ==
    ASSUME IInv, OutcomesShown, NEW e \in Event, StoreEvent(e), booked' = booked
    PROVE  LedgerStep /\ OutcomesShown'
<1>1. CASE Stored(e)
  BY <1>1, NothingShown DEF StoreEvent
<1>2. CASE ~Stored(e)
  <2>1. event' = [event EXCEPT ![e] = NewRow]
    BY <1>2 DEF StoreEvent
  <2>2. \A f \in Event : f # e => event'[f] = event[f]
    BY <2>1 DEF IInv, TypeOK
  <2>3. event'[e].status = "Received"
    BY <2>1 DEF IInv, TypeOK, NewRow, AbsentRow
  <2>4. Shown(e) = "unknown" /\ Shown(e)' = "waiting"
    BY <1>2, <2>3 DEF Shown, Stored, Done
  <2>5. \A f \in Event : f # e => Shown(f)' = Shown(f)
    BY <2>2 DEF Shown
  <2>6. ShownLedger' = [ShownLedger EXCEPT ![e] = "waiting"] /\ ShownLedger[e] = "unknown"
    BY <2>4, <2>5 DEF ShownLedger
  <2>7. Ledger!TakeIn(e)
    BY <2>6 DEF Ledger!TakeIn, ShownLedger
  <2> QED
    BY <2>2, <2>3, <2>7 DEF LedgerStep, Ledger!Next, OutcomesShown, Done
<1> QED
  BY <1>1, <1>2

\* process_event returns: the outcome and the document appear together.
LEMMA FinishShown ==
    ASSUME IInv, OutcomesShown, NEW w \in Worker, job[w].pc # "idle",
           NEW s \in Done, NEW x \in {"ignored", "held", "booked"}, Finish(w, s, x),
           (x = "ignored") <=> (Subject[job[w].event] = NoResource),
           x = "booked" => job[w].inserted \/ Subject[job[w].event] \in booked,
           x # "booked" => ~job[w].inserted
    PROVE  LedgerStep /\ OutcomesShown'
<1>0. PICK e \in Event : e = job[w].event
  BY RunningRow DEF IInv
<1>1. View(w) \in Row /\ event[e].status # "Absent"
  BY <1>0, ViewTyped, RunningRow DEF IInv
<1>2. \A f \in Event : f # e => event'[f] = event[f]
  BY <1>0, <1>1 DEF Finish, IInv, TypeOK
<1>3. event'[e].status = s /\ event'[e].result = x
  BY <1>0, <1>1 DEF Finish, IInv, TypeOK, Row
<1>4. Shown(e) # "unknown" /\ Shown(e)' = x
  <2>1. s # "Absent"
    BY DEF Done
  <2>2. event[e].status \in Done => event[e].result # "unknown"
    BY <1>1 DEF OutcomesShown, Ledger!Outcome
  <2> QED
    BY <1>1, <1>3, <2>1, <2>2 DEF Shown
<1>5. \A f \in Event : f # e => Shown(f)' = Shown(f)
  BY <1>2 DEF Shown
<1>6. ShownLedger' = [ShownLedger EXCEPT ![e] = x] /\ ShownLedger[e] # "unknown"
  BY <1>1, <1>4, <1>5 DEF ShownLedger
<1>7. booked' = IF x = "booked" THEN booked \cup {Subject[e]} ELSE booked
  BY <1>0 DEF Finish
<1>8. Ledger!Settle(e, x)
  BY <1>0, <1>6, <1>7 DEF Ledger!Settle, ShownLedger
<1>9. OutcomesShown'
  BY <1>2, <1>3 DEF OutcomesShown, Ledger!Outcome
<1> QED
  BY <1>1, <1>8, <1>9 DEF LedgerStep, Ledger!Next, Ledger!Outcome

\* cleanup_old_events forgets settled events only.
LEMMA CleanupShown ==
    ASSUME IInv, OutcomesShown, Cleanup
    PROVE  LedgerStep /\ OutcomesShown'
<1> DEFINE gone == {e \in Event : event[e].status \in Done /\ event[e].age = "expired"}
<1>1. event' = [e \in Event |-> IF e \in gone THEN AbsentRow ELSE event[e]] /\ booked' = booked
  BY DEF Cleanup
<1>2. \A e \in gone : Shown(e) \in Ledger!Outcome /\ Shown(e)' = "unknown"
  BY <1>1 DEF Shown, OutcomesShown, AbsentRow, Done
<1>3. \A e \in Event \ gone : Shown(e)' = Shown(e)
  BY <1>1 DEF Shown
<1>4. ShownLedger' = [e \in Event |-> IF e \in gone THEN "unknown" ELSE ShownLedger[e]]
  BY <1>2, <1>3 DEF ShownLedger
<1>5. Ledger!Forget(gone)
  BY <1>1, <1>2, <1>4 DEF Ledger!Forget, ShownLedger
<1>6. OutcomesShown'
  BY <1>1 DEF OutcomesShown, AbsentRow, Done
<1> QED
  BY <1>5, <1>6 DEF LedgerStep, Ledger!Next

LEMMA StepShown ==
    ASSUME ~Durable, IInv, OnlyOutcomesVisible, OutcomesShown, [Next]_vars
    PROVE  LedgerStep /\ OutcomesShown'
<1> DEFINE Goal == LedgerStep /\ OutcomesShown'
<1> USE DEF IInv
<1>1. ASSUME booked' = booked,
             \A f \in Event : event'[f].status = event[f].status /\ event'[f].result = event[f].result
      PROVE  Goal
  BY <1>1, NothingShown
<1>2. ASSUME NEW e \in Event, Deliver(e) \/ DeliverWithoutJob(e) PROVE Goal
  BY <1>2, StoreShown DEF Deliver, DeliverWithoutJob
<1>3. ASSUME NEW e \in Event, LoseJob(e) \/ \E w \in Worker : Skip(w, e) \/ Load(w, e) PROVE Goal
  BY <1>1, <1>3 DEF LoseJob, Skip, Load
<1>4. ASSUME NEW e \in Event, BecomesStale(e) \/ Expires(e) PROVE Goal
  BY <1>1, <1>4 DEF BecomesStale, Expires, TypeOK, Row
<1>5. ASSUME NEW e \in Event, Reap(e) PROVE Goal
  BY <1>5 DEF Reap, OnlyOutcomesVisible
<1>6. ASSUME NEW w \in Worker,
             ClaimStatus(w) \/ ClaimAttempts(w) \/ Lookup(w) \/ UpdateDocument(w)
                \/ InsertDocument(w) \/ UniqueViolation(w) \/ PoisonRaises(w)
                \/ HandlerRaises(w) \/ Stop(w)
      PROVE  Goal
  BY <1>1, <1>6 DEF ClaimStatus, ClaimAttempts, Lookup, UpdateDocument, InsertDocument,
                    UniqueViolation, PoisonRaises, HandlerRaises, Stop, Except, DbSet
<1>7. ASSUME NEW w \in Worker, Ignore(w) \/ Hold(w) \/ Return(w) PROVE Goal
  <2>1. job[w].pc # "idle" /\ (job[w].inserted => job[w].pc = "written")
    BY <1>7 DEF Ignore, Hold, Return, LookupsTrue
  <2>2. CASE Ignore(w)
    BY <2>1, <2>2, FinishShown DEF Ignore, Done
  <2>3. CASE Hold(w)
    BY <2>1, <2>3, FinishShown DEF Hold, Done
  <2>4. CASE Return(w)
    <3>1. Subject[job[w].event] \in Resource
      BY <2>4 DEF Return, LookupsTrue
    <3>2. Subject[job[w].event] # NoResource
      BY <3>1, ConstantsAssumption
    <3>3. job[w].inserted \/ Subject[job[w].event] \in booked
      BY <2>4 DEF Return, LookupsTrue
    <3> QED
      BY <2>1, <2>4, <3>2, <3>3, FinishShown DEF Return, Done
  <2> QED
    BY <1>7, <2>2, <2>3, <2>4
<1>8. CASE SchedList \/ SchedEnqueue \/ SchedStop
  BY <1>1, <1>8 DEF SchedList, SchedEnqueue, SchedStop
<1>9. CASE Cleanup
  BY <1>9, CleanupShown
<1>10. CASE Enable \/ Disable
  BY <1>1, <1>10 DEF Enable, Disable
<1>11. CASE UNCHANGED vars
  BY <1>1, <1>11 DEF vars
<1> QED
  BY <1>2, <1>3, <1>4, <1>5, <1>6, <1>7, <1>8, <1>9, <1>10, <1>11 DEF Next, Advance, Scheduler

\* On a host that runs a job as one transaction, what other jobs see of the
\* webhook events is the ledger: an event is taken in once, and its outcome
\* and its document appear in one step, whatever jobs, kills, rollbacks,
\* redeliveries and sweeps did in between.
THEOREM TransactionsImplementLedger ==
    ASSUME ~Durable
    PROVE  Spec => ImplementsLedger
<1>1. Init => Ledger!Init /\ OutcomesShown
  BY InitLedger
<1>2. IInv /\ OnlyOutcomesVisible /\ OutcomesShown /\ [Next]_vars =>
        OutcomesShown' /\ [Ledger!Next]_<<ShownLedger, booked>>
  BY StepShown DEF LedgerStep
<1>3. Spec => []OutcomesShown
  BY <1>1, <1>2, Inductive, TransactionsHideAttempts, PTL DEF Spec
<1> QED
  BY <1>1, <1>2, <1>3, Inductive, TransactionsHideAttempts, PTL
     DEF Spec, ImplementsLedger, Ledger!Spec, ShownLedger
=============================================================================
