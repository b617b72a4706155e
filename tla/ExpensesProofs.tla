--------------------------- MODULE ExpensesProofs ---------------------------
(***************************************************************************)
(* For any expenses, connections, workers, settings and faults: what       *)
(* Airwallex is told is booked, and concurrent imports create a supplier   *)
(* once.                                                                   *)
(***************************************************************************)
EXTENDS Expenses, FiniteSetTheorems, SequenceTheorems, TLAPS

-----------------------------------------------------------------------------
(* Documents *)

LEMMA NothingType == Nothing \in Books
    BY DEF Nothing, Books, NoAlias, Alias

LEMMA PlusType ==
    ASSUME NEW b \in Books, NEW d \in Books
    PROVE  Plus(b, d) \in Books
    BY DEF Plus, Books

LEMMA IdleType == IdleJob \in Job
    BY NothingType, EmptySeq DEF IdleJob, Job, Defaults, Settings

\* What is seen with the own writes is typed as both are.
LEMMA ViewType ==
    ASSUME NEW w \in Worker, job \in [Worker -> Job]
    PROVE  View(w) \in Books
    BY PlusType DEF View, Job

\* Finding a supplier writes suppliers and an alias, nothing else.
LEMMA ByNameType ==
    ASSUME NEW w \in Worker, job \in [Worker -> Job], NEW view \in Books
    PROVE  /\ ByName(w, view).supplier \in Supplier \cup {NoSupplier}
           /\ ByName(w, view).writes \in Books
           /\ ByName(w, view).writes.bank = {}
<1> DEFINE found == CHOOSE s \in view.suppliers : TRUE
<1>1. view.suppliers # {} => found \in view.suppliers
    OBVIOUS
<1>2. view.suppliers \subseteq Worker /\ view.alias \in Alias
    BY DEF Books
<1>3. job[w].conn \in Connection \cup {NoConnection}
    BY DEF Job
<1>4. ASSUME NEW s \in Supplier \cup {NoSupplier}
      PROVE  Remembered(job[w].conn, view, s) \in Alias
    BY <1>3, <1>4 DEF Remembered, NoAlias, Alias
<1> HIDE DEF found
<1>5. CASE view.alias.conn = job[w].conn /\ view.alias.enabled
    <2>1. ByName(w, view) = [supplier |-> view.alias.supplier, writes |-> Nothing]
        BY <1>5 DEF ByName
    <2> QED
        BY <2>1, <1>2, NothingType DEF Alias, Nothing
<1>6. CASE ~(view.alias.conn = job[w].conn /\ view.alias.enabled) /\ view.suppliers # {}
    <2>1. ByName(w, view) = [supplier |-> found,
                writes |-> [Nothing EXCEPT !.alias = Remembered(job[w].conn, view, found)]]
        BY <1>6 DEF ByName, found
    <2> QED
        BY <2>1, <1>1, <1>2, <1>4, <1>6, NothingType DEF Supplier, Nothing, Books
<1>7. CASE /\ ~(view.alias.conn = job[w].conn /\ view.alias.enabled) /\ view.suppliers = {}
           /\ job[w].settings.suppliers
    <2>1. ByName(w, view) = [supplier |-> w,
                writes |-> [Nothing EXCEPT !.suppliers = {w}, !.alias = Remembered(job[w].conn, view, w)]]
        BY <1>7 DEF ByName
    <2>2. PICK a : a = Remembered(job[w].conn, view, w)
        OBVIOUS
    <2>3. a \in Alias
        BY <2>2, <1>4 DEF Supplier
    <2>4. PICK d : d = [Nothing EXCEPT !.suppliers = {w}, !.alias = a]
        OBVIOUS
    <2>5. d \in Books /\ d.bank = {}
        BY <2>3, <2>4, NothingType DEF Nothing, Books
    <2>6. ByName(w, view) = [supplier |-> w, writes |-> d]
        BY <2>1, <2>2, <2>4
    <2> QED
        BY <2>5, <2>6 DEF Supplier
<1>8. CASE /\ ~(view.alias.conn = job[w].conn /\ view.alias.enabled) /\ view.suppliers = {}
           /\ ~job[w].settings.suppliers
    <2>1. ByName(w, view) = [supplier |-> NoSupplier, writes |-> Nothing]
        BY <1>8 DEF ByName
    <2> QED
        BY <2>1, NothingType DEF Nothing
<1> QED
    BY <1>5, <1>6, <1>7, <1>8

LEMMA ResolvedType ==
    ASSUME NEW w \in Worker, job \in [Worker -> Job], NEW x, NEW view \in Books
    PROVE  /\ Resolved(w, x, view).supplier \in Supplier \cup {NoSupplier}
           /\ Resolved(w, x, view).writes \in Books
           /\ Resolved(w, x, view).writes.bank = {}
<1>1. CASE Resolved(w, x, view) = ByName(w, view)
    BY <1>1, ByNameType
<1>2. ASSUME NEW s \in Supplier \cup {NoSupplier},
             Resolved(w, x, view) = [supplier |-> s, writes |-> Nothing]
      PROVE  /\ Resolved(w, x, view).supplier \in Supplier \cup {NoSupplier}
             /\ Resolved(w, x, view).writes \in Books
             /\ Resolved(w, x, view).writes.bank = {}
    BY <1>2, NothingType DEF Nothing
<1>3. ByHand \in Supplier
    BY DEF Supplier
<1> QED
    BY <1>1, <1>2, <1>3 DEF Resolved

\* A posting is of one of the three strategies.
LEMMA PostingCases ==
    ASSUME NEW w \in Worker, job \in [Worker -> Job], NEW x
    PROVE  \/ /\ job[w].settings.strategy = "Bank Transaction Only"
              /\ Posting(w, x) = [status |-> "not_requested", writes |-> Nothing]
           \/ /\ job[w].settings.strategy # "Bank Transaction Only"
              /\ Posting(w, x) \in {Held(Nothing), [status |-> "guarded", writes |-> Nothing]}
           \/ /\ job[w].settings.strategy = "Expense Claim"
              /\ Posting(w, x) =
                    IF x \in View(w).claims THEN [status |-> "exists", writes |-> Nothing]
                    ELSE IF ~job[w].settings.complete THEN Held(Nothing)
                    ELSE Created([Nothing EXCEPT !.claims = IF job[w].dry THEN {} ELSE {x}], job[w].dry)
           \/ /\ job[w].settings.strategy = "Purchase Invoice"
              /\ Posting(w, x) =
                    LET merchant == Resolved(w, x, View(w)) IN
                    IF View(w).invoice[x] # NoSupplier THEN [status |-> "exists", writes |-> Nothing]
                    ELSE IF merchant.supplier = NoSupplier \/ ~job[w].settings.complete
                         THEN Held(merchant.writes)
                    ELSE Created([merchant.writes EXCEPT
                            !.invoice[x] = IF job[w].dry THEN NoSupplier ELSE merchant.supplier],
                            job[w].dry)
<1>1. job[w].settings.strategy \in {"Bank Transaction Only", "Purchase Invoice", "Expense Claim"}
    BY DEF Job, Settings
<1>2. CASE job[w].settings.strategy = "Bank Transaction Only"
    BY <1>2 DEF Posting
<1>3. CASE job[w].settings.strategy # "Bank Transaction Only" /\ ~Approved(w, x)
    BY <1>3 DEF Posting
<1>4. CASE job[w].settings.strategy # "Bank Transaction Only" /\ Approved(w, x) /\ ~job[w].settings.create
    BY <1>4 DEF Posting
<1>5. CASE job[w].settings.strategy = "Expense Claim" /\ Approved(w, x) /\ job[w].settings.create
    BY <1>5 DEF Posting
<1>6. CASE job[w].settings.strategy = "Purchase Invoice" /\ Approved(w, x) /\ job[w].settings.create
    BY <1>6 DEF Posting
<1> QED
    BY <1>1, <1>2, <1>3, <1>4, <1>5, <1>6

LEMMA PostingType ==
    ASSUME NEW w \in Worker, job \in [Worker -> Job], NEW x \in Expense
    PROVE  Posting(w, x).writes \in Books
<1>1. View(w) \in Books
    BY ViewType
<1>2. PICK m : m = Resolved(w, x, View(w))
    OBVIOUS
<1>3. m.supplier \in Supplier \cup {NoSupplier} /\ m.writes \in Books
    BY <1>1, <1>2, ResolvedType
<1>4. \A s \in Supplier \cup {NoSupplier} : [m.writes EXCEPT !.invoice[x] = s] \in Books
    BY <1>3 DEF Books
<1>5. \A S \in SUBSET Expense : [Nothing EXCEPT !.claims = S] \in Books
    BY NothingType DEF Books
<1>6. NoSupplier \in Supplier \cup {NoSupplier} /\ {} \in SUBSET Expense /\ {x} \in SUBSET Expense
    OBVIOUS
<1>7. \A d, dry : Held(d).writes = d /\ Created(d, dry).writes = d
    BY DEF Held, Created
<1>8. CASE Posting(w, x).writes = Nothing
    BY <1>8, NothingType
<1>9. CASE Posting(w, x).writes = m.writes
    BY <1>9, <1>3
<1>10. CASE \E S \in SUBSET Expense : Posting(w, x).writes = [Nothing EXCEPT !.claims = S]
    BY <1>10, <1>5
<1>11. CASE \E s \in Supplier \cup {NoSupplier} :
                Posting(w, x).writes = [m.writes EXCEPT !.invoice[x] = s]
    BY <1>11, <1>4
<1>12. CASE /\ job[w].settings.strategy = "Expense Claim"
            /\ Posting(w, x) =
                  IF x \in View(w).claims THEN [status |-> "exists", writes |-> Nothing]
                  ELSE IF ~job[w].settings.complete THEN Held(Nothing)
                  ELSE Created([Nothing EXCEPT !.claims = IF job[w].dry THEN {} ELSE {x}], job[w].dry)
    <2>1. PICK S \in SUBSET Expense : S = IF job[w].dry THEN {} ELSE {x}
        OBVIOUS
    <2>2. Posting(w, x) \in {[status |-> "exists", writes |-> Nothing], Held(Nothing),
                             Created([Nothing EXCEPT !.claims = S], job[w].dry)}
        BY <1>12, <2>1
    <2> QED
        BY <1>7, <1>8, <1>10, <2>2
<1>13. CASE /\ job[w].settings.strategy = "Purchase Invoice"
            /\ Posting(w, x) =
                  IF View(w).invoice[x] # NoSupplier THEN [status |-> "exists", writes |-> Nothing]
                  ELSE IF m.supplier = NoSupplier \/ ~job[w].settings.complete THEN Held(m.writes)
                  ELSE Created([m.writes EXCEPT
                          !.invoice[x] = IF job[w].dry THEN NoSupplier ELSE m.supplier], job[w].dry)
    <2>1. PICK s \in Supplier \cup {NoSupplier} : s = IF job[w].dry THEN NoSupplier ELSE m.supplier
        BY <1>3
    <2>2. Posting(w, x) \in {[status |-> "exists", writes |-> Nothing], Held(m.writes),
                             Created([m.writes EXCEPT !.invoice[x] = s], job[w].dry)}
        BY <1>13, <2>1
    <2> QED
        BY <1>7, <1>8, <1>9, <1>11, <2>2
<1>14. CASE Posting(w, x) \in {Held(Nothing), [status |-> "guarded", writes |-> Nothing],
                               [status |-> "not_requested", writes |-> Nothing]}
    BY <1>7, <1>8, <1>14
<1> QED
    BY <1>2, <1>12, <1>13, <1>14, PostingCases

LEMMA WritesType ==
    ASSUME NEW w \in Worker, job \in [Worker -> Job], NEW x \in Expense
    PROVE  Writes(w, x) \in Books
    BY PostingType, NothingType DEF Writes, Books

-----------------------------------------------------------------------------
(* Types *)

\* An expense that is being imported is one, of the job's connection.
LEMMA HeadType ==
    ASSUME TypeOK, NEW w \in Worker, job[w].todo # <<>>
    PROVE  /\ Head(job[w].todo) \in Expense
           /\ Tail(job[w].todo) \in Seq(Expense)
    BY HeadTailProperties DEF TypeOK, Job

LEMMA StartedType ==
    ASSUME TypeOK, NEW c \in Connection
    PROVE  /\ Started(c) \in Job
           /\ Started(c) = [IdleJob EXCEPT !.pc = "running", !.conn = c,
                                !.settings = settings[c], !.seen = books]
<1>1. settings[c] \in Settings /\ books \in Books
    BY DEF TypeOK
<1> QED
    BY <1>1, IdleType DEF Started, Job

LEMMA ListingType ==
    ASSUME NEW S \in SUBSET Expense, NEW t \in Listings(S)
    PROVE  t \in Seq(Expense)
    BY DEF Listings

LEMMA FinishedEffect ==
    ASSUME NEW j \in Job, j.pc = "running"
    PROVE  /\ Finished(j) \in Job /\ Finished(j).pc = "running"
           /\ Finished(j).own = j.own /\ Finished(j).told = j.told
           /\ Finished(j).seen \in {j.seen, Nothing}
           /\ Finished(j).todo # <<>> => Finished(j).conn = j.conn
    BY IdleType DEF Finished, IdleJob, Job

\* What a run, by cron or by hand, begins with.
LEMMA RunEffect ==
    ASSUME TypeOK, NEW w \in Worker, NEW c \in Connection, NEW module, NEW dry \in BOOLEAN,
           Run(w, c, module, dry)
    PROVE  /\ \E j \in Job :
                /\ job' = [job EXCEPT ![w] = j]
                /\ j.own = Nothing /\ j.told = {} /\ j.seen \in {books, Nothing}
                /\ j.todo # <<>> => j.conn = c
           /\ job[w].pc = "idle"
           /\ UNCHANGED <<stage, approved, prompt, synced, books, settings, undone, faults>>
<1>1. PICK t \in Listings(Asked(c, module)) :
            job' = [job EXCEPT ![w] = Finished([Started(c) EXCEPT
                        !.sync = TRUE, !.dry = dry, !.todo = t,
                        !.moves = IF dry THEN NoConnection ELSE c,
                        !.early = IF dry THEN {}
                                  ELSE {x \in Expense : Owner[x] = c /\ stage[x] \in {"none", "early"}}])]
    BY Zenon DEF Run
<1>2. t \in Seq(Expense)
    BY <1>1, ListingType DEF Asked
<1>3. PICK moves \in Connection \cup {NoConnection} : moves = IF dry THEN NoConnection ELSE c
    OBVIOUS
<1>4. PICK early \in SUBSET Expense :
            early = IF dry THEN {}
                    ELSE {x \in Expense : Owner[x] = c /\ stage[x] \in {"none", "early"}}
    OBVIOUS
<1>5. PICK s \in Job : s = Started(c) /\ s.pc = "running" /\ s.own = Nothing /\ s.told = {}
                        /\ s.seen = books /\ s.conn = c
    BY StartedType DEF Started, IdleJob
<1>6. PICK r : r = [s EXCEPT !.sync = TRUE, !.dry = dry, !.todo = t, !.moves = moves, !.early = early]
    OBVIOUS
<1>7. /\ r \in Job /\ r.pc = "running" /\ r.own = Nothing /\ r.told = {} /\ r.seen = books
      /\ r.conn = c
    BY <1>2, <1>5, <1>6 DEF Job
<1>8. job' = [job EXCEPT ![w] = Finished(r)]
    BY <1>1, <1>3, <1>4, <1>5, <1>6
<1>9. /\ Finished(r) \in Job /\ Finished(r).own = Nothing /\ Finished(r).told = {}
      /\ Finished(r).seen \in {books, Nothing} /\ (Finished(r).todo # <<>> => Finished(r).conn = c)
    BY <1>7, FinishedEffect
<1> QED
    BY <1>8, <1>9 DEF Run

\* Every variable keeps its type.
THEOREM TypeCorrect == Spec => []TypeOK
<1> USE ExpensesAssumption
<1>1. Init => TypeOK
    <2> SUFFICES ASSUME Init PROVE TypeOK
        OBVIOUS
    <2>1. \A alias \in Prepared : [Nothing EXCEPT !.alias = alias] \in Books
        BY NothingType DEF Books, Prepared, Alias, Supplier
    <2>2. stage \in [Expense -> Stage] /\ books \in Books
        BY <2>1, NothingType DEF Init, Stage
    <2>3. job \in [Worker -> Job] /\ settings \in [Connection -> Settings]
        BY IdleType DEF Init
    <2>4. edits \in Nat /\ faults \in Nat
        BY DEF Init
    <2>5. synced \in [Expense -> {"none", "bank", "invoice", "claim"}]
        BY DEF Init
    <2> QED
        BY <2>2, <2>3, <2>4, <2>5 DEF Init, TypeOK
<1>2. TypeOK /\ [Next]_vars => TypeOK'
    <2> SUFFICES ASSUME TypeOK, [Next]_vars PROVE TypeOK'
        OBVIOUS
    <2>1. ASSUME NEW w \in Worker, NEW c \in Connection, NEW module, NEW dry \in BOOLEAN,
                 Run(w, c, module, dry), edits' \in Nat
          PROVE  TypeOK'
        <3>1. PICK j \in Job : job' = [job EXCEPT ![w] = j]
            BY <2>1, RunEffect
        <3>2. job' \in [Worker -> Job]
            BY <3>1 DEF TypeOK
        <3>3. UNCHANGED <<stage, approved, prompt, synced, books, settings, undone, faults>>
            BY <2>1, RunEffect
        <3> QED
            BY <2>1, <3>2, <3>3 DEF TypeOK
    <2>2. ASSUME NEW w \in Worker, NEW c \in Connection, BeginSync(w, c) PROVE TypeOK'
        BY <2>1, <2>2 DEF BeginSync, TypeOK
    <2>12. ASSUME NEW w \in Worker, NEW c \in Connection, NEW module, NEW dry \in BOOLEAN,
                  BeginByHand(w, c, module, dry)
           PROVE  TypeOK'
        BY <2>1, <2>12 DEF BeginByHand, TypeOK
    <2>3. ASSUME NEW w \in Worker, NEW x \in Expense, NEW payload \in BOOLEAN,
                 BeginEvent(w, x, payload)
          PROVE  TypeOK'
        <3>1. Owner[x] \in Connection /\ <<x>> \in Seq(Expense)
            OBVIOUS
        <3>2. PICK s \in Job, l \in Seq(Expense) : s = Started(Owner[x]) /\ l = <<x>>
            BY <3>1, StartedType
        <3>3. [s EXCEPT !.payload = payload, !.todo = l] \in Job
            BY DEF Job
        <3> QED
            BY <2>3, <3>2, <3>3 DEF TypeOK, BeginEvent
    <2>4. ASSUME NEW w \in Worker, Import(w) PROVE TypeOK'
        <3>1. PICK x : x = Head(job[w].todo)
            OBVIOUS
        <3>2. x \in Expense /\ Tail(job[w].todo) \in Seq(Expense)
            BY <2>4, <3>1, HeadType DEF Import
        <3>3. Writes(w, x) \in Books
            BY <3>2, WritesType DEF TypeOK
        <3>4. job[w] \in Job
            BY DEF TypeOK
        <3>5. Plus(job[w].own, Writes(w, x)) \in Books
            BY <3>3, <3>4, PlusType DEF Job
        <3>6. PICK told : told = IF Reports(w, x) THEN job[w].told \cup {x} ELSE job[w].told
            OBVIOUS
        <3>13. PICK own : own = Plus(job[w].own, Writes(w, x))
            OBVIOUS
        <3>14. PICK todo : todo = Tail(job[w].todo)
            OBVIOUS
        <3>7. told \in SUBSET Expense /\ own \in Books /\ todo \in Seq(Expense)
            BY <3>2, <3>4, <3>5, <3>6, <3>13, <3>14 DEF Job
        <3>8. PICK j : j = [job[w] EXCEPT !.todo = todo, !.own = own, !.told = told]
            OBVIOUS
        <3>12. j \in Job
            BY <3>4, <3>7, <3>8 DEF Job
        <3>9. Finished(j) \in Job
            BY <2>4, <3>4, <3>8, <3>12, FinishedEffect DEF Import, Job
        <3>10. job' = [job EXCEPT ![w] = Finished(j)]
            BY <2>4, <3>1, <3>6, <3>8, <3>13, <3>14 DEF Import, Imported
        <3>11. Document(job[w].settings.strategy) \in {"bank", "invoice", "claim"}
            BY <3>4 DEF Job, Settings, Document
        <3>15. synced' \in [Expense -> {"none", "bank", "invoice", "claim"}]
            BY <2>4, <3>1, <3>2, <3>11 DEF TypeOK, Import
        <3>16. job' \in [Worker -> Job]
            BY <3>9, <3>10 DEF TypeOK
        <3> QED
            BY <2>4, <3>15, <3>16 DEF TypeOK, Import
    <2>5. ASSUME NEW w \in Worker, Commit(w) PROVE TypeOK'
        <3>1. stage' \in [Expense -> Stage]
            BY <2>5 DEF TypeOK, Commit, Moved, Stage
        <3> QED
            BY <2>5, <3>1, PlusType, IdleType DEF TypeOK, Commit, Job
    <2>6. ASSUME NEW w \in Worker, Rollback(w), faults' \in Nat PROVE TypeOK'
        BY <2>6, IdleType DEF TypeOK, Rollback, Job
    <2>7. ASSUME NEW w \in Worker, Collide(w) PROVE TypeOK'
        BY <2>6, <2>7 DEF TypeOK, Collide
    <2>8. ASSUME NEW w \in Worker, Fail(w) PROVE TypeOK'
        BY <2>6, <2>8 DEF TypeOK, Fail, Fault
    <2>9. ASSUME NEW x \in Expense, Create(x) \/ Age(x) \/ Approve(x) PROVE TypeOK'
        BY <2>9 DEF TypeOK, Stage, Create, Age, Approve
    <2>10. ASSUME NEW c \in Connection, EditSettings(c) PROVE TypeOK'
        BY <2>10 DEF TypeOK, EditSettings
    <2>11. CASE UNCHANGED vars
        BY <2>11 DEF TypeOK, vars
    <2> QED
        BY <2>1, <2>2, <2>3, <2>4, <2>5, <2>7, <2>8, <2>9, <2>10, <2>11, <2>12 DEF Next, Advance
<1> QED
    BY <1>1, <1>2, PTL DEF Spec
-----------------------------------------------------------------------------
(* What is reported is booked *)

\* A posting that counts as done is in what the job sees or writes.
LEMMA PostingDone ==
    ASSUME NEW w \in Worker, job \in [Worker -> Job], NEW x \in Expense, ~job[w].dry,
           Posting(w, x).status \in {"created", "exists", "not_requested"}
    PROVE  \/ job[w].settings.strategy = "Bank Transaction Only"
           \/ /\ job[w].settings.strategy = "Expense Claim"
              /\ x \in View(w).claims \cup Posting(w, x).writes.claims
           \/ /\ job[w].settings.strategy = "Purchase Invoice"
              /\ View(w).invoice[x] # NoSupplier \/ Posting(w, x).writes.invoice[x] # NoSupplier
<1>1. View(w) \in Books
    BY ViewType
<1>2. PICK m : m = Resolved(w, x, View(w))
    OBVIOUS
<1>3. m.supplier \in Supplier \cup {NoSupplier} /\ m.writes \in Books
    BY <1>1, <1>2, ResolvedType
<1>5. CASE /\ job[w].settings.strategy = "Expense Claim"
           /\ Posting(w, x) =
                 IF x \in View(w).claims THEN [status |-> "exists", writes |-> Nothing]
                 ELSE IF ~job[w].settings.complete THEN Held(Nothing)
                 ELSE Created([Nothing EXCEPT !.claims = IF job[w].dry THEN {} ELSE {x}], job[w].dry)
    <2>1. CASE x \in View(w).claims
        BY <1>5, <2>1
    <2>2. CASE x \notin View(w).claims
        <3>1. PICK d : d = [Nothing EXCEPT !.claims = {x}]
            OBVIOUS
        <3>2. d.claims = {x}
            BY <3>1 DEF Nothing
        <3>3. Posting(w, x) = Held(Nothing) \/ Posting(w, x) = Created(d, job[w].dry)
            BY <1>5, <2>2, <3>1
        <3>4. Posting(w, x).status # "held"
            OBVIOUS
        <3>5. Posting(w, x) = Created(d, job[w].dry)
            BY <3>3, <3>4 DEF Held
        <3>6. Posting(w, x).writes = d
            BY <3>5 DEF Created
        <3> QED
            BY <1>5, <3>2, <3>6
    <2> QED
        BY <2>1, <2>2
<1>6. CASE /\ job[w].settings.strategy = "Purchase Invoice"
           /\ Posting(w, x) =
                 IF View(w).invoice[x] # NoSupplier THEN [status |-> "exists", writes |-> Nothing]
                 ELSE IF m.supplier = NoSupplier \/ ~job[w].settings.complete THEN Held(m.writes)
                 ELSE Created([m.writes EXCEPT
                         !.invoice[x] = IF job[w].dry THEN NoSupplier ELSE m.supplier], job[w].dry)
    <2>1. CASE View(w).invoice[x] # NoSupplier
        BY <1>6, <2>1
    <2>2. CASE View(w).invoice[x] = NoSupplier
        <3>1. PICK d : d = [m.writes EXCEPT !.invoice[x] = m.supplier]
            OBVIOUS
        <3>2. d.invoice[x] = m.supplier
            BY <1>3, <3>1 DEF Books
        <3>3. Posting(w, x) = Held(m.writes)
                \/ (m.supplier # NoSupplier /\ Posting(w, x) = Created(d, job[w].dry))
            BY <1>6, <2>2, <3>1
        <3>4. Posting(w, x).status # "held"
            OBVIOUS
        <3>5. m.supplier # NoSupplier /\ Posting(w, x) = Created(d, job[w].dry)
            BY <3>3, <3>4 DEF Held
        <3>6. Posting(w, x).writes = d
            BY <3>5 DEF Created
        <3> QED
            BY <1>6, <3>2, <3>5, <3>6
    <2> QED
        BY <2>1, <2>2
<1>7. CASE Posting(w, x) \in {Held(Nothing), [status |-> "guarded", writes |-> Nothing]}
    <2>1. Posting(w, x).status = "held" \/ Posting(w, x).status = "guarded"
        BY <1>7 DEF Held
    <2>2. Posting(w, x).status # "held" /\ Posting(w, x).status # "guarded"
        OBVIOUS
    <2> QED
        BY <2>1, <2>2
<1> QED
    BY <1>2, <1>5, <1>6, <1>7, PostingCases

\* b holds everything that a holds.
Within(a, b) ==
    /\ a.bank \subseteq b.bank /\ a.claims \subseteq b.claims
    /\ \A x \in Expense : a.invoice[x] # NoSupplier => b.invoice[x] # NoSupplier

LEMMA PlusHolds ==
    ASSUME NEW b \in Books, NEW d \in Books
    PROVE  /\ Within(b, Plus(b, d)) /\ Within(d, Plus(b, d))
           /\ \A x \in Expense :
                /\ x \in Plus(b, d).claims => x \in b.claims \/ x \in d.claims
                /\ Plus(b, d).invoice[x] # NoSupplier =>
                        b.invoice[x] # NoSupplier \/ d.invoice[x] # NoSupplier
    BY DEF Within, Plus, Books

\* If both parts grow, or move, into another set of documents.
LEMMA PlusWithin ==
    ASSUME NEW b \in Books, NEW d \in Books, NEW e \in Books, Within(b, e), Within(d, e)
    PROVE  Within(Plus(b, d), e)
    BY DEF Within, Plus, Books

LEMMA WithinTransitive ==
    ASSUME NEW a, NEW b, NEW c, Within(a, b), Within(b, c)
    PROVE  Within(a, c)
    BY DEF Within

LEMMA VouchedWithin ==
    ASSUME NEW a, NEW b, Within(a, b), NEW x \in Expense, Vouched(x, a)
    PROVE  Vouched(x, b)
    BY DEF Within, Vouched

LEMMA NothingWithin ==
    ASSUME NEW b \in Books PROVE Within(Nothing, b)
    BY DEF Within, Nothing, Books

\* A job knows of nothing that is not booked, holds the Bank Transaction of
\* what it reported, which keeps all other jobs from reporting it, and will
\* book it as it reported it.
Reported ==
    /\ \A w \in Worker :
        /\ job[w].pc = "idle" => job[w].told = {}
        /\ Within(job[w].seen, books)
        /\ \A x \in job[w].told :
            x \in job[w].own.bank /\ Vouched(x, Plus(books, job[w].own))
    /\ \A v, w \in Worker : v # w => job[v].own.bank \cap job[w].own.bank = {}

BookedInv == TypeOK /\ Reported /\ SyncedIsBooked

\* What an import reports, the job's commit books.
LEMMA ReportBooks ==
    ASSUME TypeOK, NEW w \in Worker, NEW x \in Expense, Within(job[w].seen, books), Reports(w, x),
           NEW e \in Books, Within(books, e), Within(job[w].own, e), Within(Writes(w, x), e)
    PROVE  /\ x \in Writes(w, x).bank
           /\ Document(job[w].settings.strategy) = "invoice" => e.invoice[x] # NoSupplier
           /\ Document(job[w].settings.strategy) = "claim" => x \in e.claims
<1>1. job \in [Worker -> Job] /\ books \in Books
    BY DEF TypeOK
<1>2. job[w].seen \in Books /\ job[w].own \in Books
    BY <1>1 DEF Job
<1>3. PICK p : p = Posting(w, x).writes
    OBVIOUS
<1>4. p \in Books
    BY <1>1, <1>3, PostingType
<1>5. Writes(w, x) = [p EXCEPT !.bank = {x}]
    BY <1>3 DEF Reports, Writes
<1>6. /\ Writes(w, x).bank = {x} /\ Writes(w, x).claims = p.claims
      /\ Writes(w, x).invoice = p.invoice
    BY <1>4, <1>5 DEF Books
<1>7. Within(View(w), e)
    BY <1>1, <1>2, WithinTransitive, PlusWithin DEF View
<1>8. /\ \/ job[w].settings.strategy = "Bank Transaction Only"
         \/ /\ job[w].settings.strategy = "Expense Claim"
            /\ x \in View(w).claims \cup p.claims
         \/ /\ job[w].settings.strategy = "Purchase Invoice"
            /\ View(w).invoice[x] # NoSupplier \/ p.invoice[x] # NoSupplier
    BY <1>1, <1>3, PostingDone DEF Reports
<1>9. Document("Bank Transaction Only") = "bank" /\ Document("Purchase Invoice") = "invoice"
        /\ Document("Expense Claim") = "claim"
    BY DEF Document
<1> QED
    BY <1>6, <1>7, <1>8, <1>9 DEF Within

LEMMA ImportEffect ==
    ASSUME TypeOK, NEW w \in Worker, Import(w)
    PROVE  \E x \in Expense : \E own \in Books :
            /\ own = Plus(job[w].own, Writes(w, x))
            /\ \A v \in Worker : ~Blocks(v, w, x)
            /\ job'[w].pc = "running" /\ job'[w].own = own
            /\ job'[w].seen \in {job[w].seen, Nothing}
            /\ job'[w].told = IF Reports(w, x) THEN job[w].told \cup {x} ELSE job[w].told
            /\ \A v \in Worker \ {w} : job'[v] = job[v]
            /\ synced' = IF Reports(w, x)
                         THEN [synced EXCEPT ![x] = Document(job[w].settings.strategy)]
                         ELSE synced
            /\ UNCHANGED <<books, undone>>
<1>1. PICK x : x = Head(job[w].todo)
    OBVIOUS
<1>2. x \in Expense
    BY <1>1, HeadType DEF Import
<1>3. job[w] \in Job /\ job \in [Worker -> Job]
    BY DEF TypeOK
<1>4. PICK own : own = Plus(job[w].own, Writes(w, x))
    OBVIOUS
<1>5. own \in Books
    BY <1>2, <1>3, <1>4, WritesType, PlusType DEF Job
<1>6. PICK told : told = IF Reports(w, x) THEN job[w].told \cup {x} ELSE job[w].told
    OBVIOUS
<1>7. PICK todo : todo = Tail(job[w].todo)
    OBVIOUS
<1>8. PICK j : j = [job[w] EXCEPT !.todo = todo, !.own = own, !.told = told]
    OBVIOUS
<1>9. job' = [job EXCEPT ![w] = Finished(j)]
    BY <1>1, <1>4, <1>6, <1>7, <1>8 DEF Import, Imported
<1>10. j.pc = "running" /\ j.own = own /\ j.told = told /\ j.seen = job[w].seen
    BY <1>1, <1>3, <1>8 DEF Import, Job
<1>11. /\ Finished(j).pc = "running" /\ Finished(j).own = own /\ Finished(j).told = told
       /\ Finished(j).seen \in {job[w].seen, Nothing}
    BY <1>10 DEF Finished, IdleJob
<1> QED
    BY <1>1, <1>2, <1>3, <1>4, <1>5, <1>6, <1>9, <1>11 DEF Import

\* An import keeps the books' promise.
LEMMA ImportReports ==
    ASSUME BookedInv, TypeOK', NEW w \in Worker, Import(w)
    PROVE  (Reported /\ SyncedIsBooked)'
<1>1. TypeOK /\ Reported /\ SyncedIsBooked
    BY DEF BookedInv
<1>2. PICK x \in Expense : \E own \in Books :
            /\ own = Plus(job[w].own, Writes(w, x))
            /\ \A v \in Worker : ~Blocks(v, w, x)
            /\ job'[w].pc = "running" /\ job'[w].own = own
            /\ job'[w].seen \in {job[w].seen, Nothing}
            /\ job'[w].told = IF Reports(w, x) THEN job[w].told \cup {x} ELSE job[w].told
            /\ \A v \in Worker \ {w} : job'[v] = job[v]
            /\ synced' = IF Reports(w, x)
                         THEN [synced EXCEPT ![x] = Document(job[w].settings.strategy)]
                         ELSE synced
            /\ UNCHANGED <<books, undone>>
    BY <1>1, ImportEffect
<1>3. PICK own \in Books :
            /\ own = Plus(job[w].own, Writes(w, x))
            /\ \A v \in Worker : ~Blocks(v, w, x)
            /\ job'[w].pc = "running" /\ job'[w].own = own
            /\ job'[w].seen \in {job[w].seen, Nothing}
            /\ job'[w].told = IF Reports(w, x) THEN job[w].told \cup {x} ELSE job[w].told
            /\ \A v \in Worker \ {w} : job'[v] = job[v]
            /\ synced' = IF Reports(w, x)
                         THEN [synced EXCEPT ![x] = Document(job[w].settings.strategy)]
                         ELSE synced
            /\ UNCHANGED <<books, undone>>
    BY <1>2
<1>4. PICK d : d = Writes(w, x)
    OBVIOUS
<1>5. /\ books \in Books /\ d \in Books /\ job[w].own \in Books /\ Nothing \in Books
      /\ \A v \in Worker : job[v].own \in Books
      /\ synced \in [Expense -> {"none", "bank", "invoice", "claim"}]
    BY <1>1, <1>4, WritesType, NothingType DEF TypeOK, Job
<1>6. Within(job[w].own, own) /\ Within(d, own)
    BY <1>3, <1>4, <1>5, PlusHolds
<1>7. own.bank = job[w].own.bank \cup d.bank
    BY <1>3, <1>4, <1>5 DEF Plus
<1>8. \A v \in Worker \ {w} : job[v].own.bank \cap d.bank = {}
    BY <1>3, <1>4 DEF Blocks, Clash
<1>9. PICK e \in Books : e = Plus(books, own)
    BY <1>5, PlusType
<1>10. Within(books, e) /\ Within(own, e) /\ Within(job[w].own, e) /\ Within(d, e)
    BY <1>5, <1>6, <1>9, PlusHolds, WithinTransitive
<1>11. Within(Plus(books, job[w].own), e)
    BY <1>5, <1>10, PlusWithin
<1>12. Within(job[w].seen, books) /\ Within(Nothing, books)
    BY <1>1, <1>5, NothingWithin DEF Reported
<1>13. Reports(w, x) =>
            /\ x \in d.bank
            /\ Document(job[w].settings.strategy) = "invoice" => e.invoice[x] # NoSupplier
            /\ Document(job[w].settings.strategy) = "claim" => x \in e.claims
    BY <1>1, <1>4, <1>10, <1>12, ReportBooks
<1>14. \A y \in Expense : y # x \/ ~Reports(w, x) => synced'[y] = synced[y]
    BY <1>3, <1>5
<1>15. Reports(w, x) => synced'[x] = Document(job[w].settings.strategy)
    BY <1>3, <1>5
<1>16. ASSUME NEW y \in job'[w].told
       PROVE  y \in own.bank /\ Vouched(y, e)'
    <2>1. CASE y = x /\ Reports(w, x)
        <3>1. x \in e.bank
            BY <1>6, <1>10, <1>13, <2>1 DEF Within
        <3> QED
            BY <2>1, <3>1, <1>7, <1>13, <1>15 DEF Vouched
    <2>2. CASE ~(y = x /\ Reports(w, x))
        <3>1. y \in job[w].told
            BY <2>2, <1>3
        <3>2. y \in Expense
            BY <3>1, <1>1 DEF TypeOK, Job
        <3>3. y \in job[w].own.bank /\ Vouched(y, Plus(books, job[w].own))
            BY <3>1, <1>1 DEF Reported
        <3>4. Vouched(y, e)
            BY <3>2, <3>3, <1>11, VouchedWithin
        <3>5. synced'[y] = synced[y]
            BY <2>2, <3>2, <1>14
        <3> QED
            BY <3>3, <3>4, <3>5, <1>7 DEF Vouched
    <2> QED
        BY <2>1, <2>2
<1>17. ASSUME NEW v \in Worker \ {w}, NEW y \in job'[v].told
       PROVE  y \in job'[v].own.bank /\ Vouched(y, Plus(books, job[v].own))'
    <2>1. job'[v] = job[v]
        BY <1>3
    <2>2. y \in Expense /\ y \in job[v].own.bank /\ Vouched(y, Plus(books, job[v].own))
        BY <2>1, <1>1 DEF Reported, TypeOK, Job
    <2>3. synced'[y] = synced[y]
        BY <2>2, <1>8, <1>13, <1>14
    <2> QED
        BY <2>1, <2>2, <2>3, <1>3 DEF Vouched
<1>18. Reported'
    <2>1. \A v \in Worker : job'[v].pc = "idle" => job'[v].told = {}
        BY <1>1, <1>3 DEF Reported
    <2>2. \A v \in Worker : Within(job'[v].seen, books')
        BY <1>1, <1>3, <1>12 DEF Reported
    <2>3. \A v \in Worker : \A y \in job'[v].told :
                y \in job'[v].own.bank /\ Vouched(y, Plus(books, job[v].own))'
        <3>1. Plus(books, job[w].own)' = e
            BY <1>3, <1>9
        <3>2. \A y \in job'[w].told :
                    y \in job'[w].own.bank /\ Vouched(y, Plus(books, job[w].own))'
            BY <3>1, <1>3, <1>16 DEF Vouched
        <3> QED
            BY <3>2, <1>17
    <2>4. \A u, v \in Worker : u # v => job'[u].own.bank \cap job'[v].own.bank = {}
        BY <1>1, <1>3, <1>7, <1>8 DEF Reported
    <2> QED
        BY <2>1, <2>2, <2>3, <2>4 DEF Reported, Within
<1>19. SyncedIsBooked'
    <2> SUFFICES ASSUME NEW y \in Expense, synced'[y] # "none"
                 PROVE  Vouched(y, books)' \/ y \in undone' \/ \E v \in Worker : y \in job'[v].told
        BY DEF SyncedIsBooked
    <2>1. CASE y = x /\ Reports(w, x)
        BY <2>1, <1>3
    <2>2. CASE ~(y = x /\ Reports(w, x))
        <3>1. synced'[y] = synced[y]
            BY <2>2, <1>14
        <3>2. Vouched(y, books) \/ y \in undone \/ \E v \in Worker : y \in job[v].told
            BY <3>1, <1>1 DEF SyncedIsBooked
        <3>3. \A v \in Worker : job[v].told \subseteq job'[v].told
            BY <1>3
        <3> QED
            BY <3>1, <3>2, <3>3, <1>3 DEF Vouched
    <2> QED
        BY <2>1, <2>2
<1> QED
    BY <1>18, <1>19

\* A job that starts knows the books; one that is rolled back leaves its
\* reports behind.
LEMMA FreshJobReports ==
    ASSUME BookedInv, NEW w \in Worker, NEW j, job' = [job EXCEPT ![w] = j],
           j.own = Nothing, j.told = {}, j.seen \in {books, Nothing},
           UNCHANGED <<synced, books>>, undone \subseteq undone', job[w].told \subseteq undone'
    PROVE  (Reported /\ SyncedIsBooked)'
<1>1. TypeOK /\ Reported /\ SyncedIsBooked
    BY DEF BookedInv
<1>2. job'[w] = j /\ \A v \in Worker \ {w} : job'[v] = job[v]
    BY <1>1 DEF TypeOK
<1>3. Within(Nothing, books) /\ Within(books, books)
    BY <1>1, NothingWithin DEF TypeOK, Within
<1>4. Reported'
    <2>1. \A v \in Worker : job'[v].pc = "idle" => job'[v].told = {}
        BY <1>1, <1>2 DEF Reported
    <2>2. \A v \in Worker : Within(job'[v].seen, books)
        BY <1>1, <1>2, <1>3 DEF Reported
    <2>3. \A v \in Worker : \A y \in job'[v].told :
                y \in job'[v].own.bank /\ Vouched(y, Plus(books, job[v].own))'
        BY <1>1, <1>2 DEF Reported, Vouched
    <2>4. \A u, v \in Worker : u # v => job'[u].own.bank \cap job'[v].own.bank = {}
        BY <1>1, <1>2 DEF Reported, Nothing
    <2> QED
        BY <2>1, <2>2, <2>3, <2>4 DEF Reported, Within
<1>5. SyncedIsBooked'
    BY <1>1, <1>2 DEF SyncedIsBooked, Vouched
<1> QED
    BY <1>4, <1>5

LEMMA CommitReports ==
    ASSUME BookedInv, NEW w \in Worker, Commit(w)
    PROVE  (Reported /\ SyncedIsBooked)'
<1>1. TypeOK /\ Reported /\ SyncedIsBooked
    BY DEF BookedInv
<1>2. books \in Books /\ \A v \in Worker : job[v].own \in Books /\ job[v].told \subseteq Expense
    BY <1>1 DEF TypeOK, Job
<1>3. PICK e \in Books : e = Plus(books, job[w].own)
    BY <1>2, PlusType
<1>4. books' = e /\ UNCHANGED <<synced, undone>>
    BY <1>3 DEF Commit
<1>5. job'[w] = IdleJob /\ \A v \in Worker \ {w} : job'[v] = job[v]
    BY <1>1 DEF Commit, TypeOK
<1>6. Within(books, e) /\ Within(Nothing, e)
    BY <1>2, <1>3, PlusHolds, NothingWithin
<1>7. Reported'
    <2>1. \A v \in Worker : job'[v].pc = "idle" => job'[v].told = {}
        BY <1>1, <1>5 DEF Reported, IdleJob
    <2>2. \A v \in Worker : Within(job'[v].seen, e)
        BY <1>1, <1>5, <1>6, WithinTransitive DEF Reported, IdleJob
    <2>3. ASSUME NEW v \in Worker, NEW y \in job'[v].told
          PROVE  y \in job'[v].own.bank /\ Vouched(y, Plus(books, job[v].own))'
        <3>1. v # w /\ job'[v] = job[v]
            BY <2>3, <1>5 DEF IdleJob
        <3>2. y \in Expense /\ y \in job[v].own.bank /\ Vouched(y, Plus(books, job[v].own))
            BY <3>1, <2>3, <1>1, <1>2 DEF Reported
        <3>3. PICK f \in Books : f = Plus(e, job[v].own)
            BY <1>2, PlusType
        <3>4. Within(e, f) /\ Within(job[v].own, f)
            BY <3>3, <1>2, PlusHolds
        <3>5. Within(Plus(books, job[v].own), f)
            BY <3>4, <1>2, <1>6, PlusWithin, WithinTransitive
        <3>6. Vouched(y, f)
            BY <3>2, <3>5, VouchedWithin
        <3> QED
            BY <3>1, <3>2, <3>3, <3>6, <1>4 DEF Vouched
    <2>4. \A u, v \in Worker : u # v => job'[u].own.bank \cap job'[v].own.bank = {}
        BY <1>1, <1>5 DEF Reported, IdleJob, Nothing
    <2> QED
        BY <2>1, <2>2, <2>3, <2>4, <1>4 DEF Reported, Within
<1>8. SyncedIsBooked'
    <2> SUFFICES ASSUME NEW y \in Expense, synced'[y] # "none"
                 PROVE  Vouched(y, books)' \/ y \in undone' \/ \E v \in Worker : y \in job'[v].told
        BY DEF SyncedIsBooked
    <2>1. Vouched(y, books) \/ y \in undone \/ \E v \in Worker : y \in job[v].told
        BY <1>1, <1>4 DEF SyncedIsBooked
    <2>2. Vouched(y, books) => Vouched(y, e)
        BY <1>6, VouchedWithin
    <2>3. y \in job[w].told => Vouched(y, e)
        BY <1>1, <1>3 DEF Reported
    <2>4. Vouched(y, e) => Vouched(y, books)'
        BY <1>4 DEF Vouched
    <2> QED
        BY <2>1, <2>2, <2>3, <2>4, <1>4, <1>5
<1> QED
    BY <1>7, <1>8

\* Airwallex is told SYNCED only for expenses whose document is booked or
\* will be, the reports of rolled back jobs apart: in any number of
\* connections, jobs and expenses.
THEOREM SyncedBooked == Spec => []SyncedIsBooked
<1> USE ExpensesAssumption
<1>1. Init /\ TypeOK => BookedInv
    <2> SUFFICES ASSUME Init, TypeOK PROVE BookedInv
        OBVIOUS
    <2>1. \A v \in Worker : job[v] = IdleJob
        BY DEF Init
    <2>2. Reported
        <3>1. \A v \in Worker : job[v].told = {} /\ job[v].seen = Nothing /\ job[v].own.bank = {}
            <4>1. IdleJob.told = {} /\ IdleJob.seen = Nothing /\ IdleJob.own = Nothing
                BY DEF IdleJob
            <4>2. Nothing.bank = {}
                BY DEF Nothing
            <4> QED
                BY <2>1, <4>1, <4>2
        <3>2. Within(Nothing, books)
            BY NothingWithin DEF TypeOK
        <3> QED
            BY <3>1, <3>2 DEF Reported
    <2> QED
        BY <2>2 DEF BookedInv, SyncedIsBooked, Init
<1>2. BookedInv /\ TypeOK' /\ [Next]_vars => BookedInv'
    <2> SUFFICES ASSUME BookedInv, TypeOK', [Next]_vars PROVE (Reported /\ SyncedIsBooked)'
        BY DEF BookedInv
    <2>1. TypeOK /\ Reported /\ SyncedIsBooked
        BY DEF BookedInv
    <2>2. ASSUME NEW c \in Connection
          PROVE  Started(c).own = Nothing /\ Started(c).told = {} /\ Started(c).seen = books
        BY DEF Started, IdleJob
    <2>3. ASSUME NEW w \in Worker, NEW j, job[w].pc = "idle", job' = [job EXCEPT ![w] = j],
                 j.own = Nothing, j.told = {}, j.seen \in {books, Nothing},
                 UNCHANGED <<synced, books, undone>>
          PROVE  (Reported /\ SyncedIsBooked)'
        <3>1. job[w].told = {}
            BY <2>1, <2>3 DEF Reported
        <3> QED
            BY <3>1, <2>3, FreshJobReports
    <2>4. ASSUME NEW w \in Worker, NEW c \in Connection, NEW module, NEW dry \in BOOLEAN,
                 Run(w, c, module, dry)
          PROVE  (Reported /\ SyncedIsBooked)'
        BY <2>1, <2>3, <2>4, RunEffect
    <2>5. ASSUME NEW w \in Worker, NEW c \in Connection,
                 \/ BeginSync(w, c)
                 \/ \E module \in {"all", "expenses", "other"}, dry \in BOOLEAN :
                        BeginByHand(w, c, module, dry)
          PROVE  (Reported /\ SyncedIsBooked)'
        <3>1. CASE BeginSync(w, c)
            BY <2>4, <3>1 DEF BeginSync
        <3>2. ASSUME NEW module, NEW dry \in BOOLEAN, BeginByHand(w, c, module, dry)
              PROVE  (Reported /\ SyncedIsBooked)'
            BY <2>4, <3>2 DEF BeginByHand
        <3> QED
            BY <2>5, <3>1, <3>2
    <2>6. ASSUME NEW w \in Worker, NEW x \in Expense, NEW payload \in BOOLEAN,
                 BeginEvent(w, x, payload)
          PROVE  (Reported /\ SyncedIsBooked)'
        <3>1. PICK j : j = [Started(Owner[x]) EXCEPT !.payload = payload, !.todo = <<x>>]
            OBVIOUS
        <3>2. j.own = Nothing /\ j.told = {} /\ j.seen = books
            BY <3>1 DEF Started, IdleJob
        <3>3. job' = [job EXCEPT ![w] = j]
            BY <2>6, <3>1, Zenon DEF BeginEvent
        <3>4. job[w].pc = "idle" /\ UNCHANGED <<synced, books, undone>>
            BY <2>6 DEF BeginEvent
        <3> QED
            BY <2>3, <3>2, <3>3, <3>4
    <2>7. ASSUME NEW w \in Worker, Rollback(w) PROVE (Reported /\ SyncedIsBooked)'
        <3>1. IdleJob.own = Nothing /\ IdleJob.told = {} /\ IdleJob.seen = Nothing
            BY DEF IdleJob
        <3> QED
            BY <2>7, <3>1, FreshJobReports DEF Rollback
    <2>8. CASE UNCHANGED <<synced, books, job, undone>>
        BY <2>1, <2>8 DEF Reported, SyncedIsBooked, Vouched, Within
    <2>9. ASSUME NEW w \in Worker, Advance(w) \/ Fail(w) PROVE (Reported /\ SyncedIsBooked)'
        BY <2>7, <2>9, ImportReports, CommitReports DEF Advance, Collide, Fail
    <2> QED
        BY <2>5, <2>6, <2>8, <2>9 DEF Next, Create, Age, Approve, EditSettings, vars
<1>3. BookedInv => SyncedIsBooked
    BY DEF BookedInv
<1> QED
    BY <1>1, <1>2, <1>3, TypeCorrect, PTL DEF Spec

-----------------------------------------------------------------------------
(* One supplier *)

\* d creates at most the supplier of w, with an alias or beside a disabled one.
Guarded(w, d, view) ==
    /\ d.suppliers \subseteq {w}
    /\ d.suppliers # {} =>
            d.alias # NoAlias \/ (view.alias.conn = job[w].conn /\ ~view.alias.enabled)

LEMMA NothingGuarded ==
    ASSUME NEW w, NEW view
    PROVE  Guarded(w, Nothing, view)
    BY DEF Guarded, Nothing

LEMMA ByNameGuarded ==
    ASSUME NEW w \in Worker, NEW view, job[w].conn # NoConnection
    PROVE  Guarded(w, ByName(w, view).writes, view)
<1> DEFINE c == job[w].conn
           found == CHOOSE s \in view.suppliers : TRUE
<1>1. CASE view.alias.conn = c /\ view.alias.enabled
    BY <1>1, NothingGuarded DEF ByName
<1>2. CASE ~(view.alias.conn = c /\ view.alias.enabled) /\ view.suppliers # {}
    <2>1. ByName(w, view).writes = [Nothing EXCEPT !.alias = Remembered(c, view, found)]
        BY <1>2 DEF ByName
    <2>2. ByName(w, view).writes.suppliers = {}
        BY <2>1 DEF Nothing
    <2> QED
        BY <2>2 DEF Guarded
<1>3. CASE /\ ~(view.alias.conn = c /\ view.alias.enabled) /\ view.suppliers = {}
           /\ job[w].settings.suppliers
    <2>1. PICK a : a = Remembered(c, view, w)
        OBVIOUS
    <2>2. ByName(w, view).writes = [Nothing EXCEPT !.suppliers = {w}, !.alias = a]
        BY <1>3, <2>1 DEF ByName
    <2>3. ByName(w, view).writes.suppliers = {w} /\ ByName(w, view).writes.alias = a
        BY <2>2 DEF Nothing
    <2>4. view.alias.conn # c => a # NoAlias
        BY <2>1 DEF Remembered, NoAlias
    <2> QED
        BY <1>3, <2>3, <2>4 DEF Guarded
<1>4. CASE /\ ~(view.alias.conn = c /\ view.alias.enabled) /\ view.suppliers = {}
           /\ ~job[w].settings.suppliers
    BY <1>4, NothingGuarded DEF ByName
<1> QED
    BY <1>1, <1>2, <1>3, <1>4

LEMMA ResolvedGuarded ==
    ASSUME NEW w \in Worker, NEW x, NEW view, job[w].conn # NoConnection
    PROVE  Guarded(w, Resolved(w, x, view).writes, view)
    BY ByNameGuarded, NothingGuarded DEF Resolved

\* What an import writes of suppliers and aliases is what finding the
\* supplier wrote.
LEMMA WritesGuarded ==
    ASSUME NEW w \in Worker, job \in [Worker -> Job], NEW x \in Expense,
           job[w].conn # NoConnection
    PROVE  Guarded(w, Writes(w, x), View(w))
<1>1. PICK m : m = Resolved(w, x, View(w))
    OBVIOUS
<1>2. m.writes \in Books /\ Guarded(w, m.writes, View(w))
    BY <1>1, ViewType, ResolvedType, ResolvedGuarded
<1>3. PICK p : p = Posting(w, x).writes
    OBVIOUS
<1>4. p \in Books
    BY <1>3, PostingType
<1> DEFINE Same(d, e) == d.suppliers = e.suppliers /\ d.alias = e.alias
<1>5. \A S : Same([Nothing EXCEPT !.claims = S], Nothing)
    BY DEF Nothing
<1>6. \A s : Same([m.writes EXCEPT !.invoice[x] = s], m.writes)
    BY <1>2 DEF Books
<1>7. \A d, dry : Held(d).writes = d /\ Created(d, dry).writes = d
    BY DEF Held, Created
<1>8. Same(p, Nothing) \/ Same(p, m.writes)
    <2>1. CASE /\ job[w].settings.strategy = "Expense Claim"
               /\ Posting(w, x) =
                     IF x \in View(w).claims THEN [status |-> "exists", writes |-> Nothing]
                     ELSE IF ~job[w].settings.complete THEN Held(Nothing)
                     ELSE Created([Nothing EXCEPT !.claims = IF job[w].dry THEN {} ELSE {x}], job[w].dry)
        <3>1. PICK d : d = [Nothing EXCEPT !.claims = IF job[w].dry THEN {} ELSE {x}]
            OBVIOUS
        <3>2. Posting(w, x) \in {[status |-> "exists", writes |-> Nothing], Held(Nothing),
                                 Created(d, job[w].dry)}
            BY <2>1, <3>1
        <3>3. p = Nothing \/ p = d
            BY <1>3, <1>7, <3>2
        <3> QED
            BY <1>5, <3>1, <3>3
    <2>2. CASE /\ job[w].settings.strategy = "Purchase Invoice"
               /\ Posting(w, x) =
                     IF View(w).invoice[x] # NoSupplier THEN [status |-> "exists", writes |-> Nothing]
                     ELSE IF m.supplier = NoSupplier \/ ~job[w].settings.complete THEN Held(m.writes)
                     ELSE Created([m.writes EXCEPT
                             !.invoice[x] = IF job[w].dry THEN NoSupplier ELSE m.supplier], job[w].dry)
        <3>1. PICK d : d = [m.writes EXCEPT
                             !.invoice[x] = IF job[w].dry THEN NoSupplier ELSE m.supplier]
            OBVIOUS
        <3>2. Posting(w, x) \in {[status |-> "exists", writes |-> Nothing], Held(m.writes),
                                 Created(d, job[w].dry)}
            BY <2>2, <3>1
        <3>3. p = Nothing \/ p = m.writes \/ p = d
            BY <1>3, <1>7, <3>2
        <3> QED
            BY <1>6, <3>1, <3>3
    <2>3. CASE Posting(w, x) \in {Held(Nothing), [status |-> "guarded", writes |-> Nothing],
                                  [status |-> "not_requested", writes |-> Nothing]}
        BY <1>3, <1>7, <2>3
    <2> QED
        BY <1>1, <2>1, <2>2, <2>3, PostingCases
<1>9. Guarded(w, p, View(w))
    BY <1>2, <1>8, NothingGuarded DEF Guarded
<1>10. Writes(w, x) = Nothing
            \/ Writes(w, x) = [p EXCEPT !.bank = IF job[w].dry THEN {} ELSE {x}]
    BY <1>3 DEF Writes
<1>11. Writes(w, x) = Nothing \/ Same(Writes(w, x), p)
    BY <1>4, <1>10 DEF Books
<1> QED
    BY <1>9, <1>11, NothingGuarded DEF Guarded

\* One transaction at a time holds the alias, which is never replaced;
\* whoever creates a supplier holds it or sees that it is disabled.
AliasKept ==
    /\ \A w \in Worker :
        /\ job[w].todo # <<>> => job[w].conn # NoConnection
        /\ job[w].own.alias # NoAlias =>
                /\ books.alias = NoAlias
                /\ \A v \in Worker \ {w} : job[v].own.alias = NoAlias
        /\ job[w].own.suppliers \subseteq {w}
        /\ job[w].own.suppliers # {} =>
                job[w].own.alias # NoAlias \/ (books.alias # NoAlias /\ ~books.alias.enabled)
        /\ job[w].seen.alias # NoAlias => books.alias = job[w].seen.alias
    /\ books.suppliers # {} => books.alias # NoAlias

LEMMA ImportKeepsAlias ==
    ASSUME TypeOK, AliasKept, NEW w \in Worker, Import(w)
    PROVE  AliasKept'
<1>1. PICK x : x = Head(job[w].todo)
    OBVIOUS
<1>2. x \in Expense /\ job \in [Worker -> Job] /\ job[w] \in Job
    BY <1>1, HeadType DEF Import, TypeOK
<1>3. PICK d : d = Writes(w, x)
    OBVIOUS
<1>4. d \in Books /\ job[w].own \in Books /\ job[w].seen \in Books
    BY <1>2, <1>3, WritesType DEF Job
<1>5. job[w].conn # NoConnection
    BY DEF Import, AliasKept
<1>6. Guarded(w, d, View(w))
    BY <1>2, <1>3, <1>5, WritesGuarded
<1>7. PICK own : own = Plus(job[w].own, d)
    OBVIOUS
<1>8. /\ own.suppliers = job[w].own.suppliers \cup d.suppliers
      /\ own.alias = IF d.alias = NoAlias THEN job[w].own.alias ELSE d.alias
    BY <1>4, <1>7 DEF Plus
<1>9. View(w).alias = IF job[w].own.alias = NoAlias THEN job[w].seen.alias ELSE job[w].own.alias
    BY <1>4 DEF View, Plus
<1>10. d.alias # NoAlias => books.alias = NoAlias
    <2>1. PICK n : n = [d EXCEPT !.bank = d.bank \ View(w).bank]
        OBVIOUS
    <2>2. n.alias = d.alias
        BY <1>4, <2>1 DEF Books
    <2>3. ~Clash(books, n)
        BY <1>1, <1>3, <2>1 DEF Import, Collides
    <2> QED
        BY <2>2, <2>3 DEF Clash
<1>11. d.alias # NoAlias => \A v \in Worker \ {w} : job[v].own.alias = NoAlias
    BY <1>1, <1>3 DEF Import, Blocks, Clash
<1>12. PICK j : j = Imported(w, x)
    OBVIOUS
<1>13. job'[w] = j /\ books' = books /\ \A v \in Worker \ {w} : job'[v] = job[v]
    BY <1>1, <1>2, <1>12 DEF Import
<1>14. /\ j.own = own /\ j.seen \in {job[w].seen, Nothing}
       /\ j.todo # <<>> => j.conn = job[w].conn
    <2>1. PICK told : told = IF Reports(w, x) THEN job[w].told \cup {x} ELSE job[w].told
        OBVIOUS
    <2>2. PICK todo : todo = Tail(job[w].todo)
        OBVIOUS
    <2>3. PICK i : i = [job[w] EXCEPT !.todo = todo, !.own = own, !.told = told]
        OBVIOUS
    <2>4. i.own = own /\ i.told = told /\ i.seen = job[w].seen /\ i.conn = job[w].conn
        BY <1>2, <2>3 DEF Job
    <2>5. j = Finished(i)
        BY <1>3, <1>7, <1>12, <2>1, <2>2, <2>3 DEF Imported
    <2> QED
        BY <2>4, <2>5 DEF Finished, IdleJob
<1>15. own.suppliers # {} => own.alias # NoAlias \/ (books.alias # NoAlias /\ ~books.alias.enabled)
    <2>1. CASE d.suppliers = {}
        BY <2>1, <1>8 DEF AliasKept
    <2>2. CASE d.suppliers # {} /\ d.alias # NoAlias
        BY <2>2, <1>8
    <2>3. CASE /\ d.suppliers # {} /\ d.alias = NoAlias
               /\ View(w).alias.conn = job[w].conn /\ ~View(w).alias.enabled
        <3>1. CASE job[w].own.alias # NoAlias
            BY <2>3, <3>1, <1>8
        <3>2. CASE job[w].own.alias = NoAlias
            <4>1. job[w].seen.alias.conn = job[w].conn /\ ~job[w].seen.alias.enabled
                BY <2>3, <3>2, <1>9
            <4>2. job[w].seen.alias # NoAlias
                BY <4>1, <1>5 DEF NoAlias
            <4> QED
                BY <4>1, <4>2 DEF AliasKept
        <3> QED
            BY <3>1, <3>2
    <2> QED
        BY <2>1, <2>2, <2>3, <1>6 DEF Guarded
<1>16. Nothing.alias = NoAlias
    BY DEF Nothing
<1>17. ASSUME NEW v \in Worker
       PROVE  (/\ job[v].todo # <<>> => job[v].conn # NoConnection
               /\ job[v].own.alias # NoAlias =>
                        /\ books.alias = NoAlias
                        /\ \A u \in Worker \ {v} : job[u].own.alias = NoAlias
               /\ job[v].own.suppliers \subseteq {v}
               /\ job[v].own.suppliers # {} =>
                        job[v].own.alias # NoAlias \/ (books.alias # NoAlias /\ ~books.alias.enabled)
               /\ job[v].seen.alias # NoAlias => books.alias = job[v].seen.alias)'
    <2>1. CASE v = w
        <3>1. own.suppliers \subseteq {w}
            BY <1>6, <1>8 DEF Guarded, AliasKept
        <3>2. own.alias # NoAlias =>
                    books.alias = NoAlias /\ \A u \in Worker \ {w} : job[u].own.alias = NoAlias
            BY <1>8, <1>10, <1>11 DEF AliasKept
        <3>3. j.seen.alias # NoAlias => books.alias = j.seen.alias
            BY <1>14, <1>16 DEF AliasKept
        <3> QED
            BY <2>1, <3>1, <3>2, <3>3, <1>5, <1>13, <1>14, <1>15
    <2>2. CASE v # w
        <3>1. job[v].own.alias # NoAlias => d.alias = NoAlias /\ job[w].own.alias = NoAlias
            BY <2>2, <1>11 DEF AliasKept
        <3>2. job[v].own.alias # NoAlias => job'[w].own.alias = NoAlias
            BY <3>1, <1>8, <1>13, <1>14
        <3> QED
            BY <2>2, <3>2, <1>13 DEF AliasKept
    <2> QED
        BY <2>1, <2>2
<1> QED
    BY <1>13, <1>17 DEF AliasKept

LEMMA FreshJobKeepsAlias ==
    ASSUME TypeOK, AliasKept, NEW w \in Worker, NEW j, job' = [job EXCEPT ![w] = j],
           j.own = Nothing, j.seen \in {books, Nothing}, j.todo # <<>> => j.conn # NoConnection,
           books' = books
    PROVE  AliasKept'
<1>1. job'[w] = j /\ \A v \in Worker \ {w} : job'[v] = job[v]
    BY DEF TypeOK
<1>2. Nothing.alias = NoAlias /\ Nothing.suppliers = {}
    BY DEF Nothing
<1> QED
    BY <1>1, <1>2 DEF AliasKept

LEMMA CommitKeepsAlias ==
    ASSUME TypeOK, AliasKept, OneSupplier, NEW w \in Worker, Commit(w)
    PROVE  AliasKept' /\ OneSupplier'
<1>1. books \in Books /\ job[w].own \in Books
    BY DEF TypeOK, Job
<1>2. PICK own : own = job[w].own
    OBVIOUS
<1>3. /\ books'.suppliers = books.suppliers \cup own.suppliers
      /\ books'.alias = IF own.alias = NoAlias THEN books.alias ELSE own.alias
    BY <1>1, <1>2 DEF Commit, Plus
<1>4. /\ own.alias # NoAlias => books.alias = NoAlias
      /\ own.suppliers \subseteq {w}
      /\ own.suppliers # {} =>
            own.alias # NoAlias \/ (books.alias # NoAlias /\ ~books.alias.enabled)
    BY <1>2 DEF AliasKept
<1>5. job'[w] = IdleJob /\ \A v \in Worker \ {w} : job'[v] = job[v]
    BY DEF Commit, TypeOK
<1>6. /\ IdleJob.todo = <<>> /\ IdleJob.own.alias = NoAlias /\ IdleJob.own.suppliers = {}
      /\ IdleJob.seen.alias = NoAlias
    BY DEF IdleJob, Nothing
<1>7. AliasKept'
    <2>1. ASSUME NEW v \in Worker
          PROVE  (/\ job[v].todo # <<>> => job[v].conn # NoConnection
                  /\ job[v].own.alias # NoAlias =>
                        /\ books.alias = NoAlias
                        /\ \A u \in Worker \ {v} : job[u].own.alias = NoAlias
                  /\ job[v].own.suppliers \subseteq {v}
                  /\ job[v].own.suppliers # {} =>
                        job[v].own.alias # NoAlias \/ (books.alias # NoAlias /\ ~books.alias.enabled)
                  /\ job[v].seen.alias # NoAlias => books.alias = job[v].seen.alias)'
        <3>1. CASE v = w
            BY <3>1, <1>5, <1>6
        <3>2. CASE v # w
            BY <3>2, <1>2, <1>3, <1>4, <1>5, <1>6 DEF AliasKept
        <3> QED
            BY <3>1, <3>2
    <2>2. books'.suppliers # {} => books'.alias # NoAlias
        BY <1>3, <1>4 DEF AliasKept
    <2> QED
        BY <2>1, <2>2 DEF AliasKept
<1>8. OneSupplier'
    <2>1. CASE own.suppliers = {}
        <3>1. books'.suppliers = books.suppliers
            BY <2>1, <1>3
        <3> QED
            BY <3>1, <1>3, <1>4 DEF OneSupplier
    <2>2. CASE own.suppliers = {w} /\ books.suppliers = {}
        <3>1. books'.suppliers = {w}
            BY <2>2, <1>3
        <3>2. Cardinality({w}) = 1
            BY FS_Singleton
        <3> QED
            BY <3>1, <3>2 DEF OneSupplier
    <2>3. CASE own.suppliers = {w} /\ books.suppliers # {}
        <3>1. books.alias # NoAlias
            BY <2>3 DEF AliasKept
        <3> QED
            BY <2>3, <3>1, <1>3, <1>4 DEF OneSupplier
    <2> QED
        BY <2>1, <2>2, <2>3, <1>4
<1> QED
    BY <1>7, <1>8

\* No interleaving of any number of imports creates the merchant's supplier
\* twice while its alias is not disabled.
THEOREM SupplierOnce == Spec => []OneSupplier
<1> USE ExpensesAssumption
<1>1. Init => AliasKept /\ OneSupplier
    <2> SUFFICES ASSUME Init PROVE AliasKept /\ OneSupplier
        OBVIOUS
    <2>1. /\ IdleJob.todo = <<>> /\ IdleJob.own.alias = NoAlias /\ IdleJob.own.suppliers = {}
          /\ IdleJob.seen.alias = NoAlias
        BY DEF IdleJob, Nothing
    <2>2. books.suppliers = {}
        BY DEF Init, Nothing
    <2>3. Cardinality({}) = 0
        BY FS_EmptySet
    <2>4. \A w \in Worker : job[w] = IdleJob
        BY DEF Init
    <2> QED
        BY <2>1, <2>2, <2>3, <2>4 DEF AliasKept, OneSupplier
<1>2. TypeOK /\ AliasKept /\ OneSupplier /\ [Next]_vars => AliasKept' /\ OneSupplier'
    <2> SUFFICES ASSUME TypeOK, AliasKept, OneSupplier, [Next]_vars
                 PROVE  AliasKept' /\ OneSupplier'
        OBVIOUS
    <2>1. ASSUME NEW w \in Worker, NEW j, job' = [job EXCEPT ![w] = j], j.own = Nothing,
                 j.seen \in {books, Nothing}, j.todo # <<>> => j.conn # NoConnection,
                 books' = books
          PROVE  AliasKept' /\ OneSupplier'
        BY <2>1, FreshJobKeepsAlias DEF OneSupplier
    <2>2. ASSUME NEW w \in Worker, NEW c \in Connection, NEW module, NEW dry \in BOOLEAN,
                 Run(w, c, module, dry)
          PROVE  AliasKept' /\ OneSupplier'
        <3>1. c # NoConnection
            OBVIOUS
        <3> QED
            BY <2>1, <2>2, <3>1, RunEffect
    <2>3. ASSUME NEW w \in Worker, NEW c \in Connection,
                 \/ BeginSync(w, c)
                 \/ \E module \in {"all", "expenses", "other"}, dry \in BOOLEAN :
                        BeginByHand(w, c, module, dry)
          PROVE  AliasKept' /\ OneSupplier'
        <3>1. CASE BeginSync(w, c)
            BY <2>2, <3>1 DEF BeginSync
        <3>2. ASSUME NEW module, NEW dry \in BOOLEAN, BeginByHand(w, c, module, dry)
              PROVE  AliasKept' /\ OneSupplier'
            BY <2>2, <3>2 DEF BeginByHand
        <3> QED
            BY <2>3, <3>1, <3>2
    <2>4. ASSUME NEW w \in Worker, NEW x \in Expense, NEW payload \in BOOLEAN,
                 BeginEvent(w, x, payload)
          PROVE  AliasKept' /\ OneSupplier'
        <3>1. PICK j : j = [Started(Owner[x]) EXCEPT !.payload = payload, !.todo = <<x>>]
            OBVIOUS
        <3>2. j.own = Nothing /\ j.seen = books /\ j.conn = Owner[x]
            BY <3>1 DEF Started, IdleJob
        <3>3. job' = [job EXCEPT ![w] = j] /\ books' = books
            BY <2>4, <3>1, Zenon DEF BeginEvent
        <3>4. Owner[x] # NoConnection
            OBVIOUS
        <3> QED
            BY <2>1, <3>2, <3>3, <3>4
    <2>5. ASSUME NEW w \in Worker, Rollback(w) PROVE AliasKept' /\ OneSupplier'
        <3>1. IdleJob.own = Nothing /\ IdleJob.seen = Nothing /\ IdleJob.todo = <<>>
            BY DEF IdleJob
        <3> QED
            BY <2>1, <2>5, <3>1 DEF Rollback
    <2>6. ASSUME NEW w \in Worker, Import(w) PROVE AliasKept' /\ OneSupplier'
        BY <2>6, ImportKeepsAlias DEF Import, OneSupplier
    <2>7. CASE UNCHANGED <<books, job>>
        BY <2>7 DEF AliasKept, OneSupplier
    <2>8. ASSUME NEW w \in Worker, Advance(w) \/ Fail(w) PROVE AliasKept' /\ OneSupplier'
        BY <2>5, <2>6, <2>8, CommitKeepsAlias DEF Advance, Collide, Fail
    <2> QED
        BY <2>3, <2>4, <2>7, <2>8 DEF Next, Create, Age, Approve, EditSettings, vars
<1> QED
    BY <1>1, <1>2, TypeCorrect, PTL DEF Spec
=============================================================================
