------------------------------ MODULE Expenses ------------------------------
(***************************************************************************)
(* Card expenses of one merchant become Bank Transactions and, by the      *)
(* posting strategy, Purchase Invoices or Expense Claims                   *)
(* (services/expenses.import_expense); an invoice needs the merchant's     *)
(* Supplier (services/suppliers.resolve_supplier), and what is booked may  *)
(* be reported SYNCED to Airwallex.  Event jobs and sync runs do this side *)
(* by side.                                                                *)
(*                                                                         *)
(* A job is one database transaction: it reads the snapshot of its start   *)
(* and its own writes, waits for rows and index keys another job has       *)
(* written, and fails as a whole on a key that was committed since.  The   *)
(* report to Airwallex is not part of it.                                  *)
(*                                                                         *)
(* A sync run asks for what was created since its connection's cursor,     *)
(* less an overlap, and takes a bounded number of it.  Of the time that    *)
(* goes by the model keeps what this depends on: the stage of each         *)
(* expense.  Receipts have a module of their own.                          *)
(***************************************************************************)
EXTENDS FiniteSets, Naturals, Sequences

CONSTANTS
    Connection,     \* Airwallex Settings documents
    Expense,        \* card expenses, all of one merchant
    Unnamed,        \* those without a merchant's name
    Owner,          \* Owner[x]: the connection of x
    Place,          \* Place[x]: where Airwallex lists x among the others
    MaxItems,       \* settings.max_records_per_sync
    Worker,         \* queue workers; also names the supplier a worker creates
    ByHand,         \* a supplier of another name an administrator chose
    NoSupplier,
    NoConnection,
    Choice,         \* settings an administrator chooses from
    NamedByMerchant,\* are Suppliers named by supplier_name, or by a series?
    Aging,          \* bound: the expenses that may grow old
    MaxEdits,       \* bound: administrators' edits and runs
    MaxFaults       \* bound: errors and killed jobs

Settings == [mapped: BOOLEAN,       \* the currency has an account mapping
             strategy: {"Bank Transaction Only", "Purchase Invoice", "Expense Claim"},
             create: BOOLEAN,       \* create_accounting_documents
             complete: BOOLEAN,     \* expense account; employee and claim type
             explicit: BOOLEAN,     \* a mapping rule names the supplier
             suppliers: BOOLEAN,    \* create_suppliers
             mark: BOOLEAN]         \* mark_expenses_synced

ASSUME ExpensesAssumption ==
    /\ Owner \in [Expense -> Connection]
    /\ Unnamed \subseteq Expense
    /\ Place \in [Expense -> Nat]
    /\ \A x, y \in Expense : Place[x] = Place[y] => x = y
    /\ MaxItems \in Nat \ {0}
    /\ Choice \subseteq Settings
    /\ NoConnection \notin Connection
    /\ ByHand \notin Worker /\ NoSupplier \notin Worker \cup {ByHand}
    /\ NamedByMerchant \in BOOLEAN
    /\ Aging \subseteq Expense
    /\ MaxEdits \in Nat /\ MaxFaults \in Nat

VARIABLES
    stage,      \* how old each expense is, as far as sync runs can tell
    approved,   \* expenses approved at Airwallex
    prompt,     \* those approved while they were early (history)
    synced,     \* the document each expense was reported SYNCED for
    books,      \* committed ERPNext documents
    settings,   \* the Airwallex Settings of each connection
    job,        \* what each worker is running
    undone,     \* expenses reported by a job that was rolled back
    edits,      \* edits left (bound)
    faults      \* faults left (bound)

vars == <<stage, approved, prompt, synced, books, settings, job, undone, edits, faults>>

-----------------------------------------------------------------------------
(* Documents, snapshots and unique keys *)

Supplier == Worker \cup {ByHand}

\* The Airwallex Merchant Alias of the merchant: its normalized name is
\* unique among all connections, so there is one at most.
Alias == [conn: Connection \cup {NoConnection}, supplier: Supplier \cup {NoSupplier},
          enabled: BOOLEAN]

NoAlias == [conn |-> NoConnection, supplier |-> NoSupplier, enabled |-> FALSE]

\* suppliers: those whose supplier_name is the merchant.
Books == [bank: SUBSET Expense, claims: SUBSET Expense,
          invoice: [Expense -> Supplier \cup {NoSupplier}],
          suppliers: SUBSET Worker, alias: Alias]

Nothing == [bank |-> {}, claims |-> {}, invoice |-> [x \in Expense |-> NoSupplier],
            suppliers |-> {}, alias |-> NoAlias]

Plus(b, d) ==
    [bank |-> b.bank \cup d.bank, claims |-> b.claims \cup d.claims,
     invoice |-> [x \in Expense |-> IF d.invoice[x] = NoSupplier THEN b.invoice[x] ELSE d.invoice[x]],
     suppliers |-> b.suppliers \cup d.suppliers,
     alias |-> IF d.alias = NoAlias THEN b.alias ELSE d.alias]

\* Both hold a key of the same unique index.
Clash(b, d) ==
    \/ b.bank \cap d.bank # {} \/ b.claims \cap d.claims # {}
    \/ \E x \in Expense : NoSupplier \notin {b.invoice[x], d.invoice[x]}
    \/ NamedByMerchant /\ {} \notin {b.suppliers, d.suppliers}
    \/ NoAlias \notin {b.alias, d.alias}

Job == [pc: {"idle", "running"}, conn: Connection \cup {NoConnection},
        sync: BOOLEAN, dry: BOOLEAN, payload: BOOLEAN, settings: Settings,
        todo: Seq(Expense), seen: Books, own: Books, told: SUBSET Expense,
        moves: Connection \cup {NoConnection},  \* whose cursor its commit moves
        early: SUBSET Expense]                  \* what was early when it began

\* The settings of an idle worker: the schema's defaults.
Defaults == [mapped |-> FALSE, strategy |-> "Bank Transaction Only", create |-> FALSE,
             complete |-> FALSE, explicit |-> FALSE, suppliers |-> FALSE, mark |-> FALSE]

IdleJob == [pc |-> "idle", conn |-> NoConnection, sync |-> FALSE, dry |-> FALSE,
            payload |-> FALSE, settings |-> Defaults, todo |-> <<>>, seen |-> Nothing,
            own |-> Nothing, told |-> {}, moves |-> NoConnection, early |-> {}]

View(w) == Plus(job[w].seen, job[w].own)

\* A sync run fetches the expense; an event carries the one of its time.
Approved(w, x) == IF job[w].sync THEN x \in approved ELSE job[w].payload

-----------------------------------------------------------------------------
(* What an import writes *)

\* Mutant of Remembered: a created supplier is not remembered.
NotRemembered(c, view, s) == NoAlias

\* _remember: any alias of this connection, a disabled one too, is kept.
Remembered(c, view, s) ==
    IF view.alias.conn = c THEN NoAlias
    ELSE [conn |-> c, supplier |-> s, enabled |-> TRUE]

\* The aliased supplier, the one of the merchant's name or a new one, and
\* what finding it writes.
ByName(w, view) ==
    LET c == job[w].conn
        found == CHOOSE s \in view.suppliers : TRUE
    IN  IF view.alias.conn = c /\ view.alias.enabled
        THEN [supplier |-> view.alias.supplier, writes |-> Nothing]
        ELSE IF view.suppliers # {}
        THEN [supplier |-> found,
              writes |-> [Nothing EXCEPT !.alias = Remembered(c, view, found)]]
        ELSE IF job[w].settings.suppliers
        THEN [supplier |-> w,
              writes |-> [Nothing EXCEPT !.suppliers = {w}, !.alias = Remembered(c, view, w)]]
        ELSE [supplier |-> NoSupplier, writes |-> Nothing]

\* resolve_supplier
Resolved(w, x, view) ==
    IF job[w].settings.explicit THEN [supplier |-> ByHand, writes |-> Nothing]
    ELSE IF x \in Unnamed THEN [supplier |-> NoSupplier, writes |-> Nothing]
    ELSE ByName(w, view)

\* An import that creates nothing, and one that books.
Held(d) == [status |-> "held", writes |-> d]
Created(d, dry) == [status |-> IF dry THEN "would_create" ELSE "created", writes |-> d]

\* _create_accounting_document and _create_expense_claim
Posting(w, x) ==
    LET s == job[w].settings
        view == View(w)
        merchant == Resolved(w, x, view)
    IN  CASE s.strategy = "Bank Transaction Only" -> [status |-> "not_requested", writes |-> Nothing]
          [] s.strategy # "Bank Transaction Only" /\ ~Approved(w, x) -> Held(Nothing)
          [] s.strategy # "Bank Transaction Only" /\ Approved(w, x) /\ ~s.create ->
                [status |-> "guarded", writes |-> Nothing]
          [] s.strategy = "Expense Claim" /\ Approved(w, x) /\ s.create ->
                IF x \in view.claims THEN [status |-> "exists", writes |-> Nothing]
                ELSE IF ~s.complete THEN Held(Nothing)
                ELSE Created([Nothing EXCEPT !.claims = IF job[w].dry THEN {} ELSE {x}], job[w].dry)
          [] s.strategy = "Purchase Invoice" /\ Approved(w, x) /\ s.create ->
                IF view.invoice[x] # NoSupplier THEN [status |-> "exists", writes |-> Nothing]
                ELSE IF merchant.supplier = NoSupplier \/ ~s.complete THEN Held(merchant.writes)
                ELSE Created([merchant.writes EXCEPT
                                !.invoice[x] = IF job[w].dry THEN NoSupplier ELSE merchant.supplier],
                             job[w].dry)

\* The Bank Transaction is inserted or updated before that, the mapping given.
Writes(w, x) ==
    IF ~job[w].settings.mapped THEN Nothing
    ELSE [Posting(w, x).writes EXCEPT !.bank = IF job[w].dry THEN {} ELSE {x}]

\* Mutant of Document: the strategy itself is noted.
StrategyName(strategy) == strategy

Document(strategy) ==
    CASE strategy = "Bank Transaction Only" -> "bank"
      [] strategy = "Purchase Invoice" -> "invoice"
      [] strategy = "Expense Claim" -> "claim"

\* Mutant of Reports: whatever became of the document.
ReportsAll(w, x) ==
    job[w].settings.mapped /\ ~job[w].dry /\ job[w].settings.mark /\ Approved(w, x)

\* The expense is reported SYNCED.
Reports(w, x) ==
    /\ job[w].settings.mapped /\ ~job[w].dry /\ job[w].settings.mark /\ Approved(w, x)
    /\ Posting(w, x).status \in {"created", "exists", "not_requested"}

\* A row or key this write needs is locked by an unfinished job v.
Blocks(v, w, x) == v # w /\ Clash(job[v].own, Writes(w, x))

\* A key this write inserts was committed after the snapshot.
Collides(w, x) ==
    Clash(books, [Writes(w, x) EXCEPT !.bank = @ \ View(w).bank])

-----------------------------------------------------------------------------
\* An administrator may have aliased the merchant to a supplier of another
\* name, and disabled the alias again.
Prepared == [conn: Connection, supplier: {ByHand}, enabled: BOOLEAN]

Init ==
    /\ stage = [x \in Expense |-> "none"]
    /\ approved = {} /\ prompt = {}
    /\ synced = [x \in Expense |-> "none"]
    /\ \/ books = Nothing /\ edits = MaxEdits
       \/ /\ \E alias \in Prepared : books = [Nothing EXCEPT !.alias = alias]
          /\ MaxEdits > 0 /\ edits = MaxEdits - 1
    /\ settings \in [Connection -> Choice]
    /\ job = [w \in Worker |-> IdleJob]
    /\ undone = {}
    /\ faults = MaxFaults

Fault == faults > 0 /\ faults' = faults - 1

Started(c) == [IdleJob EXCEPT !.pc = "running", !.conn = c, !.settings = settings[c], !.seen = books]

-----------------------------------------------------------------------------
(* What a sync run asks for *)

\* An expense is early while every run that starts ends within the overlap
\* of its creation, then late; old when that overlap is over, and past when
\* the cursor less the overlap is later than its creation.
Stage == {"none", "early", "late", "old", "past"}

\* Mutant of Asked: what was reported SYNCED is left out.
AskedUnsynced(c, module) ==
    {x \in Expense : Owner[x] = c /\ stage[x] \notin {"none", "past"} /\ synced[x] = "none"}

\* from_created_at: an expenses-only run goes back to the start date.  Runs
\* of other modules ask for no expenses.
Asked(c, module) ==
    {x \in Expense : /\ Owner[x] = c /\ stage[x] # "none"
                     /\ module = "expenses" \/ (module = "all" /\ stage[x] # "past")}

\* t lists of S what comes first, up to max_items.
Lists(t, S) ==
    LET taken == {t[i] : i \in DOMAIN t} IN
    /\ \A i, j \in DOMAIN t : i < j => Place[t[i]] < Place[t[j]]
    /\ Len(t) < MaxItems => taken = S
    /\ \A x \in S \ taken, y \in taken : Place[y] < Place[x]

Listings(S) == {t \in UNION {[1..n -> S] : n \in 0..MaxItems} : Lists(t, S)}

\* Mutant of Moved: the overlap is forgotten.
MovedWithoutOverlap(c) ==
    [x \in Expense |-> IF Owner[x] = c /\ stage[x] # "none" THEN "past" ELSE stage[x]]

\* last_successful_sync becomes the end of the run.
Moved(c) ==
    [x \in Expense |-> IF Owner[x] = c /\ stage[x] = "old" THEN "past" ELSE stage[x]]

-----------------------------------------------------------------------------
(* Jobs *)

\* All that is left of a job that has imported everything.
Finished(j) ==
    IF j.todo # <<>> THEN j
    ELSE [IdleJob EXCEPT !.pc = "running", !.own = j.own, !.told = j.told,
                         !.moves = j.moves, !.early = j.early]

\* run_sync: a dry run does not move the cursor.
Run(w, c, module, dry) ==
    /\ job[w].pc = "idle"
    /\ \E t \in Listings(Asked(c, module)) :
        job' = [job EXCEPT ![w] = Finished([Started(c) EXCEPT
                    !.sync = TRUE, !.dry = dry, !.todo = t,
                    !.moves = IF dry THEN NoConnection ELSE c,
                    !.early = IF dry THEN {}
                              ELSE {x \in Expense : Owner[x] = c /\ stage[x] \in {"none", "early"}}])]
    /\ UNCHANGED <<stage, approved, prompt, synced, books, settings, undone, faults>>

\* hourly_recovery, daily_recovery
BeginSync(w, c) ==
    /\ Run(w, c, "all", FALSE)
    /\ UNCHANGED edits

\* enqueue_sync: an administrator syncs one module, or all; dry or not.
BeginByHand(w, c, module, dry) ==
    /\ edits > 0 /\ edits' = edits - 1
    /\ Run(w, c, module, dry)

\* process_event: one expense, in the state the event was sent in.
BeginEvent(w, x, payload) ==
    /\ job[w].pc = "idle"
    /\ stage[x] # "none" /\ (payload => x \in approved)
    /\ job' = [job EXCEPT ![w] = [Started(Owner[x]) EXCEPT !.payload = payload, !.todo = <<x>>]]
    /\ UNCHANGED <<stage, approved, prompt, synced, books, settings, undone, edits, faults>>

\* The job with the import of x done.
Imported(w, x) ==
    Finished([job[w] EXCEPT !.todo = Tail(@), !.own = Plus(@, Writes(w, x)),
                            !.told = IF Reports(w, x) THEN @ \cup {x} ELSE @])

\* import_expense
Import(w) ==
    LET x == Head(job[w].todo) IN
    /\ job[w].pc = "running" /\ job[w].todo # <<>>
    /\ \A v \in Worker : ~Blocks(v, w, x)
    /\ ~Collides(w, x)
    /\ job' = [job EXCEPT ![w] = Imported(w, x)]
    /\ synced' = IF Reports(w, x)
                 THEN [synced EXCEPT ![x] = Document(job[w].settings.strategy)]
                 ELSE synced
    /\ UNCHANGED <<stage, approved, prompt, books, settings, undone, edits, faults>>

Commit(w) ==
    /\ job[w].pc = "running" /\ job[w].todo = <<>>
    /\ books' = Plus(books, job[w].own)
    /\ stage' = Moved(job[w].moves)
    /\ job' = [job EXCEPT ![w] = IdleJob]
    /\ UNCHANGED <<approved, prompt, synced, settings, undone, edits, faults>>

\* The job raises or is killed: its writes are undone, its reports are not.
Rollback(w) ==
    /\ job' = [job EXCEPT ![w] = IdleJob]
    /\ undone' = undone \cup job[w].told
    /\ UNCHANGED <<stage, approved, prompt, synced, books, settings, edits>>

\* DuplicateEntryError
Collide(w) ==
    LET x == Head(job[w].todo) IN
    /\ job[w].pc = "running" /\ job[w].todo # <<>>
    /\ \A v \in Worker : ~Blocks(v, w, x)
    /\ Collides(w, x)
    /\ Rollback(w)
    /\ UNCHANGED faults

\* Any other error; a deadlock inside an import fails one of the jobs, too.
Fail(w) ==
    /\ job[w].pc = "running"
    /\ Fault
    /\ Rollback(w)

-----------------------------------------------------------------------------
(* Airwallex, the time and the administrators *)

Create(x) ==
    /\ stage[x] = "none"
    /\ stage' = [stage EXCEPT ![x] = "early"]
    /\ UNCHANGED <<approved, prompt, synced, books, settings, job, undone, edits, faults>>

Approve(x) ==
    /\ stage[x] # "none" /\ x \notin approved
    /\ approved' = approved \cup {x}
    /\ prompt' = IF stage[x] = "early" THEN prompt \cup {x} ELSE prompt
    /\ UNCHANGED <<stage, synced, books, settings, job, undone, edits, faults>>

\* No run that began while x was early still runs when x is old.
Age(x) ==
    /\ x \in Aging
    /\ \/ stage[x] = "early" /\ stage' = [stage EXCEPT ![x] = "late"]
       \/ /\ stage[x] = "late" /\ \A w \in Worker : x \notin job[w].early
          /\ stage' = [stage EXCEPT ![x] = "old"]
    /\ UNCHANGED <<approved, prompt, synced, books, settings, job, undone, edits, faults>>

EditSettings(c) ==
    /\ edits > 0 /\ edits' = edits - 1
    /\ \E s \in Choice \ {settings[c]} : settings' = [settings EXCEPT ![c] = s]
    /\ UNCHANGED <<stage, approved, prompt, synced, books, job, undone, faults>>

-----------------------------------------------------------------------------
Advance(w) == Import(w) \/ Commit(w) \/ Collide(w)

Next ==
    \/ \E w \in Worker, c \in Connection : BeginSync(w, c)
    \/ \E w \in Worker, c \in Connection, module \in {"all", "expenses", "other"}, dry \in BOOLEAN :
            BeginByHand(w, c, module, dry)
    \/ \E w \in Worker, x \in Expense, payload \in BOOLEAN : BeginEvent(w, x, payload)
    \/ \E w \in Worker : Advance(w) \/ Fail(w)
    \/ \E x \in Expense : Create(x) \/ Age(x) \/ Approve(x)
    \/ \E c \in Connection : EditSettings(c)

Spec == Init /\ [][Next]_vars

\* A running job goes on and a lock wait is served; the scheduler starts a
\* sync run of every connection again and again.
Fairness ==
    /\ \A w \in Worker : SF_vars(Advance(w))
    /\ \A c \in Connection : SF_vars(\E w \in Worker : BeginSync(w, c))

FairSpec == Spec /\ Fairness

-----------------------------------------------------------------------------
(* Properties *)

TypeOK ==
    /\ stage \in [Expense -> Stage]
    /\ prompt \subseteq approved /\ approved \subseteq Expense
    /\ synced \in [Expense -> {"none", "bank", "invoice", "claim"}]
    /\ books \in Books
    /\ settings \in [Connection -> Settings]
    /\ job \in [Worker -> Job]
    /\ undone \subseteq Expense
    /\ edits \in Nat /\ faults \in Nat

\* The document x was reported SYNCED for is among b.
Vouched(x, b) ==
    /\ x \in b.bank
    /\ synced[x] = "invoice" => b.invoice[x] # NoSupplier
    /\ synced[x] = "claim" => x \in b.claims

\* Airwallex is told SYNCED only for an expense that is in the books as the
\* strategy asks, or will be when the reporting job commits; a job rolled
\* back after its report is the one exception.
SyncedIsBooked ==
    \A x \in Expense : synced[x] # "none" =>
        Vouched(x, books) \/ x \in undone \/ \E w \in Worker : x \in job[w].told

\* Concurrent imports never create the merchant's supplier twice, although
\* nothing is unique in supplier_name: the alias they all remember is.  Only
\* an alias that was disabled lets a second supplier pass.
OneSupplier ==
    Cardinality(books.suppliers) > 1 => books.alias # NoAlias /\ ~books.alias.enabled

\* Nothing but cron moves the cursors, and one run takes all there is.
Undisturbed ==
    /\ edits = 0
    /\ \A c \in Connection : Cardinality({x \in Expense : Owner[x] = c}) <= MaxItems

\* Undisturbed and with its currency mapped, no expense slips through the
\* moving window, whatever jobs collide, fail or time out and whenever it is
\* created: it gets its Bank Transaction, and so a report that outlived its
\* job is made true.
CreatedIsImported ==
    [](Undisturbed /\ \A c \in Connection : settings[c].mapped) =>
        \A x \in Expense : stage[x] # "none" ~> x \in books.bank

\* With everything switched on besides, an expense approved early enough for
\* the overlap gets its document, whatever older payloads, collisions and
\* failures came first.
Posts(s) == s.mapped /\ s.create /\ s.complete /\ s.suppliers
               /\ s.strategy # "Bank Transaction Only"

ApprovedAreBooked ==
    [](Undisturbed /\ \A c \in Connection : Posts(settings[c])) =>
        \A x \in Expense \ Unnamed :
            x \in prompt ~> (x \in books.claims \/ books.invoice[x] # NoSupplier)
=============================================================================
