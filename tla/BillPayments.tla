---------------------------- MODULE BillPayments ----------------------------
(***************************************************************************)
(* The payments of one Airwallex bill, mirrored into ERPNext Payment       *)
(* Entries (services/payments.py) whenever the bill is imported            *)
(* (services/bills.py), by a webhook or by a sync, and into the same       *)
(* entries when the transfers module lists their transfers                 *)
(* (services/transfers.py).                                                *)
(*                                                                         *)
(* An import is one database transaction and reconciles the payments of    *)
(* its payload one after the other; one that raises is rolled back whole,  *)
(* a stutter here.  Between imports accountants work on the same invoice   *)
(* and entries.  One currency: paid, received and allocated amounts agree. *)
(*                                                                         *)
(* An entry the code cancels loses its Airwallex id first                  *)
(* (db_set("custom_airwallex_payment_id", None)), and no later read does   *)
(* anything with it: it leaves the model.  One an accountant cancels keeps *)
(* the id.  The unique index on the id leaves one entry per payment.       *)
(***************************************************************************)
EXTENDS Integers, Sequences, FiniteSets, FiniteSetsExt, Functions

CONSTANTS
    Payment,        \* Airwallex payment ids
    Observation,    \* what a bill's payload may say of a payment
    Total,          \* grand total of the Purchase Invoice
    NoImport        \* lastImport before the first import

\* amount = 0: _build_payment_values holds the payment (no account mapping,
\* no exchange rate, no positive amount).
ASSUME ObservationAssumption ==
    /\ IsFiniteSet(Payment)
    /\ Observation \subseteq [type: {"TRANSFER", "CARD_TRANSACTION", ""},
                              terminal: BOOLEAN, amount: Nat]
    /\ Total \in Nat \ {0}

VARIABLES
    books,       \* ERPNext: the invoice, the entry of each payment, payments by hand
    job,         \* the running import
    lastImport   \* history: payload and settings of the last import, until an
                 \* accountant or another import touches the books

vars == <<books, job, lastImport>>

-----------------------------------------------------------------------------
(* The ERPNext side *)

Live == {"draft", "submitted"}

Entry == [status: {"none", "cancelled"} \cup Live, amount: Nat, allocated: Nat]
NoEntry == [status |-> "none", amount |-> 0, allocated |-> 0]

Books == [invoice: {"none"} \cup Live, entry: [Payment -> Entry], byHand: Nat]
Settings == [payments: BOOLEAN, submit: BOOLEAN]

Allocated(b, status, P) ==
    SumFunctionOnSet([p \in P |-> b.entry[p].allocated], {p \in P : b.entry[p].status = status})

\* ERPNext lowers outstanding_amount for submitted entries only.
Outstanding(b) == Total - b.byHand - Allocated(b, "submitted", Payment)

-----------------------------------------------------------------------------
(* services/payments.py, as functions of the books *)

\* Mutants of Available: the allocations of other drafts are forgotten, the
\* entry's own allocation is, or what is left may be negative.
AvailableDespiteDrafts(b, p) == Max({0, Outstanding(b) + Allocated(b, "submitted", {p})})

AvailableToOthers(b, p) ==
    Max({0, Outstanding(b) - Allocated(b, "draft", Payment \ {p})})

AvailableUnbounded(b, p) ==
    Outstanding(b) + Allocated(b, "submitted", {p}) - Allocated(b, "draft", Payment \ {p})

\* _available_outstanding: the entry under reconciliation gives its own
\* submitted allocation back, other drafts take theirs.
Available(b, p) ==
    Max({0, Outstanding(b) + Allocated(b, "submitted", {p})
                           - Allocated(b, "draft", Payment \ {p})})

\* Mutant of Built: the whole amount is allocated.
BuiltUncapped(b, p, o, status) ==
    [status |-> status, amount |-> o.amount, allocated |-> o.amount]

\* _build_payment_values
Built(b, p, o, status) ==
    [status |-> status, amount |-> o.amount, allocated |-> Min({o.amount, Available(b, p)})]

Buildable(b, o) == b.invoice = "submitted" /\ o.amount > 0

Inserted(settings) == IF settings.submit THEN "submitted" ELSE "draft"

\* import_bill_payment when no entry has the payment's id.
NewPayment(b, p, o, settings) ==
    IF settings.payments /\ o.type = "TRANSFER" /\ Buildable(b, o)
    THEN [b EXCEPT !.entry[p] = Built(b, p, o, Inserted(settings))]
    ELSE b

\* Mutants of RemoveEntry: submitted entries stay, or cancelled ones give
\* their Airwallex id up as well.
RemoveDraft(b, p) == IF b.entry[p].status = "draft" THEN [b EXCEPT !.entry[p] = NoEntry] ELSE b

RemoveAny(b, p) == [b EXCEPT !.entry[p] = NoEntry]

\* _remove_payment_entry
RemoveEntry(b, p) == IF b.entry[p].status \in Live THEN [b EXCEPT !.entry[p] = NoEntry] ELSE b

\* Mutant of KnownPayment: a submitted entry is left alone.
KnownDraft(b, p, o, settings) ==
    LET built == Built(b, p, o, "draft")
    IN  CASE o.terminal \/ o.type = "CARD_TRANSACTION" -> RemoveEntry(b, p)
          [] ~o.terminal /\ o.type # "CARD_TRANSACTION"
             /\ Buildable(b, o) /\ b.entry[p].status = "draft" -> [b EXCEPT !.entry[p] = built]
          [] OTHER -> b

\* _reconcile_existing_payment: withdrawn, held, left alone, updated in place
\* while draft, amended (cancelled and inserted again) once submitted.
KnownPayment(b, p, o, settings) ==
    LET entry == b.entry[p]
        built == Built(b, p, o, entry.status)
    IN  CASE o.terminal \/ o.type = "CARD_TRANSACTION" -> RemoveEntry(b, p)
          [] Buildable(b, o) /\ ~o.terminal /\ o.type # "CARD_TRANSACTION"
             /\ built # entry /\ entry.status \in Live ->
                [b EXCEPT !.entry[p] = [built EXCEPT !.status =
                    IF entry.status = "draft" THEN "draft" ELSE Inserted(settings)]]
          [] OTHER -> b

Reconciled(b, p, o, settings) ==
    IF b.entry[p].status = "none" THEN NewPayment(b, p, o, settings)
                                  ELSE KnownPayment(b, p, o, settings)

\* _linked_payment_entries: an entry that allocates nothing has no reference
\* row to find it by.
Linked(b) == {p \in Payment : b.entry[p].status # "none" /\ b.entry[p].allocated > 0}

Paid(payload) == {payload[i].payment : i \in DOMAIN payload}

\* The last loop of import_bill_payments.
Withdrawn(b, payload) ==
    [b EXCEPT !.entry = [p \in Payment |->
        IF p \in Linked(b) \ Paid(payload) THEN RemoveEntry(b, p).entry[p] ELSE b.entry[p]]]

-----------------------------------------------------------------------------
Idle == [pc |-> "idle", payload |-> <<>>, settings |-> [payments |-> FALSE, submit |-> FALSE]]

Init ==
    /\ books = [invoice |-> "none", entry |-> [p \in Payment |-> NoEntry], byHand |-> 0]
    /\ job = Idle
    /\ lastImport = NoImport

\* import_bill finds the invoice of an approved bill, or inserts it and, as
\* the settings say, submits it.
BeginImport(settings) ==
    /\ job.pc = "idle"
    /\ books' = IF books.invoice = "none"
                THEN [books EXCEPT !.invoice = Inserted(settings)]
                ELSE books
    /\ job' = [pc |-> "importing", payload |-> <<>>, settings |-> settings]
    /\ lastImport' = NoImport

\* import_bill_payment for the next payment of the payload.
ImportPayment(p, o) ==
    /\ job.pc = "importing"
    /\ p \notin Paid(job.payload)
    /\ books' = Reconciled(books, p, o, job.settings)
    /\ job' = [job EXCEPT !.payload = Append(@, [payment |-> p, seen |-> o])]
    /\ UNCHANGED lastImport

\* The payload has no more payments.
FinishImport ==
    /\ job.pc = "importing"
    /\ books' = Withdrawn(books, job.payload)
    /\ lastImport' = [payload |-> job.payload, settings |-> job.settings]
    /\ job' = Idle

-----------------------------------------------------------------------------
(* services/transfers.py *)

\* import_transfer for the transfer behind payment p, which the bill names by
\* the transfer's id (_payment_id).  An entry with that id, cancelled ones
\* included, is left alone; a new one refers to no invoice.  n is what the payer
\* pays, which need not be the amount of the bill's payment.
ImportTransfer(p, n, settings) ==
    /\ job.pc = "idle"
    /\ books.entry[p].status = "none"
    /\ books' = [books EXCEPT !.entry[p] =
                    [status |-> Inserted(settings), amount |-> n, allocated |-> 0]]
    /\ lastImport' = NoImport
    /\ UNCHANGED job

-----------------------------------------------------------------------------
(* The accountants.  ERPNext lets no document allocate more than the invoice *)
(* has outstanding.                                                          *)

ByHand == job.pc = "idle" /\ lastImport' = NoImport /\ UNCHANGED job

SubmitInvoice ==
    /\ ByHand
    /\ books.invoice = "draft"
    /\ books' = [books EXCEPT !.invoice = "submitted"]

SubmitEntry(p) ==
    /\ ByHand
    /\ books.entry[p].status = "draft"
    /\ books.entry[p].allocated <= Outstanding(books)
    /\ books' = [books EXCEPT !.entry[p].status = "submitted"]

CancelEntry(p) ==
    /\ ByHand
    /\ books.entry[p].status = "submitted"
    /\ books' = [books EXCEPT !.entry[p].status = "cancelled"]

DeleteEntry(p) ==
    /\ ByHand
    /\ books.entry[p].status \in {"draft", "cancelled"}
    /\ books' = [books EXCEPT !.entry[p] = NoEntry]

PayInvoice(n) ==
    /\ ByHand
    /\ books.invoice = "submitted"
    /\ n <= Outstanding(books)
    /\ books' = [books EXCEPT !.byHand = @ + n]

-----------------------------------------------------------------------------
Next ==
    \/ \E settings \in Settings : BeginImport(settings)
    \/ \E p \in Payment, o \in Observation : ImportPayment(p, o)
    \/ FinishImport
    \/ \E p \in Payment, n \in 1..Total, settings \in Settings : ImportTransfer(p, n, settings)
    \/ SubmitInvoice
    \/ \E p \in Payment : SubmitEntry(p) \/ CancelEntry(p) \/ DeleteEntry(p)
    \/ \E n \in 1..Total : PayInvoice(n)

Spec == Init /\ [][Next]_vars

-----------------------------------------------------------------------------
(* Properties *)

Payload == {s \in Seq([payment: Payment, seen: Observation]) : Len(s) = Cardinality(Paid(s))}

TypeOK ==
    /\ books \in Books
    /\ job.pc \in {"idle", "importing"} /\ job.settings \in Settings
    /\ job.payload \in Seq([payment: Payment, seen: Observation])
    /\ Len(job.payload) = Cardinality(Paid(job.payload))

\* ERPNext never has to refuse an entry the import submits: amendments,
\* payments by hand and entries cancelled by hand included, the submitted
\* allocations never exceed the invoice.
NeverOverallocated == Outstanding(books) >= 0

\* Nor can accountants be left with drafts of which some can never be
\* submitted: together the drafts fit what was outstanding before they paid
\* by hand.
DraftsFit == Allocated(books, "draft", Payment) <= Outstanding(books) + books.byHand

LastSeen == {lastImport.payload[i] : i \in DOMAIN lastImport.payload}

JustImported == job.pc = "idle" /\ lastImport # NoImport

\* After an import no entry is allocated to the invoice for a payment the bill
\* no longer has, and none at all for one it calls a card transaction, which
\* the card feed books.
NotBookedTwice ==
    JustImported =>
        /\ \A p \in Payment \ Paid(lastImport.payload) :
            ~(books.entry[p].status \in Live /\ books.entry[p].allocated > 0)
        /\ \A x \in LastSeen : x.seen.type = "CARD_TRANSACTION" =>
            books.entry[x.payment].status \notin Live

\* After an import with payments switched on, every transfer of the bill has an
\* entry of its present amount, whatever drafts, amendments and earlier
\* amounts there were, unless an accountant cancelled its entry.
TransfersBooked ==
    JustImported /\ lastImport.settings.payments /\ books.invoice = "submitted" =>
        \A x \in LastSeen :
            LET entry == books.entry[x.payment] IN
            x.seen.type = "TRANSFER" /\ ~x.seen.terminal /\ x.seen.amount > 0 =>
                entry.status = "cancelled" \/ (entry.status \in Live /\ entry.amount = x.seen.amount)

\* No import of the bill or of its transfers brings back an entry an accountant
\* cancelled: it goes only when it is deleted, and never in an import.
CancelledByHandStays ==
    [][\A p \in Payment : books.entry[p].status = "cancelled" =>
            \/ books'.entry[p] = books.entry[p]
            \/ job.pc = "idle" /\ books'.entry[p] = NoEntry]_vars

\* b once the payload of the last import is imported into it again, payment by
\* payment.
Again(b) ==
    LET payload == lastImport.payload
        after[n \in 0..Len(payload)] ==
            IF n = 0 THEN b
            ELSE Reconciled(after[n - 1], payload[n].payment, payload[n].seen, lastImport.settings)
    IN  Withdrawn(after[Len(payload)], payload)

NothingReportedCancelled == \A x \in LastSeen : ~x.seen.terminal

\* Not quite what the docstring of import_bill_payment says ("Re-running on an
\* updated bill is idempotent"), as withdrawals come after the allocations they
\* make room for: a bill none of whose transfers is reported as cancelled is
\* mirrored for good by the second import of the same payload; amendments and
\* allocations freed by it never chase each other.
SecondImportSettles ==
    JustImported /\ NothingReportedCancelled => Again(Again(books)) = Again(books)
=============================================================================
