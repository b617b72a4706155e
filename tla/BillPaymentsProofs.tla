------------------------- MODULE BillPaymentsProofs -------------------------
(***************************************************************************)
(* For any number of payments, payloads and imports, and any total: which  *)
(* entries an import leaves, and which it leaves alone.  The proofs follow *)
(* the running import, payment by payment.  Then how much the entries may  *)
(* allocate together, a sum over them (SumProofs): a step changes one      *)
(* entry at a time, which splits the sums into its share and the rest.     *)
(* And what importing the same payload again does: it takes every entry to *)
(* its amount or the invoice to nothing left, and then leaves them alone.  *)
(***************************************************************************)
EXTENDS BillPayments, SumProofs, SequenceTheorems, TLAPS

-----------------------------------------------------------------------------
(* The books *)

Status == {"none", "cancelled"} \cup Live

\* e is an entry, whatever its values.
Shape(e) ==
    /\ e.status \in Status
    /\ e = [status |-> e.status, amount |-> e.amount, allocated |-> e.allocated]

\* b is made of entries.
Shaped(b) ==
    /\ b = [invoice |-> b.invoice, entry |-> [p \in Payment |-> b.entry[p]], byHand |-> b.byHand]
    /\ \A p \in Payment : Shape(b.entry[p])

\* c is b but for the entry of p.
Elsewhere(b, c, p) ==
    /\ c.invoice = b.invoice
    /\ \A q \in Payment \ {p} : c.entry[q] = b.entry[q]

LEMMA EntrySet ==
    ASSUME NEW b, Shaped(b), NEW p \in Payment, NEW e, Shape(e)
    PROVE  /\ Shaped([b EXCEPT !.entry[p] = e])
           /\ Elsewhere(b, [b EXCEPT !.entry[p] = e], p)
           /\ [b EXCEPT !.entry[p] = e].entry[p] = e
<1>1. PICK c : c = [b EXCEPT !.entry[p] = e]
    OBVIOUS
<1>2. /\ c.invoice = b.invoice /\ c.byHand = b.byHand
      /\ c.entry = [b.entry EXCEPT ![p] = e]
      /\ c = [invoice |-> c.invoice, entry |-> c.entry, byHand |-> c.byHand]
    BY <1>1 DEF Shaped
<1>3. c.entry = [q \in Payment |-> IF q = p THEN e ELSE b.entry[q]]
    BY <1>2 DEF Shaped
<1>4. Shaped(c) /\ Elsewhere(b, c, p) /\ c.entry[p] = e
    BY <1>2, <1>3 DEF Shaped, Elsewhere
<1> QED
    BY <1>1, <1>4

LEMMA NoEntryShape == Shape(NoEntry) /\ NoEntry.status = "none"
    BY DEF Shape, NoEntry, Status

LEMMA BuiltShape ==
    ASSUME NEW b, NEW p, NEW o, NEW s \in Status
    PROVE  /\ Shape(Built(b, p, o, s))
           /\ Built(b, p, o, s).status = s /\ Built(b, p, o, s).amount = o.amount
    BY DEF Built, Shape

LEMMA BuiltAgain ==
    ASSUME NEW b, NEW p, NEW o, NEW s, NEW t
    PROVE  [Built(b, p, o, s) EXCEPT !.status = t] = Built(b, p, o, t)
    BY DEF Built

LEMMA RemoveShape ==
    ASSUME NEW b, Shaped(b), NEW p \in Payment
    PROVE  /\ Shaped(RemoveEntry(b, p)) /\ Elsewhere(b, RemoveEntry(b, p), p)
           /\ RemoveEntry(b, p).entry[p].status \notin Live
           /\ b.entry[p].status = "cancelled" => RemoveEntry(b, p) = b
<1>1. CASE b.entry[p].status \in Live
    <2>1. PICK c : c = [b EXCEPT !.entry[p] = NoEntry]
        OBVIOUS
    <2>2. Shaped(c) /\ Elsewhere(b, c, p) /\ c.entry[p] = NoEntry
        BY <2>1, EntrySet, NoEntryShape
    <2>3. RemoveEntry(b, p) = c
        BY <1>1, <2>1 DEF RemoveEntry
    <2> QED
        BY <1>1, <2>2, <2>3, NoEntryShape DEF Live
<1>2. CASE b.entry[p].status \notin Live
    BY <1>2 DEF RemoveEntry, Elsewhere
<1> QED
    BY <1>1, <1>2

\* What import_bill_payment leaves of one payment: the other entries and a
\* cancelled one as they are, no entry of a card transaction, and an entry of
\* the reported amount for a transfer.
LEMMA ReconciledEffect ==
    ASSUME NEW b, Shaped(b), NEW p \in Payment, NEW o \in Observation, NEW t \in Settings,
           NEW c, c = Reconciled(b, p, o, t)
    PROVE  /\ Shaped(c) /\ Elsewhere(b, c, p)
           /\ b.entry[p].status = "cancelled" => c = b
           /\ o.type = "CARD_TRANSACTION" => c.entry[p].status \notin Live
           /\ /\ t.payments /\ b.invoice = "submitted"
              /\ o.type = "TRANSFER" /\ ~o.terminal /\ o.amount > 0
              => \/ c.entry[p].status = "cancelled"
                 \/ c.entry[p].status \in Live /\ c.entry[p].amount = o.amount
<1>1. Elsewhere(b, b, p)
    BY DEF Elsewhere
<1>2. b.entry[p].status \in Status
    BY DEF Shaped, Shape
<1>3. ASSUME NEW s \in Live, NEW d, d = [b EXCEPT !.entry[p] = Built(b, p, o, s)]
      PROVE  /\ Shaped(d) /\ Elsewhere(b, d, p)
             /\ d.entry[p].status = s /\ d.entry[p].amount = o.amount
    <2>1. PICK e : e = Built(b, p, o, s)
        OBVIOUS
    <2>2. s \in Status
        BY DEF Status
    <2>3. Shape(e) /\ e.status = s /\ e.amount = o.amount
        BY <2>1, <2>2, BuiltShape
    <2>4. d = [b EXCEPT !.entry[p] = e]
        BY <1>3, <2>1
    <2>5. Shaped(d) /\ Elsewhere(b, d, p) /\ d.entry[p] = e
        BY <2>3, <2>4, EntrySet
    <2> QED
        BY <2>3, <2>5
<1>4. Inserted(t) \in Live
    BY DEF Inserted, Live
<1>5. CASE b.entry[p].status = "none"
    <2>1. c = NewPayment(b, p, o, t)
        BY <1>5 DEF Reconciled
    <2>2. CASE t.payments /\ o.type = "TRANSFER" /\ Buildable(b, o)
        <3>1. c = [b EXCEPT !.entry[p] = Built(b, p, o, Inserted(t))]
            BY <2>1, <2>2 DEF NewPayment
        <3>2. /\ Shaped(c) /\ Elsewhere(b, c, p)
              /\ c.entry[p].status \in Live /\ c.entry[p].amount = o.amount
            BY <1>3, <1>4, <3>1
        <3> QED
            BY <1>5, <2>2, <3>2
    <2>3. CASE ~(t.payments /\ o.type = "TRANSFER" /\ Buildable(b, o))
        <3>1. c = b
            BY <2>1, <2>3 DEF NewPayment
        <3> QED
            BY <1>1, <1>5, <2>3, <3>1 DEF Buildable, Live
    <2> QED
        BY <2>2, <2>3
<1>6. CASE b.entry[p].status # "none"
    <2> DEFINE built == Built(b, p, o, b.entry[p].status)
    <2>1. c = KnownPayment(b, p, o, t)
        BY <1>6 DEF Reconciled
    <2>2. CASE o.terminal \/ o.type = "CARD_TRANSACTION"
        <3>1. c = RemoveEntry(b, p)
            BY <2>1, <2>2 DEF KnownPayment
        <3>2. /\ Shaped(c) /\ Elsewhere(b, c, p) /\ c.entry[p].status \notin Live
              /\ b.entry[p].status = "cancelled" => c = b
            BY <3>1, RemoveShape, Zenon
        <3> QED
            BY <2>2, <3>2 DEF Live
    <2>3. CASE /\ ~o.terminal /\ o.type # "CARD_TRANSACTION"
               /\ Buildable(b, o) /\ built # b.entry[p] /\ b.entry[p].status \in Live
        <3>1. PICK s : s = IF b.entry[p].status = "draft" THEN "draft" ELSE Inserted(t)
            OBVIOUS
        <3>2. s \in Live
            BY <1>4, <3>1 DEF Live
        <3>3. [built EXCEPT !.status = s] = Built(b, p, o, s)
            BY BuiltAgain
        <3>4. c = [b EXCEPT !.entry[p] = [built EXCEPT !.status = s]]
            BY <2>1, <2>3, <3>1 DEF KnownPayment
        <3>5. /\ Shaped(c) /\ Elsewhere(b, c, p)
              /\ c.entry[p].status \in Live /\ c.entry[p].amount = o.amount
            <4>1. c = [b EXCEPT !.entry[p] = Built(b, p, o, s)]
                BY <3>3, <3>4, Zenon
            <4> QED
                BY <1>3, <3>2, <4>1
        <3> QED
            BY <2>3, <3>5 DEF Live
    <2>4. CASE /\ ~o.terminal /\ o.type # "CARD_TRANSACTION"
               /\ ~(Buildable(b, o) /\ built # b.entry[p] /\ b.entry[p].status \in Live)
        <3>1. c = b
            BY <2>1, <2>4 DEF KnownPayment
        <3>2. built = b.entry[p] => b.entry[p].amount = o.amount
            BY <1>2, BuiltShape
        <3> QED
            BY <1>1, <1>2, <1>6, <2>4, <3>1, <3>2 DEF Buildable, Status
    <2> QED
        BY <2>2, <2>3, <2>4
<1> QED
    BY <1>5, <1>6

\* The last loop takes the entries of payments the payload does not have.
LEMMA WithdrawnEffect ==
    ASSUME NEW b, Shaped(b), NEW s, NEW c, c = Withdrawn(b, s)
    PROVE  /\ Shaped(c) /\ c.invoice = b.invoice
           /\ \A p \in Payment :
                /\ p \in Paid(s) \/ b.entry[p].status = "cancelled" => c.entry[p] = b.entry[p]
                /\ p \notin Paid(s) => ~(c.entry[p].status \in Live /\ c.entry[p].allocated > 0)
<1>1. PICK f : f = [p \in Payment |->
            IF p \in Linked(b) \ Paid(s) THEN RemoveEntry(b, p).entry[p] ELSE b.entry[p]]
    OBVIOUS
<1>2. c = [b EXCEPT !.entry = f]
    BY <1>1 DEF Withdrawn
<1>3. c.invoice = b.invoice /\ c.byHand = b.byHand /\ c.entry = f
        /\ c = [invoice |-> c.invoice, entry |-> c.entry, byHand |-> c.byHand]
    BY <1>2 DEF Shaped
<1>4. ASSUME NEW p \in Payment
      PROVE  /\ f[p] = b.entry[p] \/ (f[p] = RemoveEntry(b, p).entry[p] /\ p \notin Paid(s))
             /\ p \notin Paid(s) => ~(f[p].status \in Live /\ f[p].allocated > 0)
    <2>1. CASE p \in Linked(b) \ Paid(s)
        BY <1>1, <2>1, RemoveShape
    <2>2. CASE p \notin Linked(b) \ Paid(s)
        BY <1>1, <2>2 DEF Linked, Live
    <2> QED
        BY <2>1, <2>2
<1>5. ASSUME NEW p \in Payment
      PROVE  Shape(f[p])
    BY <1>4, RemoveShape DEF Shaped
<1>6. f = [p \in Payment |-> f[p]]
    BY <1>1
<1>7. Shaped(c)
    BY <1>3, <1>5, <1>6 DEF Shaped
<1> QED
    BY <1>3, <1>4, <1>7, RemoveShape

-----------------------------------------------------------------------------
(* The running import *)

\* Of what the payload s has said, b has no card transactions and, the
\* settings t and the invoice given, all transfers.
Mirrored(b, s, t) ==
    \A i \in DOMAIN s :
        LET entry == b.entry[s[i].payment]
            o == s[i].seen
        IN  /\ o.type = "CARD_TRANSACTION" => entry.status \notin Live
            /\ /\ t.payments /\ b.invoice = "submitted"
               /\ o.type = "TRANSFER" /\ ~o.terminal /\ o.amount > 0
               => \/ entry.status = "cancelled"
                  \/ entry.status \in Live /\ entry.amount = o.amount

Line == [payment: Payment, seen: Observation]

Followed ==
    /\ Shaped(books)
    /\ job.pc \in {"idle", "importing"}
    /\ job = [pc |-> job.pc, payload |-> job.payload, settings |-> job.settings]
    /\ job.settings \in Settings /\ job.payload \in Seq(Line)
    /\ job.pc = "importing" => Mirrored(books, job.payload, job.settings)

LEMMA ImportFollows ==
    ASSUME Followed, NEW p \in Payment, NEW o \in Observation, ImportPayment(p, o)
    PROVE  /\ Followed'
           /\ job'.pc = "importing"
           /\ \A q \in Payment : books.entry[q].status = "cancelled" => books'.entry[q] = books.entry[q]
<1>1. PICK c : c = Reconciled(books, p, o, job.settings)
    OBVIOUS
<1>2. books' = c
    BY <1>1 DEF ImportPayment
<1>3. /\ Shaped(c) /\ Elsewhere(books, c, p)
      /\ books.entry[p].status = "cancelled" => c = books
      /\ o.type = "CARD_TRANSACTION" => c.entry[p].status \notin Live
      /\ /\ job.settings.payments /\ books.invoice = "submitted"
         /\ o.type = "TRANSFER" /\ ~o.terminal /\ o.amount > 0
         => \/ c.entry[p].status = "cancelled"
            \/ c.entry[p].status \in Live /\ c.entry[p].amount = o.amount
    BY <1>1, ReconciledEffect DEF Followed
<1>4. PICK l : l = [payment |-> p, seen |-> o]
    OBVIOUS
<1>5. l \in Line /\ l.payment = p /\ l.seen = o
    BY <1>4 DEF Line
<1>6. PICK s : s = Append(job.payload, l)
    OBVIOUS
<1>7. s \in Seq(Line) /\ job.payload \in Seq(Line)
    BY <1>5, <1>6 DEF Followed
<1>8. job' = [pc |-> "importing", payload |-> s, settings |-> job.settings]
    BY <1>4, <1>6 DEF ImportPayment, Followed
<1>9. ASSUME NEW i \in DOMAIN s
      PROVE  \/ s[i] = l
             \/ i \in DOMAIN job.payload /\ s[i] = job.payload[i] /\ s[i].payment \in Payment \ {p}
    <2>1. \/ s[i] = l
          \/ i \in DOMAIN job.payload /\ s[i] = job.payload[i]
        BY <1>5, <1>6, <1>7
    <2>2. ASSUME NEW k \in DOMAIN job.payload
          PROVE  job.payload[k].payment \in Payment /\ job.payload[k].payment # p
        <3>1. job.payload[k] \in Line
            BY <1>7
        <3>2. job.payload[k].payment \in Paid(job.payload)
            BY DEF Paid
        <3> QED
            BY <3>1, <3>2 DEF Line, ImportPayment
    <2> QED
        BY <2>1, <2>2
<1>10. Mirrored(books, job.payload, job.settings)
    BY DEF ImportPayment, Followed
<1>11. Mirrored(c, s, job.settings)
    <2> SUFFICES ASSUME NEW i \in DOMAIN s
                 PROVE  /\ s[i].seen.type = "CARD_TRANSACTION" => c.entry[s[i].payment].status \notin Live
                        /\ /\ job.settings.payments /\ c.invoice = "submitted"
                           /\ s[i].seen.type = "TRANSFER" /\ ~s[i].seen.terminal /\ s[i].seen.amount > 0
                           => \/ c.entry[s[i].payment].status = "cancelled"
                              \/ /\ c.entry[s[i].payment].status \in Live
                                 /\ c.entry[s[i].payment].amount = s[i].seen.amount
        BY DEF Mirrored
    <2>1. CASE s[i] = l
        BY <2>1, <1>3, <1>5 DEF Elsewhere
    <2>2. CASE i \in DOMAIN job.payload /\ s[i] = job.payload[i] /\ s[i].payment \in Payment \ {p}
        <3>1. c.entry[s[i].payment] = books.entry[s[i].payment] /\ c.invoice = books.invoice
            BY <2>2, <1>3 DEF Elsewhere
        <3> QED
            BY <2>2, <3>1, <1>10 DEF Mirrored
    <2> QED
        BY <2>1, <2>2, <1>9
<1>12. \A q \in Payment : books.entry[q].status = "cancelled" => c.entry[q] = books.entry[q]
    BY <1>3 DEF Elsewhere
<1>13. Followed'
    BY <1>2, <1>3, <1>7, <1>8, <1>11 DEF Followed, Shaped, Shape, Mirrored
<1> QED
    BY <1>2, <1>8, <1>12, <1>13

LEMMA FinishFollows ==
    ASSUME Followed, FinishImport
    PROVE  /\ Followed' /\ job'.pc = "idle" /\ NotBookedTwice' /\ TransfersBooked'
           /\ \A q \in Payment : books.entry[q].status = "cancelled" => books'.entry[q] = books.entry[q]
<1>1. PICK s : s = job.payload
    OBVIOUS
<1>2. PICK t : t = job.settings
    OBVIOUS
<1>3. PICK c : c = Withdrawn(books, s)
    OBVIOUS
<1>4. s \in Seq(Line) /\ t \in Settings /\ Mirrored(books, s, t)
    BY <1>1, <1>2 DEF Followed, FinishImport
<1>5. books' = c /\ lastImport' = [payload |-> s, settings |-> t] /\ job' = Idle
    BY <1>1, <1>2, <1>3 DEF FinishImport
<1>6. /\ Shaped(c) /\ c.invoice = books.invoice
      /\ \A p \in Payment :
            /\ p \in Paid(s) \/ books.entry[p].status = "cancelled" => c.entry[p] = books.entry[p]
            /\ p \notin Paid(s) => ~(c.entry[p].status \in Live /\ c.entry[p].allocated > 0)
    BY <1>3, WithdrawnEffect DEF Followed
<1>7. \A i \in DOMAIN s : s[i].payment \in Payment \cap Paid(s)
    <2> SUFFICES ASSUME NEW i \in DOMAIN s PROVE s[i].payment \in Payment \cap Paid(s)
        OBVIOUS
    <2>1. s[i] \in Line
        BY <1>4
    <2> QED
        BY <2>1 DEF Paid, Line
<1>8. Mirrored(c, s, t)
    <2> SUFFICES ASSUME NEW i \in DOMAIN s
                 PROVE  /\ s[i].seen.type = "CARD_TRANSACTION" => c.entry[s[i].payment].status \notin Live
                        /\ /\ t.payments /\ c.invoice = "submitted"
                           /\ s[i].seen.type = "TRANSFER" /\ ~s[i].seen.terminal /\ s[i].seen.amount > 0
                           => \/ c.entry[s[i].payment].status = "cancelled"
                              \/ /\ c.entry[s[i].payment].status \in Live
                                 /\ c.entry[s[i].payment].amount = s[i].seen.amount
        BY DEF Mirrored
    <2>1. c.entry[s[i].payment] = books.entry[s[i].payment]
        BY <1>6, <1>7
    <2> QED
        BY <2>1, <1>4, <1>6 DEF Mirrored
<1>9. \A p \in Payment \ Paid(s) : ~(c.entry[p].status \in Live /\ c.entry[p].allocated > 0)
    BY <1>6
<1>10. NotBookedTwice' /\ TransfersBooked'
    <2>1. lastImport'.payload = s /\ lastImport'.settings = t
        BY <1>5
    <2>2. ASSUME NEW x \in LastSeen'
          PROVE  \E i \in DOMAIN s : x = s[i]
        BY <2>1, <2>2 DEF LastSeen
    <2> QED
        BY <2>1, <2>2, <1>5, <1>8, <1>9 DEF NotBookedTwice, TransfersBooked, Mirrored
<1>11. Followed' /\ job'.pc = "idle"
    <2>1. Idle.pc = "idle" /\ Idle.payload = <<>> /\ Idle.settings \in Settings
          /\ Idle = [pc |-> Idle.pc, payload |-> Idle.payload, settings |-> Idle.settings]
        BY DEF Idle, Settings
    <2> QED
        BY <2>1, <1>5, <1>6, EmptySeq DEF Followed, Shaped, Shape
<1> QED
    BY <1>5, <1>6, <1>10, <1>11

\* An entry that was cancelled in b is so in c, or deleted.
CancelledKept(b, c) ==
    \A p \in Payment : b.entry[p].status = "cancelled" =>
        c.entry[p] = b.entry[p] \/ c.entry[p] = NoEntry

\* Accountants and imported transfers leave entries behind, and no claim about
\* the last import.
LEMMA OutsideFollows ==
    ASSUME Followed,
           \/ \E p \in Payment, n \in 1..Total, t \in Settings : ImportTransfer(p, n, t)
           \/ SubmitInvoice
           \/ \E p \in Payment : SubmitEntry(p) \/ CancelEntry(p) \/ DeleteEntry(p)
           \/ \E n \in 1..Total : PayInvoice(n)
    PROVE  /\ Followed' /\ lastImport' = NoImport /\ job.pc = "idle"
           /\ CancelledKept(books, books')
<1>1. lastImport' = NoImport /\ job.pc = "idle" /\ job' = job
    BY DEF ImportTransfer, SubmitInvoice, SubmitEntry, CancelEntry, DeleteEntry, PayInvoice, ByHand
<1>2. Shaped(books') /\ CancelledKept(books, books')
    <2>1. ASSUME NEW p \in Payment, NEW e, Shape(e), books' = [books EXCEPT !.entry[p] = e],
                 books.entry[p].status # "cancelled" \/ e = NoEntry
          PROVE  Shaped(books') /\ CancelledKept(books, books')
        <3>1. PICK c : c = [books EXCEPT !.entry[p] = e]
            OBVIOUS
        <3>2. Shaped(c) /\ Elsewhere(books, c, p) /\ c.entry[p] = e
            BY <2>1, <3>1, EntrySet DEF Followed
        <3>3. CancelledKept(books, c)
            BY <2>1, <3>2 DEF CancelledKept, Elsewhere
        <3> QED
            BY <2>1, <3>1, <3>2, <3>3
    <2>2. ASSUME NEW p \in Payment, NEW s \in Status, books' = [books EXCEPT !.entry[p].status = s],
                 books.entry[p].status # "cancelled"
          PROVE  Shaped(books') /\ CancelledKept(books, books')
        <3>1. PICK e : e = [status |-> s, amount |-> books.entry[p].amount,
                            allocated |-> books.entry[p].allocated]
            OBVIOUS
        <3>2. Shape(e)
            BY <3>1 DEF Shape
        <3>3. [books.entry[p] EXCEPT !.status = s] = e
            <4>1. Shape(books.entry[p])
                BY DEF Followed, Shaped
            <4>2. PICK f : f = books.entry[p]
                OBVIOUS
            <4>3. f = [status |-> f.status, amount |-> f.amount, allocated |-> f.allocated]
                BY <4>1, <4>2 DEF Shape
            <4>4. [f EXCEPT !.status = s] = [status |-> s, amount |-> f.amount, allocated |-> f.allocated]
                BY <4>3
            <4> QED
                BY <3>1, <4>2, <4>4, Zenon
        <3>4. books' = [books EXCEPT !.entry[p] = [books.entry[p] EXCEPT !.status = s]]
            BY <2>2
        <3>5. books' = [books EXCEPT !.entry[p] = e]
            BY <3>3, <3>4, Zenon
        <3> QED
            BY <2>1, <2>2, <3>2, <3>5
    <2>3. CASE SubmitInvoice
        <3>1. books' = [invoice |-> "submitted", entry |-> books.entry, byHand |-> books.byHand]
            BY <2>3 DEF SubmitInvoice, Followed, Shaped
        <3> QED
            BY <3>1 DEF Followed, Shaped, CancelledKept
    <2>4. ASSUME NEW p \in Payment, SubmitEntry(p) \/ CancelEntry(p)
          PROVE  Shaped(books') /\ CancelledKept(books, books')
        BY <2>2, <2>4 DEF SubmitEntry, CancelEntry, Status, Live
    <2>5. ASSUME NEW p \in Payment, DeleteEntry(p)
          PROVE  Shaped(books') /\ CancelledKept(books, books')
        BY <2>1, <2>5, NoEntryShape DEF DeleteEntry
    <2>6. ASSUME NEW n \in 1..Total, PayInvoice(n)
          PROVE  Shaped(books') /\ CancelledKept(books, books')
        <3>1. books' = [invoice |-> books.invoice, entry |-> books.entry, byHand |-> books.byHand + n]
            BY <2>6 DEF PayInvoice, Followed, Shaped
        <3> QED
            BY <3>1 DEF Followed, Shaped, CancelledKept
    <2>7. ASSUME NEW p \in Payment, NEW n \in 1..Total, NEW t \in Settings, ImportTransfer(p, n, t)
          PROVE  Shaped(books') /\ CancelledKept(books, books')
        <3>1. PICK e : e = [status |-> Inserted(t), amount |-> n, allocated |-> 0]
            OBVIOUS
        <3>2. Shape(e)
            BY <3>1 DEF Shape, Inserted, Status, Live
        <3>3. books' = [books EXCEPT !.entry[p] = e] /\ books.entry[p].status # "cancelled"
            BY <2>7, <3>1 DEF ImportTransfer
        <3> QED
            BY <2>1, <3>2, <3>3
    <2> QED
        BY <2>3, <2>4, <2>5, <2>6, <2>7
<1>3. Shaped(books)'
    BY <1>2 DEF Shaped, Shape
<1> QED
    BY <1>1, <1>2, <1>3 DEF Followed, Mirrored

LEMMA BeginFollows ==
    ASSUME Followed, NEW t \in Settings, BeginImport(t)
    PROVE  /\ Followed' /\ lastImport' = NoImport /\ job.pc = "idle"
           /\ books'.entry = books.entry
<1>1. PICK c : c = books'
    OBVIOUS
<1>2. Shaped(c) /\ c.entry = books.entry
    <2>1. CASE books.invoice = "none"
        <3>1. c = [invoice |-> Inserted(t), entry |-> books.entry, byHand |-> books.byHand]
            BY <1>1, <2>1 DEF BeginImport, Followed, Shaped
        <3> QED
            BY <3>1 DEF Followed, Shaped
    <2>2. CASE books.invoice # "none"
        BY <1>1, <2>2 DEF BeginImport, Followed
    <2> QED
        BY <2>1, <2>2
<1>3. job' = [pc |-> "importing", payload |-> <<>>, settings |-> t]
    BY DEF BeginImport
<1>4. Mirrored(c, <<>>, t)
    BY DEF Mirrored
<1> QED
    BY <1>1, <1>2, <1>3, <1>4, EmptySeq DEF BeginImport, Followed, Shaped, Shape, Mirrored

BillInv == Followed /\ NotBookedTwice /\ TransfersBooked

LEMMA NothingImported ==
    ASSUME job.pc # "idle" \/ lastImport = NoImport
    PROVE  NotBookedTwice /\ TransfersBooked
    BY DEF NotBookedTwice, TransfersBooked, JustImported

\* One step: the invariant holds, and a cancelled entry stays or is deleted.
LEMMA BillStep ==
    ASSUME BillInv, [Next]_vars
    PROVE  /\ BillInv'
           /\ \A p \in Payment : books.entry[p].status = "cancelled" =>
                    \/ books'.entry[p] = books.entry[p]
                    \/ job.pc = "idle" /\ books'.entry[p] = NoEntry
<1>1. Followed
    BY DEF BillInv
<1>2. ASSUME job'.pc # "idle" \/ lastImport' = NoImport
      PROVE  NotBookedTwice' /\ TransfersBooked'
    BY <1>2 DEF NotBookedTwice, TransfersBooked, JustImported
<1>3. ASSUME NEW t \in Settings, BeginImport(t)
      PROVE  Followed' /\ lastImport' = NoImport /\ books'.entry = books.entry
    BY <1>1, <1>3, BeginFollows
<1>4. ASSUME NEW p \in Payment, NEW o \in Observation, ImportPayment(p, o)
      PROVE  /\ Followed' /\ job'.pc = "importing"
             /\ \A q \in Payment : books.entry[q].status = "cancelled" => books'.entry[q] = books.entry[q]
    BY <1>1, <1>4, ImportFollows
<1>5. CASE FinishImport
    BY <1>1, <1>5, FinishFollows DEF BillInv
<1>6. CASE \/ \E p \in Payment, n \in 1..Total, t \in Settings : ImportTransfer(p, n, t)
           \/ SubmitInvoice
           \/ \E p \in Payment : SubmitEntry(p) \/ CancelEntry(p) \/ DeleteEntry(p)
           \/ \E n \in 1..Total : PayInvoice(n)
    <2>1. /\ Followed' /\ lastImport' = NoImport /\ job.pc = "idle"
          /\ CancelledKept(books, books')
        BY <1>1, <1>6, OutsideFollows
    <2> QED
        BY <2>1, <1>2 DEF BillInv, CancelledKept
<1>7. CASE UNCHANGED vars
    <2>1. books' = books /\ job' = job /\ lastImport' = lastImport
        BY <1>7 DEF vars
    <2>2. BillInv'
        BY <2>1 DEF BillInv, Followed, Shaped, Shape, Mirrored, NotBookedTwice, TransfersBooked,
                    JustImported, LastSeen
    <2> QED
        BY <2>1, <2>2
<1> QED
    BY <1>2, <1>3, <1>4, <1>5, <1>6, <1>7 DEF Next, BillInv

LEMMA BillInvariant == Spec => []BillInv
<1>1. Init => BillInv
    <2> SUFFICES ASSUME Init PROVE BillInv
        OBVIOUS
    <2>1. Shaped(books)
        BY NoEntryShape DEF Init, Shaped
    <2>2. /\ Idle.pc = "idle" /\ Idle.payload = <<>> /\ Idle.settings \in Settings
          /\ Idle = [pc |-> Idle.pc, payload |-> Idle.payload, settings |-> Idle.settings]
        BY DEF Idle, Settings
    <2>3. Followed
        BY <2>1, <2>2, EmptySeq DEF Init, Followed
    <2> QED
        BY <2>3, NothingImported DEF Init, BillInv
<1> QED
    BY <1>1, BillStep, PTL DEF Spec

\* After any import of any payload no entry is allocated for a payment the
\* bill no longer has, and none is left for a card transaction.
THEOREM NeverBookedTwice == Spec => []NotBookedTwice
    BY BillInvariant, PTL DEF BillInv

\* After any import with payments switched on every transfer has its entry,
\* whatever was drafted, amended, paid or withdrawn before.
THEOREM TransfersAreBooked == Spec => []TransfersBooked
    BY BillInvariant, PTL DEF BillInv

\* No import of a bill or a transfer, no amendment and no withdrawal touches an
\* entry an accountant cancelled.
THEOREM CancelledStays == Spec => CancelledByHandStays
<1>1. BillInv /\ [Next]_vars =>
        [\A p \in Payment : books.entry[p].status = "cancelled" =>
                \/ books'.entry[p] = books.entry[p]
                \/ job.pc = "idle" /\ books'.entry[p] = NoEntry]_vars
    BY BillStep
<1> QED
    BY <1>1, BillInvariant, PTL DEF Spec, CancelledByHandStays

-----------------------------------------------------------------------------
(* Maximum and minimum of two numbers *)

LEMMA MaxOf ==
    ASSUME NEW m \in Int, NEW n \in Int
    PROVE  Max({m, n}) = IF m >= n THEN m ELSE n
<1>1. PICK k \in {m, n} : \A y \in {m, n} : k >= y
    <2>1. CASE m >= n
        BY <2>1
    <2>2. CASE ~(m >= n)
        BY <2>2
    <2> QED
        BY <2>1, <2>2
<1>2. PICK x : x = CHOOSE z \in {m, n} : \A y \in {m, n} : z >= y
    OBVIOUS
<1>3. x \in {m, n} /\ \A y \in {m, n} : x >= y
    BY <1>1, <1>2, Zenon
<1>4. Max({m, n}) = x
    BY <1>2 DEF Max
<1> QED
    BY <1>3, <1>4

LEMMA MinOf ==
    ASSUME NEW m \in Int, NEW n \in Int
    PROVE  Min({m, n}) = IF m <= n THEN m ELSE n
<1>1. PICK k \in {m, n} : \A y \in {m, n} : k =< y
    <2>1. CASE m <= n
        BY <2>1
    <2>2. CASE ~(m <= n)
        BY <2>2
    <2> QED
        BY <2>1, <2>2
<1>2. PICK x : x = CHOOSE z \in {m, n} : \A y \in {m, n} : z =< y
    OBVIOUS
<1>3. x \in {m, n} /\ \A y \in {m, n} : x =< y
    BY <1>1, <1>2, Zenon
<1>4. Min({m, n}) = x
    BY <1>2 DEF Min
<1> QED
    BY <1>3, <1>4

-----------------------------------------------------------------------------
(* The sums of the books *)

LEMMA ZeroPlus == ASSUME NEW n \in Nat PROVE 0 + n = n
    OBVIOUS

\* What entry e allocates towards the sum of the entries with this status.
Share(e, status) == IF e.status = status THEN e.allocated ELSE 0

Having(b, status, P) == {p \in P : b.entry[p].status = status}

LEMMA AllocatedIs ==
    ASSUME NEW b, NEW status, NEW P \in SUBSET Payment, \A p \in Payment : b.entry[p].allocated \in Nat
    PROVE  Allocated(b, status, P) =
                SumFunctionOnSet([p \in Payment |-> b.entry[p].allocated], Having(b, status, P))
<1>1. Allocated(b, status, P) =
            SumFunctionOnSet([p \in P |-> b.entry[p].allocated], Having(b, status, P))
    BY DEF Allocated, Having
<1>2. IsFiniteSet(Having(b, status, P))
    BY ObservationAssumption, FS_Subset DEF Having
<1>3. \A p \in Having(b, status, P) : [q \in P |-> b.entry[q].allocated][p] = [q \in Payment |-> b.entry[q].allocated][p]
    BY DEF Having
<1> QED
    BY <1>1, <1>2, <1>3, SumSame

LEMMA AllocatedSplit ==
    ASSUME NEW b, NEW status, NEW P \in SUBSET Payment, NEW p \in P,
           \A q \in Payment : b.entry[q].allocated \in Nat
    PROVE  /\ Allocated(b, status, P) \in Nat
           /\ Allocated(b, status, P \ {p}) \in Nat
           /\ Allocated(b, status, P) = Share(b.entry[p], status) + Allocated(b, status, P \ {p})
<1>1. PICK f : f = [q \in Payment |-> b.entry[q].allocated]
    OBVIOUS
<1>2. PICK S : S = Having(b, status, P)
    OBVIOUS
<1>3. IsFiniteSet(S) /\ S \in SUBSET Payment /\ (\A q \in Payment : f[q] \in Nat)
    BY <1>1, <1>2, ObservationAssumption, FS_Subset DEF Having
<1>4. Allocated(b, status, P) = SumFunctionOnSet(f, S)
    BY <1>1, <1>2, AllocatedIs
<1>5. Allocated(b, status, P \ {p}) = SumFunctionOnSet(f, S \ {p})
    <2>1. Having(b, status, P \ {p}) = S \ {p}
        BY <1>2 DEF Having
    <2> QED
        BY <1>1, <2>1, AllocatedIs
<1>6. SumFunctionOnSet(f, S) \in Nat /\ SumFunctionOnSet(f, S \ {p}) \in Nat
    <2>1. IsFiniteSet(S \ {p}) /\ (\A q \in S \ {p} : f[q] \in Nat) /\ (\A q \in S : f[q] \in Nat)
        BY <1>3, FS_RemoveElement
    <2> QED
        BY <1>3, <2>1, SumNat
<1>7. CASE p \in S
    <2>1. SumFunctionOnSet(f, S) = f[p] + SumFunctionOnSet(f, S \ {p})
        BY <1>3, <1>7, SumRemove
    <2>2. Share(b.entry[p], status) = f[p]
        BY <1>1, <1>2, <1>7 DEF Share, Having
    <2> QED
        BY <1>4, <1>5, <1>6, <2>1, <2>2, Zenon
<1>8. CASE p \notin S
    <2>1. S \ {p} = S /\ Share(b.entry[p], status) = 0
        BY <1>2, <1>8 DEF Share, Having
    <2>2. PICK n \in Nat : n = Allocated(b, status, P) /\ n = Allocated(b, status, P \ {p})
        BY <1>4, <1>5, <1>6, <2>1, Zenon
    <2>3. 0 + n = n
        BY ZeroPlus
    <2> QED
        BY <2>1, <2>2, <2>3, Zenon
<1> QED
    BY <1>7, <1>8

\* Entries with the same status and amounts have the same sum.
LEMMA AllocatedSame ==
    ASSUME NEW b, NEW c, NEW status, NEW P \in SUBSET Payment,
           \A p \in Payment : b.entry[p].allocated \in Nat /\ c.entry[p].allocated \in Nat,
           \A p \in P : c.entry[p] = b.entry[p]
    PROVE  Allocated(c, status, P) = Allocated(b, status, P)
<1>1. Having(c, status, P) = Having(b, status, P) /\ IsFiniteSet(Having(b, status, P))
    BY ObservationAssumption, FS_Subset DEF Having
<1>2. \A p \in Having(b, status, P) :
        [q \in Payment |-> b.entry[q].allocated][p] = [q \in Payment |-> c.entry[q].allocated][p]
    BY DEF Having
<1>3. SumFunctionOnSet([q \in Payment |-> b.entry[q].allocated], Having(b, status, P)) =
        SumFunctionOnSet([q \in Payment |-> c.entry[q].allocated], Having(b, status, P))
    BY <1>1, <1>2, SumSame
<1>4. /\ Allocated(b, status, P) =
            SumFunctionOnSet([q \in Payment |-> b.entry[q].allocated], Having(b, status, P))
      /\ Allocated(c, status, P) =
            SumFunctionOnSet([q \in Payment |-> c.entry[q].allocated], Having(c, status, P))
    BY AllocatedIs
<1> QED
    BY <1>1, <1>3, <1>4, Zenon

\* Fewer entries have no greater sum.
LEMMA AllocatedLess ==
    ASSUME NEW b, NEW c, NEW status,
           \A p \in Payment : b.entry[p].allocated \in Nat /\ c.entry[p].allocated \in Nat,
           \A p \in Payment : c.entry[p].status = status => c.entry[p] = b.entry[p]
    PROVE  /\ Allocated(c, status, Payment) <= Allocated(b, status, Payment)
           /\ Allocated(b, status, Payment) \in Nat /\ Allocated(c, status, Payment) \in Nat
<1>1. PICK S : S = Having(c, status, Payment)
    OBVIOUS
<1>2. PICK T : T = Having(b, status, Payment)
    OBVIOUS
<1>3. PICK f : f = [q \in Payment |-> b.entry[q].allocated]
    OBVIOUS
<1>4. S \in SUBSET T /\ IsFiniteSet(T) /\ IsFiniteSet(S) /\ T \in SUBSET Payment
    BY <1>1, <1>2, ObservationAssumption, FS_Subset DEF Having
<1>5. \A q \in S : [p \in Payment |-> c.entry[p].allocated][q] = f[q]
    BY <1>1, <1>3 DEF Having
<1>6. Allocated(b, status, Payment) = SumFunctionOnSet(f, T)
    BY <1>2, <1>3, AllocatedIs
<1>7. Allocated(c, status, Payment) = SumFunctionOnSet(f, S)
    <2>1. Allocated(c, status, Payment) = SumFunctionOnSet([p \in Payment |-> c.entry[p].allocated], S)
        BY <1>1, AllocatedIs
    <2> QED
        BY <2>1, <1>4, <1>5, SumSame
<1>8. \A q \in T : f[q] \in Nat
    BY <1>3, <1>4
<1>9. SumFunctionOnSet(f, S) <= SumFunctionOnSet(f, T)
    BY <1>4, <1>8, SumSubset
<1>10. SumFunctionOnSet(f, S) \in Nat /\ SumFunctionOnSet(f, T) \in Nat
    <2>1. \A q \in S : f[q] \in Nat
        BY <1>4, <1>8
    <2> QED
        BY <2>1, <1>4, <1>8, SumNat
<1> QED
    BY <1>6, <1>7, <1>9, <1>10

-----------------------------------------------------------------------------
(* One entry changes *)

LEMMA TotalIsNat == Total \in Nat
    BY ObservationAssumption

Submitted(b) == Allocated(b, "submitted", Payment)
Drafted(b) == Allocated(b, "draft", Payment)

\* Submitted allocations fit what is not paid by hand, and with the drafts
\* they fit the invoice.
Fits(b) == Submitted(b) <= Total - b.byHand /\ Drafted(b) + Submitted(b) <= Total

LEMMA BooksShaped == ASSUME NEW b \in Books PROVE Shaped(b)
    BY DEF Books, Entry, Shaped, Shape, Status

LEMMA EntryTyped ==
    ASSUME NEW b \in Books, NEW p \in Payment, NEW e \in Entry
    PROVE  /\ [b EXCEPT !.entry[p] = e] \in Books
           /\ [b EXCEPT !.entry[p] = e].byHand = b.byHand
           /\ [b EXCEPT !.entry[p] = e].entry[p] = e
           /\ Elsewhere(b, [b EXCEPT !.entry[p] = e], p)
    BY DEF Books, Elsewhere

LEMMA AllocatedOne ==
    ASSUME NEW b \in Books, NEW status, NEW p \in Payment
    PROVE  Allocated(b, status, {p}) = Share(b.entry[p], status)
<1>1. \A q \in Payment : b.entry[q].allocated \in Nat
    BY DEF Books, Entry
<1>2. Allocated(b, status, {p}) = Share(b.entry[p], status) + Allocated(b, status, {p} \ {p})
    BY <1>1, AllocatedSplit
<1>3. Allocated(b, status, {p} \ {p}) = 0
    <2>1. {p} \ {p} = {} /\ Having(b, status, {}) = {}
        BY DEF Having
    <2>2. Allocated(b, status, {}) = SumFunctionOnSet([q \in Payment |-> b.entry[q].allocated], {})
        BY <1>1, <2>1, AllocatedIs
    <2> QED
        BY <2>1, <2>2, SumEmpty
<1>4. Share(b.entry[p], status) \in Nat
    BY <1>1 DEF Share
<1> QED
    BY <1>2, <1>3, <1>4

\* What the other entries allocate stays: a submitted and d in drafts.
LEMMA EntryAmounts ==
    ASSUME NEW b \in Books, NEW c \in Books, NEW p \in Payment, Elsewhere(b, c, p)
    PROVE  \E a, d \in Nat :
              /\ Submitted(b) = Share(b.entry[p], "submitted") + a
              /\ Submitted(c) = Share(c.entry[p], "submitted") + a
              /\ Drafted(b) = Share(b.entry[p], "draft") + d
              /\ Drafted(c) = Share(c.entry[p], "draft") + d
              /\ Available(b, p) = Max({0, Total - b.byHand - a - d})
<1>1. \A q \in Payment \ {p} : c.entry[q] = b.entry[q]
    BY DEF Elsewhere
<1>2. \A q \in Payment : b.entry[q].allocated \in Nat /\ c.entry[q].allocated \in Nat
    BY DEF Books, Entry
<1>3. ASSUME NEW status
      PROVE  \E n \in Nat :
                /\ n = Allocated(b, status, Payment \ {p})
                /\ Allocated(b, status, Payment) = Share(b.entry[p], status) + n
                /\ Allocated(c, status, Payment) = Share(c.entry[p], status) + n
    <2>0. Payment \ {p} \in SUBSET Payment /\ Payment \in SUBSET Payment
        OBVIOUS
    <2>1. PICK n \in Nat : n = Allocated(b, status, Payment \ {p})
        BY <1>2, <2>0, AllocatedSplit
    <2>2. Allocated(b, status, Payment) = Share(b.entry[p], status) + n
        BY <1>2, <2>0, <2>1, AllocatedSplit
    <2>3. Allocated(c, status, Payment \ {p}) = n
        <3>1. Allocated(c, status, Payment \ {p}) = Allocated(b, status, Payment \ {p})
            BY <1>1, <1>2, <2>0, AllocatedSame
        <3> QED
            BY <2>1, <3>1
    <2>4. Allocated(c, status, Payment) = Share(c.entry[p], status) + n
        <3>1. \A q \in Payment : c.entry[q].allocated \in Nat
            BY <1>2
        <3>2. Allocated(c, status, Payment) = Share(c.entry[p], status) + Allocated(c, status, Payment \ {p})
            BY <2>0, <3>1, AllocatedSplit
        <3> QED
            BY <2>3, <3>2
    <2> QED
        BY <2>1, <2>2, <2>4
<1>4. PICK a \in Nat :
            /\ Submitted(b) = Share(b.entry[p], "submitted") + a
            /\ Submitted(c) = Share(c.entry[p], "submitted") + a
    BY <1>3 DEF Submitted
<1>5. PICK d \in Nat :
            /\ d = Allocated(b, "draft", Payment \ {p})
            /\ Drafted(b) = Share(b.entry[p], "draft") + d
            /\ Drafted(c) = Share(c.entry[p], "draft") + d
    BY <1>3 DEF Drafted
<1>6. Available(b, p) = Max({0, Total - b.byHand - a - d})
    <2>1. PICK x \in Nat : x = Share(b.entry[p], "submitted")
        BY <1>2 DEF Share
    <2>2. PICK h \in Nat : h = b.byHand
        BY DEF Books
    <2>3. Outstanding(b) = Total - h - (x + a)
        BY <1>4, <2>1, <2>2, Zenon DEF Outstanding, Submitted
    <2>4. Allocated(b, "submitted", {p}) = x
        BY <2>1, AllocatedOne
    <2>5. Available(b, p) = Max({0, Total - h - (x + a) + x - d})
        BY <1>5, <2>3, <2>4, Zenon DEF Available
    <2>6. Total - h - (x + a) + x - d = Total - h - a - d
        BY TotalIsNat
    <2> QED
        BY <2>2, <2>5, <2>6, Zenon
<1> QED
    BY <1>4, <1>5, <1>6

\* An entry that allocates no more than is available fits.
LEMMA EntryFits ==
    ASSUME NEW b \in Books, NEW c \in Books, NEW p \in Payment, Elsewhere(b, c, p),
           Fits(b), c.byHand = b.byHand,
           \/ c.entry[p].status \notin Live
           \/ c.entry[p].allocated = 0
           \/ c.entry[p].allocated <= Available(b, p)
           \/ /\ c.entry[p].status = "submitted" /\ c.entry[p].allocated <= Outstanding(b)
              /\ b.entry[p].status = "draft" /\ c.entry[p].allocated = b.entry[p].allocated
    PROVE  Fits(c)
<1>1. c.byHand = b.byHand
    OBVIOUS
<1>2. PICK a \in Nat, d \in Nat :
              /\ Submitted(b) = Share(b.entry[p], "submitted") + a
              /\ Submitted(c) = Share(c.entry[p], "submitted") + a
              /\ Drafted(b) = Share(b.entry[p], "draft") + d
              /\ Drafted(c) = Share(c.entry[p], "draft") + d
              /\ Available(b, p) = Max({0, Total - b.byHand - a - d})
    BY EntryAmounts
<1>3. PICK h \in Nat : h = b.byHand
    BY DEF Books
<1>4. PICK x \in Nat, y \in Nat : x = Share(b.entry[p], "submitted") /\ y = Share(b.entry[p], "draft")
    BY DEF Share, Books, Entry
<1>5. PICK s \in Nat, t \in Nat : s = Share(c.entry[p], "submitted") /\ t = Share(c.entry[p], "draft")
    BY DEF Share, Books, Entry
<1>6. x + a <= Total - h /\ y + d + (x + a) <= Total
    BY <1>2, <1>3, <1>4, Zenon DEF Fits
<1>7. s + a <= Total - h /\ t + d + (s + a) <= Total
    <2>1. CASE c.entry[p].status \notin Live \/ c.entry[p].allocated = 0
        <3>1. s = 0 /\ t = 0
            BY <1>5, <2>1 DEF Share, Live
        <3> QED
            BY <1>6, <3>1, TotalIsNat
    <2>2. CASE c.entry[p].allocated <= Available(b, p) /\ c.entry[p].allocated # 0
        <3>1. PICK k : k = Total - h - a - d
            OBVIOUS
        <3>2. Available(b, p) = Max({0, k}) /\ k \in Int
            BY <1>2, <1>3, <3>1, TotalIsNat
        <3>3. c.entry[p].allocated <= k
            BY <2>2, <3>2, MaxOf DEF Books, Entry
        <3>4. s + t <= c.entry[p].allocated /\ c.entry[p].allocated \in Nat
            BY <1>5 DEF Share, Books, Entry
        <3> QED
            BY <1>6, <3>1, <3>3, <3>4, TotalIsNat
    <2>3. CASE /\ c.entry[p].status = "submitted" /\ c.entry[p].allocated <= Outstanding(b)
               /\ b.entry[p].status = "draft" /\ c.entry[p].allocated = b.entry[p].allocated
        <3>1. x = 0 /\ y = c.entry[p].allocated /\ s = c.entry[p].allocated /\ t = 0
            BY <1>4, <1>5, <2>3 DEF Share
        <3>2. Outstanding(b) = Total - h - (x + a)
            BY <1>2, <1>3, <1>4, Zenon DEF Outstanding, Submitted
        <3> QED
            BY <1>6, <2>3, <3>1, <3>2, TotalIsNat
    <2> QED
        BY <2>1, <2>2, <2>3
<1> QED
    BY <1>1, <1>2, <1>3, <1>5, <1>7, Zenon DEF Fits

LEMMA AvailableIsNat ==
    ASSUME NEW b \in Books, NEW p \in Payment
    PROVE  Available(b, p) \in Nat
<1>1. Elsewhere(b, b, p)
    BY DEF Elsewhere
<1>2. PICK a \in Nat, d \in Nat :
              /\ Submitted(b) = Share(b.entry[p], "submitted") + a
              /\ Submitted(b) = Share(b.entry[p], "submitted") + a
              /\ Drafted(b) = Share(b.entry[p], "draft") + d
              /\ Drafted(b) = Share(b.entry[p], "draft") + d
              /\ Available(b, p) = Max({0, Total - b.byHand - a - d})
    BY <1>1, EntryAmounts
<1>3. PICK k \in Int : k = Total - b.byHand - a - d
    BY TotalIsNat DEF Books
<1> QED
    BY <1>2, <1>3, MaxOf

\* What import_bill_payment does to one payment is at most one entry set to
\* something no greater than what is available.
LEMMA ReconciledEntry ==
    ASSUME NEW b \in Books, NEW p \in Payment, NEW o \in Observation, NEW t \in Settings,
           NEW c, c = Reconciled(b, p, o, t)
    PROVE  \/ c = b
           \/ \E e \in Entry :
                /\ e.status \notin Live \/ e.allocated <= Available(b, p)
                /\ c = [b EXCEPT !.entry[p] = e]
<1> DEFINE Placed == \E e \in Entry :
                        /\ e.status \notin Live \/ e.allocated <= Available(b, p)
                        /\ c = [b EXCEPT !.entry[p] = e]
<1>1. ASSUME NEW s \in Live
      PROVE  Built(b, p, o, s) \in Entry /\ Built(b, p, o, s).allocated <= Available(b, p)
    <2>1. PICK m \in Nat : m = o.amount
        BY ObservationAssumption
    <2>2. Available(b, p) \in Nat
        BY AvailableIsNat
    <2>3. Min({m, Available(b, p)}) \in Nat /\ Min({m, Available(b, p)}) <= Available(b, p)
        BY <2>2, MinOf
    <2> QED
        BY <2>1, <2>3 DEF Built, Entry
<1>2. NoEntry \in Entry /\ NoEntry.status \notin Live
    BY DEF NoEntry, Entry, Live
<1>3. Inserted(t) \in Live
    BY DEF Inserted, Live
<1>4. ASSUME c = RemoveEntry(b, p)
      PROVE  c = b \/ Placed
    BY <1>2, <1>4 DEF RemoveEntry
<1>5. ASSUME NEW s \in Live, c = [b EXCEPT !.entry[p] = Built(b, p, o, s)]
      PROVE  Placed
    BY <1>1, <1>5
<1>6. CASE b.entry[p].status = "none"
    BY <1>3, <1>5, <1>6 DEF Reconciled, NewPayment
<1>7. CASE b.entry[p].status # "none"
    <2> DEFINE built == Built(b, p, o, b.entry[p].status)
    <2>1. c = KnownPayment(b, p, o, t)
        BY <1>7 DEF Reconciled
    <2>2. CASE o.terminal \/ o.type = "CARD_TRANSACTION"
        BY <1>4, <2>1, <2>2 DEF KnownPayment
    <2>3. CASE /\ ~o.terminal /\ o.type # "CARD_TRANSACTION"
               /\ Buildable(b, o) /\ built # b.entry[p] /\ b.entry[p].status \in Live
        <3>1. PICK s : s = IF b.entry[p].status = "draft" THEN "draft" ELSE Inserted(t)
            OBVIOUS
        <3>2. s \in Live
            BY <1>3, <3>1 DEF Live
        <3>3. [built EXCEPT !.status = s] = Built(b, p, o, s)
            BY BuiltAgain
        <3>4. c = [b EXCEPT !.entry[p] = [built EXCEPT !.status = s]]
            BY <2>1, <2>3, <3>1 DEF KnownPayment
        <3> QED
            BY <1>5, <3>2, <3>3, <3>4, Zenon
    <2>4. CASE /\ ~o.terminal /\ o.type # "CARD_TRANSACTION"
               /\ ~(Buildable(b, o) /\ built # b.entry[p] /\ b.entry[p].status \in Live)
        BY <2>1, <2>4 DEF KnownPayment
    <2> QED
        BY <2>2, <2>3, <2>4
<1> QED
    BY <1>6, <1>7

LEMMA ReconciledFits ==
    ASSUME NEW b \in Books, Fits(b), NEW p \in Payment, NEW o \in Observation, NEW t \in Settings,
           NEW c, c = Reconciled(b, p, o, t)
    PROVE  c \in Books /\ Fits(c)
<1>1. CASE c = b
    BY <1>1
<1>2. ASSUME NEW e \in Entry, e.status \notin Live \/ e.allocated <= Available(b, p),
             c = [b EXCEPT !.entry[p] = e]
      PROVE  c \in Books /\ Fits(c)
    <2>1. c \in Books /\ c.byHand = b.byHand /\ c.entry[p] = e /\ Elsewhere(b, c, p)
        BY <1>2, EntryTyped
    <2> QED
        BY <1>2, <2>1, EntryFits
<1> QED
    BY <1>1, <1>2, ReconciledEntry

\* Withdrawals only take allocations away.
LEMMA WithdrawnLess ==
    ASSUME NEW b \in Books, NEW s, NEW c, c = Withdrawn(b, s)
    PROVE  /\ c \in Books /\ c.byHand = b.byHand
           /\ Submitted(c) <= Submitted(b) /\ Submitted(b) \in Nat /\ Submitted(c) \in Nat
           /\ Drafted(c) <= Drafted(b) /\ Drafted(b) \in Nat /\ Drafted(c) \in Nat
<1>1. PICK f : f = [p \in Payment |->
            IF p \in Linked(b) \ Paid(s) THEN RemoveEntry(b, p).entry[p] ELSE b.entry[p]]
    OBVIOUS
<1>2. c = [b EXCEPT !.entry = f]
    BY <1>1 DEF Withdrawn
<1>3. ASSUME NEW p \in Payment
      PROVE  f[p] = b.entry[p] \/ f[p] = NoEntry
    <2>1. RemoveEntry(b, p).entry[p] = b.entry[p] \/ RemoveEntry(b, p).entry[p] = NoEntry
        BY DEF RemoveEntry, Books
    <2> QED
        BY <1>1, <2>1
<1>4. f \in [Payment -> Entry]
    BY <1>1, <1>3 DEF Books, Entry, NoEntry
<1>5. c \in Books /\ c.entry = f /\ c.byHand = b.byHand
    BY <1>2, <1>4 DEF Books
<1>6. \A p \in Payment : b.entry[p].allocated \in Nat /\ c.entry[p].allocated \in Nat
    BY <1>5 DEF Books, Entry
<1>7. ASSUME NEW status \in Live
      PROVE  \A p \in Payment : c.entry[p].status = status => c.entry[p] = b.entry[p]
    BY <1>3, <1>5 DEF Live, NoEntry
<1>8. "submitted" \in Live /\ "draft" \in Live
    BY DEF Live
<1>9. /\ Submitted(c) <= Submitted(b) /\ Submitted(b) \in Nat /\ Submitted(c) \in Nat
      /\ Drafted(c) <= Drafted(b) /\ Drafted(b) \in Nat /\ Drafted(c) \in Nat
    BY <1>6, <1>7, <1>8, AllocatedLess DEF Submitted, Drafted
<1> QED
    BY <1>5, <1>9

LEMMA WithdrawnFits ==
    ASSUME NEW b \in Books, Fits(b), NEW s, NEW c, c = Withdrawn(b, s)
    PROVE  c \in Books /\ Fits(c)
<1>1. /\ c \in Books /\ c.byHand = b.byHand
      /\ Submitted(c) <= Submitted(b) /\ Submitted(b) \in Nat /\ Submitted(c) \in Nat
      /\ Drafted(c) <= Drafted(b) /\ Drafted(b) \in Nat /\ Drafted(c) \in Nat
    BY WithdrawnLess
<1>2. b.byHand \in Nat
    BY DEF Books
<1> QED
    BY <1>1, <1>2, TotalIsNat DEF Fits

-----------------------------------------------------------------------------
(* The invariant of the sums *)

LEMMA PaidFinite ==
    ASSUME NEW s \in Seq(Line)
    PROVE  Paid(s) \subseteq Payment /\ IsFiniteSet(Paid(s))
<1>1. ASSUME NEW i \in DOMAIN s
      PROVE  s[i].payment \in Payment
    <2>1. s[i] \in Line
        OBVIOUS
    <2> QED
        BY <2>1 DEF Line
<1>2. Paid(s) \subseteq Payment
    BY <1>1 DEF Paid
<1> QED
    BY <1>2, ObservationAssumption, FS_Subset

LEMMA PaidAppend ==
    ASSUME NEW s \in Seq(Line), NEW l \in Line
    PROVE  Paid(Append(s, l)) = Paid(s) \cup {l.payment}
<1>1. PICK r : r = Append(s, l)
    OBVIOUS
<1>2. /\ r \in Seq(Line) /\ Len(r) = Len(s) + 1 /\ r[Len(s) + 1] = l
      /\ \A i \in 1..Len(s) : r[i] = s[i]
    BY <1>1
<1>3. DOMAIN r = 1..(Len(s) + 1) /\ DOMAIN s = 1..Len(s) /\ Len(s) \in Nat
    BY <1>2
<1>4. ASSUME NEW x
      PROVE  x \in Paid(r) <=> x \in Paid(s) \/ x = l.payment
    BY <1>2, <1>3 DEF Paid
<1> QED
    BY <1>1, <1>4

\* The payload names each payment once.
Once == Len(job.payload) = Cardinality(Paid(job.payload))

AmountsInv == books \in Books /\ Fits(books) /\ Once

LEMMA OnceStep ==
    ASSUME Followed, Once, NEW p \in Payment, NEW o \in Observation, ImportPayment(p, o)
    PROVE  Once'
<1>1. PICK l : l = [payment |-> p, seen |-> o]
    OBVIOUS
<1>2. PICK s : s = job.payload
    OBVIOUS
<1>3. s \in Seq(Line) /\ l \in Line /\ l.payment = p
    BY <1>1, <1>2 DEF Followed, Line
<1>4. job'.payload = Append(s, l)
    BY <1>1, <1>2 DEF ImportPayment, Followed
<1>5. Paid(Append(s, l)) = Paid(s) \cup {p}
    BY <1>3, PaidAppend
<1>6. p \notin Paid(s) /\ IsFiniteSet(Paid(s)) /\ Len(s) = Cardinality(Paid(s))
    BY <1>2, <1>3, PaidFinite DEF ImportPayment, Once
<1>7. Cardinality(Paid(s) \cup {p}) = Len(s) + 1
    BY <1>6, FS_AddElement
<1>8. Len(Append(s, l)) = Len(s) + 1
    BY <1>3
<1> QED
    BY <1>4, <1>5, <1>7, <1>8 DEF Once, Paid

LEMMA OnceIdle ==
    ASSUME job' = Idle \/ job'.payload = <<>>
    PROVE  Once'
<1>1. job'.payload = <<>>
    BY DEF Idle
<1>2. Paid(<<>>) = {}
    BY DEF Paid
<1>3. Len(<<>>) = 0 /\ Cardinality({}) = 0
    BY EmptySeq, FS_EmptySet
<1> QED
    BY <1>1, <1>2, <1>3 DEF Once, Paid

LEMMA AmountsStep ==
    ASSUME Followed, AmountsInv, [Next]_vars
    PROVE  AmountsInv'
<1> USE DEF AmountsInv
<1>1. ASSUME NEW t \in Settings, BeginImport(t)
      PROVE  AmountsInv'
    <2>1. job'.payload = <<>>
        BY <1>1 DEF BeginImport
    <2>2. books' \in Books /\ books'.entry = books.entry /\ books'.byHand = books.byHand
        BY <1>1 DEF BeginImport, Books, Inserted, Live
    <2>3. Fits(books')
        BY <2>2 DEF Fits, Submitted, Drafted, Allocated
    <2> QED
        BY <2>1, <2>2, <2>3, OnceIdle DEF Fits, Submitted, Drafted, Allocated
<1>2. ASSUME NEW p \in Payment, NEW o \in Observation, ImportPayment(p, o)
      PROVE  AmountsInv'
    <2>1. books' = Reconciled(books, p, o, job.settings) /\ job.settings \in Settings
        BY <1>2 DEF ImportPayment, Followed
    <2>2. books' \in Books /\ Fits(books')
        BY <2>1, ReconciledFits
    <2> QED
        BY <1>2, <2>2, OnceStep DEF Fits, Submitted, Drafted, Allocated
<1>3. CASE FinishImport
    <2>1. books' = Withdrawn(books, job.payload) /\ job' = Idle
        BY <1>3 DEF FinishImport
    <2>2. books' \in Books /\ Fits(books')
        BY <2>1, WithdrawnFits
    <2> QED
        BY <2>1, <2>2, OnceIdle DEF Fits, Submitted, Drafted, Allocated
<1>4. ASSUME NEW p \in Payment, NEW e \in Entry, books' = [books EXCEPT !.entry[p] = e],
             \/ e.status \notin Live
             \/ e.allocated = 0
             \/ /\ e.status = "submitted" /\ e.allocated <= Outstanding(books)
                /\ books.entry[p].status = "draft" /\ e.allocated = books.entry[p].allocated,
             job' = job
      PROVE  AmountsInv'
    <2>1. books' \in Books /\ books'.byHand = books.byHand /\ books'.entry[p] = e /\ Elsewhere(books, books', p)
        BY <1>4, EntryTyped
    <2>2. Fits(books')
        BY <1>4, <2>1, EntryFits
    <2> QED
        BY <1>4, <2>1, <2>2 DEF Fits, Submitted, Drafted, Allocated, Once, Paid
<1>5. ASSUME NEW p \in Payment, NEW n \in 1..Total, NEW t \in Settings, ImportTransfer(p, n, t)
      PROVE  AmountsInv'
    <2>1. PICK e : e = [status |-> Inserted(t), amount |-> n, allocated |-> 0]
        OBVIOUS
    <2>2. e \in Entry /\ e.allocated = 0
        BY <2>1, TotalIsNat DEF Entry, Inserted, Live
    <2>3. books' = [books EXCEPT !.entry[p] = e] /\ job' = job
        BY <1>5, <2>1 DEF ImportTransfer
    <2> QED
        BY <1>4, <2>2, <2>3
<1>6. ASSUME NEW p \in Payment, DeleteEntry(p)
      PROVE  AmountsInv'
    <2>1. NoEntry \in Entry /\ NoEntry.allocated = 0
        BY DEF NoEntry, Entry
    <2> QED
        BY <1>4, <1>6, <2>1 DEF DeleteEntry, ByHand
<1>7. ASSUME NEW p \in Payment, SubmitEntry(p) \/ CancelEntry(p)
      PROVE  AmountsInv'
    <2>1. PICK x \in Entry : x = books.entry[p]
        BY DEF Books
    <2>2. ASSUME NEW s \in {"cancelled", "submitted"}, books' = [books EXCEPT !.entry[p].status = s], job' = job,
                 \/ s = "cancelled"
                 \/ x.allocated <= Outstanding(books) /\ x.status = "draft"
          PROVE  AmountsInv'
        <3>1. PICK e : e = [x EXCEPT !.status = s]
            OBVIOUS
        <3>2. e \in Entry /\ e.allocated = x.allocated /\ e.status = s
            BY <3>1 DEF Entry, Live
        <3>3. books' = [books EXCEPT !.entry[p] = e]
            <4>1. books' = [books EXCEPT !.entry[p] = [books.entry[p] EXCEPT !.status = s]]
                BY <2>2
            <4> QED
                BY <2>1, <3>1, <4>1, Zenon
        <3>4. s = "cancelled" => e.status \notin Live
            BY <3>2 DEF Live
        <3> QED
            BY <1>4, <2>1, <2>2, <3>2, <3>3, <3>4
    <2> QED
        BY <1>7, <2>1, <2>2 DEF SubmitEntry, CancelEntry, ByHand
<1>8. CASE SubmitInvoice
    <2>1. books' \in Books /\ books'.entry = books.entry /\ books'.byHand = books.byHand /\ job' = job
        BY <1>8 DEF SubmitInvoice, ByHand, Books, Live
    <2> QED
        BY <2>1 DEF Fits, Submitted, Drafted, Allocated, Once, Paid
<1>9. ASSUME NEW n \in 1..Total, PayInvoice(n)
      PROVE  AmountsInv'
    <2>1. /\ books' \in Books /\ books'.entry = books.entry
          /\ books'.byHand = books.byHand + n /\ job' = job
        BY <1>9, TotalIsNat DEF PayInvoice, ByHand, Books
    <2>2. PICK a : a = Submitted(books)
        OBVIOUS
    <2>3. a \in Nat
        <3>1. \A q \in Payment : books.entry[q].allocated \in Nat
            BY DEF Books, Entry
        <3> QED
            BY <2>2, <3>1, AllocatedLess DEF Submitted
    <2>4. n <= Total - books.byHand - a
        BY <1>9, <2>2 DEF PayInvoice, Outstanding, Submitted
    <2>5. books.byHand \in Nat
        BY DEF Books
    <2>6. a <= Total - (books.byHand + n)
        BY <2>3, <2>4, <2>5, TotalIsNat
    <2>7. Submitted(books') = a /\ Drafted(books') = Drafted(books)
        BY <2>1, <2>2 DEF Submitted, Drafted, Allocated
    <2>8. Fits(books')
        BY <2>1, <2>2, <2>6, <2>7 DEF Fits
    <2> QED
        BY <2>1, <2>8 DEF Fits, Submitted, Drafted, Allocated, Once, Paid
<1>10. CASE UNCHANGED vars
    BY <1>10 DEF vars, Fits, Submitted, Drafted, Allocated, Once, Paid
<1> QED
    BY <1>1, <1>2, <1>3, <1>5, <1>6, <1>7, <1>8, <1>9, <1>10 DEF Next

LEMMA AmountsInvariant == Spec => [](BillInv /\ AmountsInv)
<1>1. Init => AmountsInv
    <2> SUFFICES ASSUME Init PROVE AmountsInv
        OBVIOUS
    <2>1. books \in Books /\ books.byHand = 0 /\ \A p \in Payment : books.entry[p] = NoEntry
        BY DEF Init, Books, Entry, NoEntry
    <2>2. Once
        <3>1. Paid(<<>>) = {} /\ Len(<<>>) = 0 /\ Cardinality({}) = 0
            BY EmptySeq, FS_EmptySet DEF Paid
        <3> QED
            BY <3>1 DEF Init, Idle, Once
    <2>3. ASSUME NEW status \in Live
          PROVE  Allocated(books, status, Payment) = 0
        <3>1. Having(books, status, Payment) = {}
            BY <2>1 DEF Having, NoEntry, Live
        <3>2. \A p \in Payment : books.entry[p].allocated \in Nat
            BY <2>1 DEF NoEntry
        <3>3. Allocated(books, status, Payment) =
                SumFunctionOnSet([p \in Payment |-> books.entry[p].allocated], Having(books, status, Payment))
            BY <3>2, AllocatedIs
        <3> QED
            BY <3>1, <3>3, SumEmpty
    <2>4. Submitted(books) = 0 /\ Drafted(books) = 0
        BY <2>3 DEF Submitted, Drafted, Live
    <2> QED
        BY <2>1, <2>2, <2>4, TotalIsNat DEF Fits, AmountsInv
<1>2. BillInv /\ AmountsInv /\ [Next]_vars => AmountsInv'
    BY AmountsStep DEF BillInv
<1> QED
    BY <1>1, <1>2, BillInvariant, PTL DEF Spec

LEMMA AmountsMean ==
    ASSUME BillInv, AmountsInv
    PROVE  TypeOK /\ NeverOverallocated /\ DraftsFit
<1>1. TypeOK
    BY DEF BillInv, Followed, AmountsInv, Once, Line, TypeOK
<1>2. PICK a \in Nat, d \in Nat : a = Submitted(books) /\ d = Drafted(books)
    <2>1. \A q \in Payment : books.entry[q].allocated \in Nat
        BY DEF AmountsInv, Books, Entry
    <2> QED
        BY <2>1, AllocatedLess DEF Submitted, Drafted
<1>3. PICK h \in Nat : h = books.byHand
    BY DEF AmountsInv, Books
<1>4. a <= Total - h /\ d + a <= Total
    BY <1>2, <1>3 DEF AmountsInv, Fits
<1>5. Outstanding(books) = Total - h - a
    BY <1>2, <1>3 DEF Outstanding, Submitted
<1>6. Total - h - a >= 0 /\ d <= Total - h - a + h
    BY <1>4, TotalIsNat
<1> QED
    BY <1>1, <1>2, <1>3, <1>5, <1>6, Zenon DEF NeverOverallocated, DraftsFit, Drafted

\* In every state the books, the running import and its payload are of their
\* types, and the payload names no payment twice.
THEOREM BillTypes == Spec => []TypeOK
    BY AmountsInvariant, AmountsMean, PTL

\* For any number of payments and any amounts: whatever is imported, amended,
\* withdrawn, submitted, cancelled, deleted or paid by hand, in any order, the
\* submitted entries and the payments by hand never exceed the invoice.
THEOREM NeverOverallocates == Spec => []NeverOverallocated
    BY AmountsInvariant, AmountsMean, PTL

\* Nor do the drafts, together, exceed what was outstanding before the payments
\* by hand: no two imports have promised the same part of the invoice twice.
THEOREM DraftsAlwaysFit == Spec => []DraftsFit
    BY AmountsInvariant, AmountsMean, PTL

-----------------------------------------------------------------------------
(* The payload imported again *)

\* From 0 to n, one after the other.
LEMMA Climb ==
    ASSUME NEW n \in Nat, NEW B \in SUBSET (0..n), 0 \notin B,
           \A k \in 0..n : k # n /\ k \notin B => k + 1 \notin B
    PROVE  B = {}
<1> DEFINE R == OpToRel(<, Nat)
<1>1. SUFFICES ASSUME B # {} PROVE FALSE
    OBVIOUS
<1>2. B \subseteq Nat
    OBVIOUS
<1>3. PICK m \in B : \A k \in B : ~(<<k, m>> \in R)
    <2>1. IsWellFoundedOn(R, Nat)
        BY NatLessThanWellFounded
    <2> HIDE DEF R
    <2> QED
        BY <1>1, <1>2, <2>1, WFMin
<1> HIDE DEF R
<1>4. m \in Nat /\ m <= n /\ m # 0
    BY <1>3
<1>5. PICK k \in Nat : k = m - 1
    BY <1>4
<1>6. k \in 0..n /\ k # n /\ k < m /\ k + 1 = m
    BY <1>4, <1>5
<1>7. k \notin B
    <2>1. k < m => <<k, m>> \in R
        BY <1>4 DEF R, OpToRel
    <2> QED
        BY <1>3, <1>6, <2>1
<1> QED
    BY <1>3, <1>6, <1>7

\* g takes the books b through the lines of the payload s.
Passes(g, b, s, t, n) ==
    g = [k \in 0..n |-> IF k = 0 THEN b ELSE Reconciled(g[k - 1], s[k].payment, s[k].seen, t)]

LEMMA PassesSome ==
    ASSUME NEW b, NEW s, NEW t, NEW n \in Nat
    PROVE  \E g : Passes(g, b, s, t, n)
<1> DEFINE B == {k \in 0..n : ~\E g : Passes(g, b, s, t, k)}
<1>1. 0 \notin B
    <2>1. PICK g : g = [k \in 0..0 |-> b]
        OBVIOUS
    <2>2. Passes(g, b, s, t, 0)
        BY <2>1 DEF Passes
    <2> QED
        BY <2>2
<1>2. ASSUME NEW k \in 0..n, k # n, k \notin B
      PROVE  k + 1 \notin B
    <2>1. PICK g : Passes(g, b, s, t, k)
        BY <1>2
    <2>2. PICK h : h = [i \in 0..(k + 1) |->
                            IF i = k + 1 THEN Reconciled(g[k], s[k + 1].payment, s[k + 1].seen, t) ELSE g[i]]
        OBVIOUS
    <2>3. ASSUME NEW i \in 0..(k + 1)
          PROVE  h[i] = IF i = 0 THEN b ELSE Reconciled(h[i - 1], s[i].payment, s[i].seen, t)
        <3>1. CASE i = k + 1
            <4>1. h[i - 1] = g[k] /\ i # 0
                BY <3>1, <2>2
            <4> QED
                BY <3>1, <4>1, <2>2
        <3>2. CASE i # k + 1 /\ i # 0
            <4>1. i \in 0..k /\ i - 1 \in 0..(k + 1) /\ i - 1 # k + 1
                BY <3>2
            <4>2. h[i] = g[i] /\ h[i - 1] = g[i - 1]
                BY <3>2, <4>1, <2>2
            <4>3. g[i] = Reconciled(g[i - 1], s[i].payment, s[i].seen, t)
                BY <3>2, <4>1, <2>1 DEF Passes
            <4> QED
                BY <3>2, <4>2, <4>3
        <3>3. CASE i # k + 1 /\ i = 0
            <4>1. h[0] = g[0] /\ g[0] = b
                BY <3>3, <2>1, <2>2 DEF Passes
            <4> QED
                BY <3>3, <4>1
        <3> QED
            BY <3>1, <3>2, <3>3
    <2>4. h = [i \in 0..(k + 1) |->
                    IF i = 0 THEN b ELSE Reconciled(h[i - 1], s[i].payment, s[i].seen, t)]
        <3>1. h = [i \in 0..(k + 1) |-> h[i]]
            BY <2>2
        <3> QED
            BY <2>3, <3>1
    <2>5. Passes(h, b, s, t, k + 1)
        BY <2>4 DEF Passes
    <2> QED
        BY <2>5
<1>3. B = {}
    <2> HIDE DEF B
    <2>1. B \in SUBSET (0..n)
        BY DEF B
    <2> QED
        BY <1>1, <1>2, <2>1, Climb
<1> QED
    BY <1>3

LEMMA AgainPasses ==
    ASSUME NEW b, NEW s, NEW t, s = lastImport.payload, t = lastImport.settings, Len(s) \in Nat
    PROVE  \E g : Passes(g, b, s, t, Len(s)) /\ Again(b) = Withdrawn(g[Len(s)], s)
<1>1. PICK g : g = CHOOSE h : Passes(h, b, s, t, Len(s))
    OBVIOUS
<1>2. Passes(g, b, s, t, Len(s))
    BY <1>1, PassesSome
<1>3. Again(b) = Withdrawn(g[Len(s)], s)
    BY <1>1 DEF Again, Passes
<1> QED
    BY <1>2, <1>3

-----------------------------------------------------------------------------
(* One payment of the payload *)

\* What the invoice has left to allocate, by hand, submitted or drafted;
\* negative once accountants paid what drafts had promised.
Slack(b) == Total - b.byHand - Submitted(b) - Drafted(b)

Held(e) == IF e.status \in Live THEN e.allocated ELSE 0

\* The entry of a payment in this state follows it.
Mirrors(b, o) == Buildable(b, o) /\ ~o.terminal /\ o.type # "CARD_TRANSACTION"

\* The entry of line l is one an import of l leaves, under the settings t.
Kept(b, l, t) ==
    LET e == b.entry[l.payment]
        o == l.seen
    IN  /\ o.type = "CARD_TRANSACTION" => e.status \notin Live
        /\ Mirrors(b, o) /\ e.status \in Live => e.amount = o.amount /\ e.allocated <= o.amount
        /\ Mirrors(b, o) /\ t.payments /\ o.type = "TRANSFER" => e.status # "none"

\* No entry of the payload s holds anything while the invoice has less than
\* nothing left.
Leveled(b, s, t) ==
    /\ \A i \in DOMAIN s : Kept(b, s[i], t)
    /\ \/ Slack(b) >= 0
       \/ \A i \in DOMAIN s : Mirrors(b, s[i].seen) => Held(b.entry[s[i].payment]) = 0

Distinct(s) == \A i, j \in DOMAIN s : s[i].payment = s[j].payment => i = j

LEMMA BookNumbers ==
    ASSUME NEW b \in Books
    PROVE  /\ b.byHand \in Nat /\ Submitted(b) \in Nat /\ Drafted(b) \in Nat /\ Slack(b) \in Int
           /\ \A p \in Payment : b.entry[p] \in Entry /\ Held(b.entry[p]) \in Nat
<1>1. \A p \in Payment : b.entry[p] \in Entry /\ b.entry[p].allocated \in Nat
    BY DEF Books, Entry
<1>2. PICK a \in Nat, d \in Nat, h \in Nat : a = Submitted(b) /\ d = Drafted(b) /\ h = b.byHand
    BY <1>1, AllocatedLess DEF Submitted, Drafted, Books
<1>3. Total - h - a - d \in Int
    BY TotalIsNat
<1>4. Slack(b) \in Int
    BY <1>2, <1>3, Zenon DEF Slack
<1> QED
    BY <1>1, <1>2, <1>4 DEF Held

\* What an entry and the rest of the invoice have between them, k, is what the
\* entry may allocate.
LEMMA SlackMoves ==
    ASSUME NEW b \in Books, NEW c \in Books, NEW p \in Payment, Elsewhere(b, c, p), c.byHand = b.byHand
    PROVE  \E k \in Int :
              /\ Slack(b) = k - Held(b.entry[p])
              /\ Slack(c) = k - Held(c.entry[p])
              /\ Available(b, p) = IF 0 >= k THEN 0 ELSE k
<1>1. PICK a \in Nat, d \in Nat :
              /\ Submitted(b) = Share(b.entry[p], "submitted") + a
              /\ Submitted(c) = Share(c.entry[p], "submitted") + a
              /\ Drafted(b) = Share(b.entry[p], "draft") + d
              /\ Drafted(c) = Share(c.entry[p], "draft") + d
              /\ Available(b, p) = Max({0, Total - b.byHand - a - d})
    BY EntryAmounts
<1>2. PICK h \in Nat : h = b.byHand /\ h = c.byHand
    BY DEF Books
<1>3. PICK k \in Int : k = Total - h - a - d
    BY TotalIsNat
<1>4. ASSUME NEW e \in Entry
      PROVE  \E x, y \in Nat :
                x = Share(e, "submitted") /\ y = Share(e, "draft") /\ x + y = Held(e)
    BY DEF Share, Held, Live, Entry
<1>5. ASSUME NEW x \in Nat, NEW y \in Nat
      PROVE  Total - h - (x + a) - (y + d) = k - (x + y)
    BY <1>3, TotalIsNat
<1>6. ASSUME NEW z \in Books, z.byHand = h,
             Submitted(z) = Share(z.entry[p], "submitted") + a,
             Drafted(z) = Share(z.entry[p], "draft") + d
      PROVE  Slack(z) = k - Held(z.entry[p])
    <2>1. PICK x \in Nat, y \in Nat :
                /\ x = Share(z.entry[p], "submitted") /\ y = Share(z.entry[p], "draft")
                /\ x + y = Held(z.entry[p])
        BY <1>4 DEF Books
    <2>2. Slack(z) = Total - h - (x + a) - (y + d)
        BY <1>6, <2>1, Zenon DEF Slack
    <2>3. Total - h - (x + a) - (y + d) = k - (x + y)
        BY <1>5
    <2> QED
        BY <2>1, <2>2, <2>3, Zenon
<1>7. Available(b, p) = IF 0 >= k THEN 0 ELSE k
    BY <1>1, <1>2, <1>3, MaxOf
<1> QED
    BY <1>1, <1>2, <1>6, <1>7

\* What import_bill_payment does with line l, as far as the sums go.
Effect(b, c, p, o, t) ==
    /\ c \in Books /\ c.byHand = b.byHand /\ Elsewhere(b, c, p)
    /\ o.type = "CARD_TRANSACTION" => c.entry[p].status \notin Live
    /\ Mirrors(b, o) /\ c.entry[p].status \in Live =>
            c.entry[p].amount = o.amount /\ c.entry[p].allocated = Min({o.amount, Available(b, p)})
    /\ Mirrors(b, o) /\ t.payments /\ o.type = "TRANSFER" => c.entry[p].status # "none"
    /\ c = b \/ c.entry[p].status \notin Live \/ c.entry[p].allocated <= Available(b, p)

LEMMA LineEffect ==
    ASSUME NEW b \in Books, NEW p \in Payment, NEW o \in Observation, NEW t \in Settings,
           NEW c, c = Reconciled(b, p, o, t)
    PROVE  Effect(b, c, p, o, t)
<1>1. /\ c \in Books /\ c.byHand = b.byHand /\ Elsewhere(b, c, p)
      /\ c = b \/ c.entry[p].status \notin Live \/ c.entry[p].allocated <= Available(b, p)
    <2>1. CASE c = b
        BY <2>1 DEF Elsewhere
    <2>2. ASSUME NEW e \in Entry, c = [b EXCEPT !.entry[p] = e],
                 e.status \notin Live \/ e.allocated <= Available(b, p)
          PROVE  /\ c \in Books /\ c.byHand = b.byHand /\ Elsewhere(b, c, p)
                 /\ c.entry[p].status \notin Live \/ c.entry[p].allocated <= Available(b, p)
        BY <2>2, EntryTyped
    <2> QED
        BY <2>1, <2>2, ReconciledEntry
<1>2. o.type = "CARD_TRANSACTION" => c.entry[p].status \notin Live
    BY BooksShaped, ReconciledEffect
<1>3. ASSUME NEW s, c = [b EXCEPT !.entry[p] = Built(b, p, o, s)]
      PROVE  /\ c.entry[p].status = s /\ c.entry[p].amount = o.amount
             /\ c.entry[p].allocated = Min({o.amount, Available(b, p)})
    <2>1. PICK e : e = Built(b, p, o, s)
        OBVIOUS
    <2>2. c.entry[p] = e
        BY <1>3, <2>1 DEF Books
    <2> QED
        BY <2>1, <2>2 DEF Built
<1>4. Inserted(t) \in Live /\ "none" \notin Live
    BY DEF Inserted, Live
<1>5. CASE b.entry[p].status = "none"
    <2>1. c = NewPayment(b, p, o, t)
        BY <1>5 DEF Reconciled
    <2>2. CASE t.payments /\ o.type = "TRANSFER" /\ Buildable(b, o)
        <3>1. PICK s : s = Inserted(t)
            OBVIOUS
        <3>2. c = [b EXCEPT !.entry[p] = Built(b, p, o, s)]
            BY <2>1, <2>2, <3>1 DEF NewPayment
        <3>3. /\ c.entry[p].status = s /\ s # "none" /\ c.entry[p].amount = o.amount
              /\ c.entry[p].allocated = Min({o.amount, Available(b, p)})
            BY <1>3, <1>4, <3>1, <3>2
        <3> QED
            BY <1>1, <1>2, <3>3 DEF Effect
    <2>3. CASE ~(t.payments /\ o.type = "TRANSFER" /\ Buildable(b, o))
        <3>1. c = b
            BY <2>1, <2>3 DEF NewPayment
        <3> QED
            BY <1>1, <1>2, <1>4, <1>5, <2>3, <3>1 DEF Effect, Mirrors
    <2> QED
        BY <2>2, <2>3
<1>6. CASE b.entry[p].status # "none"
    <2> DEFINE built == Built(b, p, o, b.entry[p].status)
    <2>1. c = KnownPayment(b, p, o, t)
        BY <1>6 DEF Reconciled
    <2>2. CASE o.terminal \/ o.type = "CARD_TRANSACTION"
        <3>1. c = RemoveEntry(b, p)
            BY <2>1, <2>2 DEF KnownPayment
        <3>2. c.entry[p].status \notin Live
            BY <3>1, BooksShaped, RemoveShape
        <3> QED
            BY <1>1, <1>2, <2>2, <3>2 DEF Effect, Mirrors
    <2>3. CASE Mirrors(b, o) /\ built # b.entry[p] /\ b.entry[p].status \in Live
        <3>1. PICK s : s = IF b.entry[p].status = "draft" THEN "draft" ELSE Inserted(t)
            OBVIOUS
        <3>2. s \in Live
            BY <1>4, <3>1 DEF Live
        <3>3. [built EXCEPT !.status = s] = Built(b, p, o, s)
            BY BuiltAgain
        <3>4. c = [b EXCEPT !.entry[p] = [built EXCEPT !.status = s]]
            BY <2>1, <2>3, <3>1 DEF KnownPayment, Mirrors
        <3>5. c = [b EXCEPT !.entry[p] = Built(b, p, o, s)]
            BY <3>3, <3>4, Zenon
        <3> QED
            BY <1>1, <1>2, <1>3, <1>4, <2>3, <3>2, <3>5 DEF Effect
    <2>4. CASE /\ ~o.terminal /\ o.type # "CARD_TRANSACTION"
               /\ ~(Mirrors(b, o) /\ built # b.entry[p] /\ b.entry[p].status \in Live)
        <3>1. c = b
            BY <2>1, <2>4 DEF KnownPayment, Mirrors
        <3>2. built = b.entry[p] =>
                /\ b.entry[p].amount = o.amount
                /\ b.entry[p].allocated = Min({o.amount, Available(b, p)})
            <4>1. PICK e : e = built
                OBVIOUS
            <4>2. e.amount = o.amount /\ e.allocated = Min({o.amount, Available(b, p)})
                BY <4>1 DEF Built
            <4> QED
                BY <4>1, <4>2
        <3> QED
            BY <1>1, <1>2, <1>6, <2>4, <3>1, <3>2 DEF Effect
    <2> QED
        BY <2>2, <2>3, <2>4 DEF Mirrors
<1> QED
    BY <1>5, <1>6

\* Nothing to do for the entry of a line that has what it may allocate.
LEMMA LineFixed ==
    ASSUME NEW b \in Books, NEW l \in Line, NEW t \in Settings, Kept(b, l, t), ~l.seen.terminal,
           LET e == b.entry[l.payment] IN
           Mirrors(b, l.seen) /\ e.status \in Live => e.allocated = Min({l.seen.amount, Available(b, l.payment)})
    PROVE  Reconciled(b, l.payment, l.seen, t) = b
<1>1. PICK p \in Payment, o \in Observation : p = l.payment /\ o = l.seen
    BY DEF Line
<1>2. PICK e \in Entry : e = b.entry[p]
    BY DEF Books
<1>3. CASE e.status = "none"
    <2>1. Reconciled(b, p, o, t) = NewPayment(b, p, o, t)
        BY <1>2, <1>3 DEF Reconciled
    <2>2. ~(t.payments /\ o.type = "TRANSFER" /\ Buildable(b, o))
        BY <1>1, <1>2, <1>3 DEF Kept, Mirrors
    <2> QED
        BY <1>1, <2>1, <2>2 DEF NewPayment
<1>4. CASE e.status # "none"
    <2>1. Reconciled(b, p, o, t) = KnownPayment(b, p, o, t)
        BY <1>2, <1>4 DEF Reconciled
    <2>2. CASE o.type = "CARD_TRANSACTION"
        <3>1. e.status \notin Live
            BY <1>1, <1>2, <2>2 DEF Kept
        <3>2. KnownPayment(b, p, o, t) = RemoveEntry(b, p)
            BY <2>2 DEF KnownPayment
        <3> QED
            BY <1>1, <1>2, <2>1, <3>1, <3>2 DEF RemoveEntry
    <2>3. CASE o.type # "CARD_TRANSACTION"
        <3>1. Mirrors(b, o) /\ e.status \in Live => Built(b, p, o, e.status) = e
            <4> SUFFICES ASSUME Mirrors(b, o), e.status \in Live PROVE Built(b, p, o, e.status) = e
                OBVIOUS
            <4>1. e.amount = o.amount /\ e.allocated = Min({o.amount, Available(b, p)})
                BY <1>1, <1>2 DEF Kept
            <4>2. e = [status |-> e.status, amount |-> e.amount, allocated |-> e.allocated]
                BY DEF Entry
            <4> QED
                BY <4>1, <4>2 DEF Built
        <3>2. KnownPayment(b, p, o, t) = b
            BY <1>1, <1>2, <2>3, <3>1 DEF KnownPayment, Mirrors
        <3> QED
            BY <1>1, <2>1, <3>2
    <2> QED
        BY <2>2, <2>3
<1> QED
    BY <1>3, <1>4

\* One line more: what an import of it leaves.
LEMMA LeveledLine ==
    ASSUME NEW b \in Books, NEW c, NEW l \in Line, NEW t \in Settings,
           Effect(b, c, l.payment, l.seen, t)
    PROVE  /\ Kept(c, l, t)
           /\ \/ Slack(c) >= 0
              \/ Slack(b) < 0 /\ (Mirrors(c, l.seen) => Held(c.entry[l.payment]) = 0)
<1>1. PICK p \in Payment, o \in Observation : p = l.payment /\ o = l.seen
    BY DEF Line
<1>2. /\ c \in Books /\ c.byHand = b.byHand /\ Elsewhere(b, c, p)
      /\ Mirrors(c, o) <=> Mirrors(b, o)
    BY <1>1 DEF Effect, Elsewhere, Mirrors, Buildable
<1>3. PICK k \in Int :
              /\ Slack(b) = k - Held(b.entry[p])
              /\ Slack(c) = k - Held(c.entry[p])
              /\ Available(b, p) = IF 0 >= k THEN 0 ELSE k
    BY <1>2, SlackMoves
<1>4. PICK m \in Nat : m = o.amount
    BY ObservationAssumption
<1>5. PICK v \in Nat : v = Available(b, p)
    BY AvailableIsNat
<1>6. PICK x \in Nat, y \in Nat : x = Held(b.entry[p]) /\ y = Held(c.entry[p])
    BY <1>2, BookNumbers
<1>7. Min({m, v}) = IF m <= v THEN m ELSE v
    BY MinOf
<1>8. Kept(c, l, t)
    BY <1>1, <1>2, <1>4, <1>5, <1>7 DEF Kept, Effect
<1>9. c = b \/ y <= v
    BY <1>1, <1>5, <1>6 DEF Effect, Held
<1>10. Mirrors(c, o) => y <= v
    BY <1>1, <1>2, <1>4, <1>5, <1>6, <1>7 DEF Effect, Held
<1>11. v = (IF 0 >= k THEN 0 ELSE k) /\ Slack(b) = k - x /\ Slack(c) = k - y
    BY <1>3, <1>5, <1>6
<1>12. \/ Slack(c) >= 0
       \/ Slack(b) < 0 /\ (Mirrors(c, o) => y = 0)
    <2>1. CASE y <= v
        BY <2>1, <1>11
    <2>2. CASE c = b /\ ~Mirrors(c, o)
        BY <2>2, <1>11
    <2> QED
        BY <2>1, <2>2, <1>9, <1>10
<1> QED
    BY <1>1, <1>6, <1>8, <1>12

-----------------------------------------------------------------------------
(* The running import leaves the entries level *)

LEMMA LinesOf ==
    ASSUME NEW s \in Seq(Line), NEW i \in DOMAIN s
    PROVE  s[i] \in Line /\ s[i].payment \in Payment /\ s[i].payment \in Paid(s)
<1>1. s[i] \in Line
    OBVIOUS
<1> QED
    BY <1>1 DEF Line, Paid

\* Other lines see nothing of what happens to the entry of p.
LEMMA KeptElsewhere ==
    ASSUME NEW b, NEW c, NEW l \in Line, NEW t, c.invoice = b.invoice,
           c.entry[l.payment] = b.entry[l.payment]
    PROVE  /\ Kept(c, l, t) <=> Kept(b, l, t)
           /\ Mirrors(c, l.seen) <=> Mirrors(b, l.seen)
    BY DEF Kept, Mirrors, Buildable

LEMMA LeveledStep ==
    ASSUME NEW b \in Books, NEW s \in Seq(Line), NEW l \in Line, NEW t \in Settings,
           Leveled(b, s, t), Distinct(s), l.payment \notin Paid(s),
           NEW c, c = Reconciled(b, l.payment, l.seen, t)
    PROVE  Distinct(Append(s, l)) /\ Leveled(c, Append(s, l), t)
<1>1. PICK r : r = Append(s, l)
    OBVIOUS
<1>2. \A i \in DOMAIN r : (i \in DOMAIN s /\ r[i] = s[i]) \/ (i = Len(s) + 1 /\ r[i] = l)
    BY <1>1
<1>3. ASSUME NEW i \in DOMAIN s
      PROVE  s[i] \in Line /\ s[i].payment \in Payment \ {l.payment}
    BY LinesOf
<1>4. Distinct(r)
    BY <1>2, <1>3 DEF Distinct
<1>5. l.payment \in Payment /\ l.seen \in Observation
    BY DEF Line
<1>6. Effect(b, c, l.payment, l.seen, t)
    BY <1>5, LineEffect
<1>7. /\ Kept(c, l, t)
      /\ \/ Slack(c) >= 0
         \/ Slack(b) < 0 /\ (Mirrors(c, l.seen) => Held(c.entry[l.payment]) = 0)
    BY <1>6, LeveledLine
<1>8. ASSUME NEW i \in DOMAIN s
      PROVE  /\ Kept(c, s[i], t)
             /\ c.entry[s[i].payment] = b.entry[s[i].payment]
             /\ Mirrors(c, s[i].seen) <=> Mirrors(b, s[i].seen)
    <2>1. c.invoice = b.invoice /\ c.entry[s[i].payment] = b.entry[s[i].payment]
        BY <1>3, <1>6 DEF Effect, Elsewhere
    <2>2. Kept(b, s[i], t)
        BY DEF Leveled
    <2> QED
        BY <1>3, <2>1, <2>2, KeptElsewhere
<1>9. ASSUME NEW i \in DOMAIN r
      PROVE  Kept(c, r[i], t)
    BY <1>2, <1>7, <1>8
<1>10. \/ Slack(c) >= 0
       \/ \A i \in DOMAIN r : Mirrors(c, r[i].seen) => Held(c.entry[r[i].payment]) = 0
    <2>1. CASE Slack(b) < 0 /\ (Mirrors(c, l.seen) => Held(c.entry[l.payment]) = 0)
        <3>1. Slack(b) \in Int
            BY BookNumbers
        <3>2. \A i \in DOMAIN s : Mirrors(b, s[i].seen) => Held(b.entry[s[i].payment]) = 0
            BY <2>1, <3>1 DEF Leveled
        <3>3. \A i \in DOMAIN s : Mirrors(c, s[i].seen) => Held(c.entry[s[i].payment]) = 0
            BY <1>8, <3>2
        <3> QED
            BY <1>2, <2>1, <3>3
    <2> QED
        BY <1>7, <2>1
<1> QED
    BY <1>1, <1>4, <1>9, <1>10 DEF Leveled

LEMMA LeveledWithdrawn ==
    ASSUME NEW b \in Books, NEW s \in Seq(Line), NEW t, Leveled(b, s, t), NEW c, c = Withdrawn(b, s)
    PROVE  Leveled(c, s, t)
<1>1. /\ c \in Books /\ c.byHand = b.byHand
      /\ Submitted(c) <= Submitted(b) /\ Submitted(b) \in Nat /\ Submitted(c) \in Nat
      /\ Drafted(c) <= Drafted(b) /\ Drafted(b) \in Nat /\ Drafted(c) \in Nat
    BY WithdrawnLess
<1>2. Slack(b) >= 0 => Slack(c) >= 0
    <2>1. PICK h \in Nat : h = b.byHand
        BY DEF Books
    <2>2. ASSUME Total - h - Submitted(b) - Drafted(b) >= 0
          PROVE  Total - h - Submitted(c) - Drafted(c) >= 0
        BY <1>1, <2>2, TotalIsNat
    <2> QED
        BY <1>1, <2>1, <2>2, Zenon DEF Slack
<1>3. ASSUME NEW i \in DOMAIN s
      PROVE  /\ Kept(c, s[i], t) <=> Kept(b, s[i], t)
             /\ c.entry[s[i].payment] = b.entry[s[i].payment]
             /\ Mirrors(c, s[i].seen) <=> Mirrors(b, s[i].seen)
    <2>1. c.invoice = b.invoice /\ c.entry[s[i].payment] = b.entry[s[i].payment]
        BY BooksShaped, LinesOf, WithdrawnEffect
    <2> QED
        BY <2>1, LinesOf, KeptElsewhere
<1> QED
    BY <1>2, <1>3 DEF Leveled

-----------------------------------------------------------------------------
(* The second import *)

\* Line l has what it will keep.
Done(b, l) ==
    Mirrors(b, l.seen) /\ b.entry[l.payment].status \in Live =>
        b.entry[l.payment].allocated = l.seen.amount \/ Slack(b) <= 0

\* Where the entries are level a line that has what it will keep is left alone.
LEMMA DoneFixed ==
    ASSUME NEW b \in Books, NEW s \in Seq(Line), NEW t \in Settings, Leveled(b, s, t),
           NEW i \in DOMAIN s, ~s[i].seen.terminal, Done(b, s[i])
    PROVE  Reconciled(b, s[i].payment, s[i].seen, t) = b
<1>1. PICK l \in Line : l = s[i]
    BY LinesOf
<1>2. PICK p \in Payment, o \in Observation : p = l.payment /\ o = l.seen
    BY DEF Line
<1>3. Kept(b, l, t)
    BY <1>1 DEF Leveled
<1>4. ASSUME Mirrors(b, o), b.entry[p].status \in Live
      PROVE  b.entry[p].allocated = Min({o.amount, Available(b, p)})
    <2>1. PICK k \in Int :
              /\ Slack(b) = k - Held(b.entry[p])
              /\ Available(b, p) = IF 0 >= k THEN 0 ELSE k
        BY SlackMoves DEF Elsewhere
    <2>2. PICK m \in Nat, v \in Nat : m = o.amount /\ v = Available(b, p)
        BY ObservationAssumption, AvailableIsNat
    <2>3. PICK x \in Nat : x = b.entry[p].allocated /\ x = Held(b.entry[p])
        BY <1>4, BookNumbers DEF Held
    <2>4. PICK z \in Int : z = Slack(b)
        BY BookNumbers
    <2>5. x <= m
        BY <1>1, <1>2, <1>3, <1>4, <2>2, <2>3 DEF Kept
    <2>6. z = k - x /\ v = IF 0 >= k THEN 0 ELSE k
        BY <2>1, <2>2, <2>3, <2>4
    <2>7. x = m \/ z <= 0
        BY <1>1, <1>2, <1>4, <2>2, <2>3, <2>4 DEF Done
    <2>8. z >= 0 \/ x = 0
        BY <1>1, <1>2, <1>4, <2>3, <2>4 DEF Leveled
    <2>9. x = IF m <= v THEN m ELSE v
        BY <2>5, <2>6, <2>7, <2>8
    <2>10. Min({m, v}) = IF m <= v THEN m ELSE v
        BY MinOf
    <2> QED
        BY <2>2, <2>3, <2>9, <2>10
<1> QED
    BY <1>1, <1>2, <1>3, <1>4, LineFixed

\* An import gives a line what it will keep.
LEMMA DoneLine ==
    ASSUME NEW b \in Books, NEW c, NEW l \in Line, NEW t \in Settings,
           Effect(b, c, l.payment, l.seen, t)
    PROVE  Done(c, l)
<1>1. PICK p \in Payment, o \in Observation : p = l.payment /\ o = l.seen
    BY DEF Line
<1>2. SUFFICES ASSUME Mirrors(c, o), c.entry[p].status \in Live
               PROVE  c.entry[p].allocated = o.amount \/ Slack(c) <= 0
    BY <1>1 DEF Done
<1>3. /\ c \in Books /\ c.byHand = b.byHand /\ Elsewhere(b, c, p)
      /\ Mirrors(b, o)
    BY <1>1, <1>2 DEF Effect, Elsewhere, Mirrors, Buildable
<1>4. PICK k \in Int :
              /\ Slack(c) = k - Held(c.entry[p])
              /\ Available(b, p) = IF 0 >= k THEN 0 ELSE k
    BY <1>3, SlackMoves
<1>5. PICK m \in Nat, v \in Nat : m = o.amount /\ v = Available(b, p)
    BY ObservationAssumption, AvailableIsNat
<1>6. PICK y \in Nat : y = c.entry[p].allocated /\ y = Held(c.entry[p])
    BY <1>2, <1>3, BookNumbers DEF Held
<1>7. y = IF m <= v THEN m ELSE v
    <2>1. Min({m, v}) = IF m <= v THEN m ELSE v
        BY MinOf
    <2> QED
        BY <1>1, <1>2, <1>3, <1>5, <1>6, <2>1 DEF Effect
<1>8. PICK z : z = Slack(c)
    OBVIOUS
<1>9. z = k - y /\ v = IF 0 >= k THEN 0 ELSE k
    BY <1>4, <1>5, <1>6, <1>8
<1>10. y = m \/ z <= 0
    BY <1>7, <1>9
<1> QED
    BY <1>5, <1>6, <1>8, <1>10

\* c is b after k lines of the payload s.
Stage(b, c, s, t, k) ==
    /\ c \in Books
    /\ \A p \in Payment \ Paid(s) : c.entry[p] = b.entry[p]
    /\ Leveled(c, s, t)
    /\ \A i \in 1..k : Done(c, s[i])

LEMMA StageStep ==
    ASSUME NEW s \in Seq(Line), NEW t \in Settings, Distinct(s), \A i \in DOMAIN s : ~s[i].seen.terminal,
           NEW k \in Nat, NEW j \in DOMAIN s, j = k + 1,
           NEW b, NEW c, Stage(b, c, s, t, k),
           NEW d, d = Reconciled(c, s[j].payment, s[j].seen, t)
    PROVE  Stage(b, d, s, t, j)
<1>1. PICK l \in Line : l = s[j] /\ l.payment \in Payment /\ l.payment \in Paid(s) /\ l.seen \in Observation
    BY LinesOf DEF Line
<1>2. c \in Books /\ Leveled(c, s, t) /\ Slack(c) \in Int
    BY BookNumbers DEF Stage
<1>3. Effect(c, d, l.payment, l.seen, t)
    BY <1>1, <1>2, LineEffect
<1>4. Done(d, l)
    BY <1>2, <1>3, DoneLine
<1>5. d \in Books /\ d.invoice = c.invoice
        /\ \A p \in Payment : p # l.payment => d.entry[p] = c.entry[p]
    BY <1>3 DEF Effect, Elsewhere
<1>6. ASSUME NEW p \in Payment \ Paid(s)
      PROVE  d.entry[p] = b.entry[p]
    BY <1>1, <1>5 DEF Stage
<1>7. \A i \in 1..j : i = j \/ i \in 1..k
    BY <1>1
<1>8. CASE Slack(c) <= 0
    <2>1. \A i \in DOMAIN s : Done(c, s[i])
        BY <1>8 DEF Done
    <2>2. d = c
        BY <1>2, <2>1, DoneFixed
    <2>3. \A i \in 1..j : Done(d, s[i])
        BY <1>8, <2>2 DEF Done
    <2> QED
        BY <1>2, <1>5, <1>6, <2>2, <2>3 DEF Stage
<1>9. CASE Slack(c) > 0
    <2>1. Kept(d, l, t) /\ Slack(d) >= 0
        <3>1. ~(Slack(c) < 0)
            BY <1>2, <1>9
        <3> QED
            BY <1>2, <1>3, <3>1, LeveledLine
    <2>2. ASSUME NEW i \in DOMAIN s, i # j
          PROVE  /\ s[i] \in Line
                 /\ d.entry[s[i].payment] = c.entry[s[i].payment]
                 /\ Kept(d, s[i], t)
                 /\ Mirrors(d, s[i].seen) <=> Mirrors(c, s[i].seen)
        <3>1. s[i] \in Line /\ s[i].payment \in Payment /\ s[i].payment # l.payment
            BY <1>1, <2>2, LinesOf DEF Distinct
        <3>2. d.entry[s[i].payment] = c.entry[s[i].payment]
            BY <1>5, <3>1
        <3>3. Kept(c, s[i], t)
            BY <1>2 DEF Leveled
        <3> QED
            BY <1>5, <3>1, <3>2, <3>3, KeptElsewhere
    <2>3. Leveled(d, s, t)
        BY <1>1, <2>1, <2>2 DEF Leveled
    <2>4. ASSUME NEW i \in 1..k
          PROVE  Done(d, s[i])
        <3>1. i \in DOMAIN s /\ i # j
            BY <1>1
        <3>2. Mirrors(c, s[i].seen) /\ c.entry[s[i].payment].status \in Live =>
                c.entry[s[i].payment].allocated = s[i].seen.amount
            <4>1. Done(c, s[i]) /\ ~(Slack(c) <= 0)
                BY <1>2, <1>9 DEF Stage
            <4> QED
                BY <4>1 DEF Done
        <3> QED
            BY <2>2, <3>1, <3>2 DEF Done
    <2> QED
        BY <1>1, <1>4, <1>5, <1>6, <1>7, <2>3, <2>4 DEF Stage
<1> QED
    BY <1>2, <1>8, <1>9

\* After the whole payload every line has what it will keep.
LEMMA StagesPass ==
    ASSUME NEW b \in Books, NEW s \in Seq(Line), NEW t \in Settings, Distinct(s),
           \A i \in DOMAIN s : ~s[i].seen.terminal, Leveled(b, s, t),
           NEW g, Passes(g, b, s, t, Len(s))
    PROVE  Stage(b, g[Len(s)], s, t, Len(s))
<1>1. PICK n \in Nat : n = Len(s)
    OBVIOUS
<1> DEFINE B == {k \in 0..n : ~Stage(b, g[k], s, t, k)}
<1>2. g[0] = b /\ \A k \in 1..n : g[k] = Reconciled(g[k - 1], s[k].payment, s[k].seen, t)
    BY <1>1 DEF Passes
<1>3. 0 \notin B
    <2>1. Stage(b, b, s, t, 0)
        BY DEF Stage
    <2> QED
        BY <1>2, <2>1
<1>4. ASSUME NEW k \in 0..n, k # n, k \notin B
      PROVE  k + 1 \notin B
    <2>1. PICK j \in 1..n : j = k + 1 /\ j - 1 = k /\ k \in Nat
        BY <1>4
    <2>2. Stage(b, g[k], s, t, k)
        BY <1>4
    <2>3. g[j] = Reconciled(g[k], s[j].payment, s[j].seen, t)
        BY <1>2, <2>1
    <2>4. j \in DOMAIN s
        BY <1>1
    <2>5. Stage(b, g[j], s, t, j)
        BY <2>1, <2>2, <2>3, <2>4, StageStep
    <2> QED
        BY <2>1, <2>5
<1>5. B = {}
    <2>1. B \in SUBSET (0..n)
        OBVIOUS
    <2> HIDE DEF B
    <2> QED
        BY <1>3, <1>4, <2>1, Climb
<1>6. n \in 0..n
    OBVIOUS
<1> QED
    BY <1>1, <1>5, <1>6

\* And another pass changes none of them.
LEMMA FixedPass ==
    ASSUME NEW b \in Books, NEW s \in Seq(Line), NEW t \in Settings,
           \A i \in DOMAIN s : ~s[i].seen.terminal, Leveled(b, s, t), \A i \in DOMAIN s : Done(b, s[i]),
           NEW g, Passes(g, b, s, t, Len(s))
    PROVE  g[Len(s)] = b
<1>1. PICK n \in Nat : n = Len(s)
    OBVIOUS
<1> DEFINE B == {k \in 0..n : g[k] # b}
<1>2. g[0] = b /\ \A k \in 1..n : g[k] = Reconciled(g[k - 1], s[k].payment, s[k].seen, t)
    BY <1>1 DEF Passes
<1>3. 0 \notin B
    BY <1>2
<1>4. ASSUME NEW k \in 0..n, k # n, k \notin B
      PROVE  k + 1 \notin B
    <2>1. PICK j \in 1..n : j = k + 1 /\ j - 1 = k
        BY <1>4
    <2>2. g[j] = Reconciled(b, s[j].payment, s[j].seen, t)
        BY <1>2, <1>4, <2>1
    <2>3. j \in DOMAIN s
        BY <1>1
    <2>4. g[j] = b
        BY <2>2, <2>3, DoneFixed
    <2> QED
        BY <2>1, <2>4
<1>5. B = {}
    <2>1. B \in SUBSET (0..n)
        OBVIOUS
    <2> HIDE DEF B
    <2> QED
        BY <1>3, <1>4, <2>1, Climb
<1>6. n \in 0..n
    OBVIOUS
<1> QED
    BY <1>1, <1>5, <1>6

LEMMA WithdrawnNothing ==
    ASSUME NEW b \in Books, NEW s,
           \A p \in Payment \ Paid(s) : ~(b.entry[p].status \in Live /\ b.entry[p].allocated > 0)
    PROVE  Withdrawn(b, s) = b
<1>1. PICK f : f = [p \in Payment |->
            IF p \in Linked(b) \ Paid(s) THEN RemoveEntry(b, p).entry[p] ELSE b.entry[p]]
    OBVIOUS
<1>2. ASSUME NEW p \in Payment
      PROVE  f[p] = b.entry[p]
    BY <1>1 DEF Linked, RemoveEntry
<1>3. f = b.entry
    BY <1>1, <1>2 DEF Books
<1>4. Withdrawn(b, s) = [b EXCEPT !.entry = f]
    BY <1>1 DEF Withdrawn
<1> QED
    BY <1>3, <1>4 DEF Books

-----------------------------------------------------------------------------
(* The invariant of the payload *)

\* What an import leaves is level, line by line and until the books are touched.
Settling ==
    /\ job.pc = "importing" => Distinct(job.payload) /\ Leveled(books, job.payload, job.settings)
    /\ JustImported =>
            /\ lastImport.payload \in Seq(Line) /\ lastImport.settings \in Settings
            /\ Distinct(lastImport.payload)
            /\ Leveled(books, lastImport.payload, lastImport.settings)

LEMMA SettlingStep ==
    ASSUME Followed, books \in Books, Settling, [Next]_vars
    PROVE  Settling'
<1>1. ASSUME NEW t \in Settings, BeginImport(t)
      PROVE  Settling'
    <2>1. job' = [pc |-> "importing", payload |-> <<>>, settings |-> t]
        BY <1>1 DEF BeginImport
    <2>2. Distinct(<<>>) /\ Leveled(books', <<>>, t)
        BY DEF Distinct, Leveled
    <2> QED
        BY <2>1, <2>2 DEF Settling, JustImported, Distinct, Leveled, Kept, Mirrors, Buildable, Slack,
                          Submitted, Drafted, Allocated
<1>2. ASSUME NEW p \in Payment, NEW o \in Observation, ImportPayment(p, o)
      PROVE  Settling'
    <2>1. PICK s \in Seq(Line), t \in Settings : s = job.payload /\ t = job.settings
        BY DEF Followed
    <2>2. PICK l : l = [payment |-> p, seen |-> o]
        OBVIOUS
    <2>3. l \in Line /\ l.payment = p /\ l.seen = o
        BY <2>2 DEF Line
    <2>4. books' = Reconciled(books, p, o, t) /\ p \notin Paid(s)
          /\ Distinct(s) /\ Leveled(books, s, t)
        BY <1>2, <2>1 DEF ImportPayment, Settling
    <2>5. job' = [pc |-> "importing", payload |-> Append(s, l), settings |-> t]
        BY <1>2, <2>1, <2>2 DEF ImportPayment, Followed
    <2>6. Distinct(Append(s, l)) /\ Leveled(books', Append(s, l), t)
        BY <2>3, <2>4, LeveledStep
    <2> QED
        BY <2>5, <2>6 DEF Settling, JustImported, Distinct, Leveled, Kept, Mirrors, Buildable, Slack,
                          Submitted, Drafted, Allocated
<1>3. CASE FinishImport
    <2>1. PICK s \in Seq(Line), t \in Settings : s = job.payload /\ t = job.settings
        BY DEF Followed
    <2>2. /\ books' = Withdrawn(books, s) /\ Distinct(s) /\ Leveled(books, s, t)
          /\ lastImport' = [payload |-> s, settings |-> t] /\ job' = Idle
        BY <1>3, <2>1 DEF FinishImport, Settling
    <2>3. Leveled(books', s, t)
        BY <2>2, LeveledWithdrawn
    <2> QED
        BY <2>2, <2>3 DEF Settling, Idle, Distinct, Leveled, Kept, Mirrors, Buildable, Slack,
                          Submitted, Drafted, Allocated
<1>4. ASSUME job'.pc = "idle", lastImport' = NoImport
      PROVE  Settling'
    BY <1>4 DEF Settling, JustImported
<1>5. CASE \/ \E p \in Payment, n \in 1..Total, t \in Settings : ImportTransfer(p, n, t)
           \/ SubmitInvoice
           \/ \E p \in Payment : SubmitEntry(p) \/ CancelEntry(p) \/ DeleteEntry(p)
           \/ \E n \in 1..Total : PayInvoice(n)
    <2>1. job'.pc = "idle" /\ lastImport' = NoImport
        BY <1>5 DEF ImportTransfer, SubmitInvoice, SubmitEntry, CancelEntry, DeleteEntry, PayInvoice, ByHand
    <2> QED
        BY <1>4, <2>1
<1>6. CASE UNCHANGED vars
    BY <1>6 DEF vars, Settling, JustImported, Distinct, Leveled, Kept, Mirrors, Buildable, Slack,
                Submitted, Drafted, Allocated
<1> QED
    BY <1>1, <1>2, <1>3, <1>5, <1>6 DEF Next

LEMMA SettlingMeans ==
    ASSUME books \in Books, NotBookedTwice, Settling
    PROVE  SecondImportSettles
<1> SUFFICES ASSUME JustImported, NothingReportedCancelled
             PROVE  Again(Again(books)) = Again(books)
    BY DEF SecondImportSettles
<1>1. PICK s \in Seq(Line), t \in Settings :
            s = lastImport.payload /\ t = lastImport.settings /\ Distinct(s) /\ Leveled(books, s, t)
    BY DEF Settling
<1>2. \A i \in DOMAIN s : ~s[i].seen.terminal
    BY <1>1 DEF NothingReportedCancelled, LastSeen
<1>3. Len(s) \in Nat /\ DOMAIN s = 1..Len(s)
    OBVIOUS
<1>4. PICK g : Passes(g, books, s, t, Len(s)) /\ Again(books) = Withdrawn(g[Len(s)], s)
    BY <1>1, <1>3, AgainPasses
<1>5. PICK b : b = g[Len(s)]
    OBVIOUS
<1>6. Stage(books, b, s, t, Len(s))
    BY <1>1, <1>2, <1>4, <1>5, StagesPass
<1>7. b \in Books /\ Leveled(b, s, t) /\ \A i \in DOMAIN s : Done(b, s[i])
    BY <1>3, <1>6 DEF Stage
<1>8. Withdrawn(b, s) = b
    <2>1. \A p \in Payment \ Paid(s) : ~(b.entry[p].status \in Live /\ b.entry[p].allocated > 0)
        BY <1>1, <1>6 DEF Stage, NotBookedTwice
    <2> QED
        BY <1>7, <2>1, WithdrawnNothing
<1>9. Again(books) = b
    BY <1>4, <1>5, <1>8
<1>10. Again(b) = b
    <2>1. PICK h : Passes(h, b, s, t, Len(s)) /\ Again(b) = Withdrawn(h[Len(s)], s)
        BY <1>1, <1>3, AgainPasses
    <2>2. h[Len(s)] = b
        BY <1>2, <1>7, <2>1, FixedPass
    <2> QED
        BY <1>8, <2>1, <2>2
<1> QED
    BY <1>9, <1>10

\* For any number of payments, whatever accountants did before and whatever the
\* import left: where no payment is reported as cancelled, importing the same
\* payload a second time settles the entries, and a third import changes none.
THEOREM ImportsSettle == Spec => []SecondImportSettles
<1>1. Init => Settling
    BY DEF Init, Idle, Settling, JustImported
<1>2. BillInv /\ AmountsInv /\ Settling /\ [Next]_vars => Settling'
    BY SettlingStep DEF BillInv, AmountsInv
<1>3. BillInv /\ AmountsInv /\ Settling => SecondImportSettles
    BY SettlingMeans DEF BillInv, AmountsInv
<1> QED
    BY <1>1, <1>2, <1>3, AmountsInvariant, PTL DEF Spec
=============================================================================
