------------------------------ MODULE Receipts ------------------------------
(***************************************************************************)
(* Receipts of imported card expenses (services/receipts.py): a provider   *)
(* lists candidates, native Airwallex attachments or parts of matching     *)
(* mail, the clear ones become private Files on the Bank Transaction, and  *)
(* its receipt state and a Receipt Match tell the outcome.                 *)
(*                                                                         *)
(* A job imports one expense in one transaction: it looks Files up in the  *)
(* snapshot of its start, and nothing but the row of the Bank Transaction, *)
(* which every import writes, makes two jobs wait for each other.  The     *)
(* compatibility endpoint attaches too, and a patch removes duplicates.    *)
(*                                                                         *)
(* Airwallex shows an expense in versions: it settles, with another date   *)
(* or amount, and what mail tells of it changes.                           *)
(*                                                                         *)
(* Scores are thousandths, with what the double arithmetic makes of them:  *)
(* 0.7999999999999999 is 799, 0.8500000000000001 is 851.                   *)
(***************************************************************************)
EXTENDS Integers, FiniteSets, Sequences, Bags, Functions

CONSTANTS
    Expense,
    Attachment,     \* ids of native Airwallex attachments
    OwnerOf,        \* OwnerOf[a]: their expense
    Content,        \* what a file holds, as its hash tells
    ContentOf,      \* ContentOf[a]
    Message,        \* received mail with attachments
    Part,           \* file names of mail attachments
    PartsOf,        \* PartsOf[m]: the <<file name, content>> of m
    DateOf,         \* DateOf[m]: communication_date; no two mails have the same
    LastVersion,    \* LastVersion[x]: how often the expense x changes (bound)
    Likeness,       \* Likeness[m][x][v]: what the mail m shows of version v of x
    MaxMessages,    \* max_messages of the email provider, 500
    MaxFetched,     \* ids the IMAP provider fetches, 50
    Unnamed,        \* messages without a Message-ID header
    Provider,       \* settings.receipt_provider, those to consider
    Worker,
    NoExpense, NoId, NoMessage,
    MaxImports,     \* bound: imports
    MaxFaults       \* bound: errors, kills, removed mail and requests to the
                    \* compatibility endpoint

Providers == {"Manual", "Airwallex", "Frappe Email Account",
              "Airwallex + Frappe Email Account", "IMAP"}

\* merchant: the whole name (550), or some, two or one of its words; age: a
\* week, a month, or more; recent: not sent 14 days before the expense; found:
\* the first word of the merchant is in the mail; head: what subject and
\* sender alone show.
Features ==
    [merchant: {0, 300, 400, 450, 550}, amount: BOOLEAN, currency: BOOLEAN, age: {0, 50, 100},
     recent: BOOLEAN, found: BOOLEAN,
     head: [word: BOOLEAN, amount: BOOLEAN, currency: BOOLEAN]]

ASSUME ReceiptsAssumption ==
    /\ OwnerOf \in [Attachment -> Expense]
    /\ ContentOf \in [Attachment -> Content]
    /\ PartsOf \in [Message -> SUBSET (Part \X Content)]
    /\ DateOf \in [Message -> Nat] /\ IsInjective(DateOf)
    /\ LastVersion \in [Expense -> Nat \ {0}]
    /\ \A m \in Message, x \in Expense : Likeness[m][x] \in [1..LastVersion[x] -> Features]
    /\ MaxMessages \in Nat /\ MaxFetched \in Nat
    /\ Unnamed \subseteq Message
    /\ Provider \subseteq Providers
    /\ NoMessage \notin Message /\ NoExpense \notin Expense
    /\ \A a \in Attachment \cup {NoId}, m \in Message \cup (1..Cardinality(Message)), n \in Part :
            a # <<m, n>>
    /\ IsFiniteSet(Worker) /\ IsFiniteSet(Message)
    /\ MaxImports \in Nat /\ MaxFaults \in Nat

VARIABLES
    provider,   \* settings.receipt_provider
    version,    \* of the expenses at Airwallex
    native,     \* attachments Airwallex shows
    mailbox,    \* the mail, in order of arrival
    files,      \* private Files on Bank Transactions, with the ids they carry
    state,      \* custom_airwallex_receipt_state
    match,      \* Airwallex Receipt Match
    job,        \* what each worker is importing
    imports,    \* imports left (bound)
    faults      \* faults left (bound)

vars == <<provider, version, native, mailbox, files, state, match, job, imports, faults>>

-----------------------------------------------------------------------------
(* Files and candidates *)

\* A mail attachment is known by its message, over IMAP by the number of the
\* message in the mailbox, and by its file name.
MailId == (Message \cup (1..Cardinality(Message))) \X Part

File == [to: Expense, id: Attachment \cup MailId \cup {NoId}, content: Content]

Candidate == [id: Attachment \cup MailId, content: Content, msg: Message \cup {NoMessage},
              score: 0..1000]

Outcome == {"attached", "missing", "ambiguous", "error"}

\* Matches of the compatibility endpoint are kept apart, as "Windmill".
Match == [to: Expense, key: Message \cup {NoMessage}, windmill: BOOLEAN,
          status: {"Attached", "Held"}]

\* fresh: the expense was not imported when the job started.
Job == [pc: {"idle", "looking"}, to: Expense \cup {NoExpense}, version: Nat, fresh: BOOLEAN,
        files: SUBSET File, matches: SUBSET Match, native: SUBSET Attachment,
        mail: Seq(Message)]

IdleJob == [pc |-> "idle", to |-> NoExpense, version |-> 0, fresh |-> FALSE, files |-> {},
            matches |-> {}, native |-> {}, mail |-> <<>>]

Copies(x, c) ==
    SumFunctionOnSet(files, {f \in BagToSet(files) : f.to = x /\ f.content = c})

Points(shown, points) == IF shown THEN points ELSE 0

\* _score_fields; the sums that a double misses by its last bit.
Rounding(f) ==
    IF ~f.amount THEN 0
    ELSE IF f.merchant = 550 /\ f.age = 50 THEN 1
    ELSE IF f.merchant = 450 /\ (f.age = 100 \/ (f.currency /\ f.age = 0)) THEN -1
    ELSE 0

MailScore(f) ==
    f.merchant + Points(f.amount, 250) + Points(f.currency, 100) + f.age + Rounding(f)

\* _score of the IMAP provider
ImapScore(f) ==
    Points(f.head.word, 500) + Points(f.head.amount, 300) + Points(f.head.currency, 200)

\* AirwallexReceiptProvider.candidates
FromAirwallex(x, seen) ==
    {[id |-> a, content |-> ContentOf[a], msg |-> NoMessage, score |-> 1000] :
        a \in {b \in seen : OwnerOf[b] = x}}

\* The parts of a message that scores 0.75, known by ref.
Parts(m, ref, msg, score) ==
    IF score < 750 THEN {}
    ELSE {[id |-> <<ref, p[1]>>, content |-> p[2], msg |-> msg, score |-> score] : p \in PartsOf[m]}

\* The newest n of S.
Newest(S, date, n) ==
    {m \in S : Cardinality({k \in S : date[k] > date[m]}) < n}

\* The mail that may be looked through for a version of an expense.
Listed(x, v, mail) == Newest({m \in mail : Likeness[m][x][v].recent}, DateOf, MaxMessages)

\* FrappeEmailReceiptProvider.candidates
FromEmail(x, v, seen) ==
    UNION {Parts(m, m, m, MailScore(Likeness[m][x][v])) : m \in Listed(x, v, Range(seen))}

\* IMAPReceiptProvider.candidates
FromImap(x, v, seen) ==
    LET found == {i \in DOMAIN seen : Likeness[seen[i]][x][v].found}
    IN  UNION {Parts(seen[i], i, IF seen[i] \in Unnamed THEN NoMessage ELSE seen[i],
                     ImapScore(Likeness[seen[i]][x][v])) :
                  i \in Newest(found, [k \in found |-> k], MaxFetched)}

\* _provider_candidates: mail only where Airwallex has nothing.
Candidates(j) ==
    LET own == FromAirwallex(j.to, j.native) IN
    CASE provider = "Airwallex" -> own
      [] provider = "Frappe Email Account" -> FromEmail(j.to, j.version, j.mail)
      [] provider = "Airwallex + Frappe Email Account" ->
            IF own # {} THEN own ELSE FromEmail(j.to, j.version, j.mail)
      [] provider = "IMAP" -> FromImap(j.to, j.version, j.mail)

\* Mutant of Near: no margin.
SameScore(top, s) == s >= top

\* confidence >= top_confidence - 0.05 in double arithmetic
Near(top, s) == s >= top - 51

\* Candidates of one message belong together.
Group(c) == IF c.msg = NoMessage THEN c.id ELSE c.msg

\* _select_candidates: all native ones, else those of the best message; none
\* if another one comes near it.
Best(S) == {c \in S : \A d \in S : d.score <= c.score}

Ambiguous(S) ==
    /\ \E c \in S : c.id \notin Attachment
    /\ \E c \in Best(S), d \in S : Group(d) # Group(c) /\ Near(c.score, d.score)

Selected(S) ==
    IF \A c \in S : c.id \in Attachment THEN S
    ELSE {c \in S : \E b \in Best(S) : Group(c) = Group(b)}

\* _attach_candidate: neither the id on any document, nor the content on this
\* one, as far as the job sees.
Unattached(j, S) ==
    {c \in S : \A f \in j.files : f.id # c.id /\ ~(f.to = j.to /\ f.content = c.content)}

\* Mutant of OneEach: the contents are looked up before the first is attached.
OneEachId(S) ==
    {T \in SUBSET S :
        /\ \A c, d \in T : c # d => c.id # d.id
        /\ \A c \in S : \E d \in T : d.id = c.id}

\* Of equal contents, or equal ids, the first is attached.
OneEach(S) ==
    {T \in SUBSET S :
        /\ \A c, d \in T : c # d => c.content # d.content /\ c.id # d.id
        /\ \A c \in S : \E d \in T : d.content = c.content \/ d.id = c.id}

AsFiles(x, S) == SetToBag({[to |-> x, id |-> c.id, content |-> c.content] : c \in S})

\* Mutant of MatchesOf: looked up without the expense.
MatchesOfAll(x) == {r \in match : ~r.windmill}

MatchesOf(x) == {r \in match : ~r.windmill /\ r.to = x}

\* Mutant of Recorded: the expense takes the place of the message.
RecordedByExpense(j, key, status) ==
    {match \cup {[to |-> j.to, key |-> j.to, windmill |-> FALSE, status |-> status]}}

\* _record_match: one match the job sees with this key is updated, else one
\* is inserted.
Recorded(j, key, status) ==
    LET row == [to |-> j.to, key |-> key, windmill |-> FALSE, status |-> status]
        known == {r \in j.matches : r.key = key}
    IN  IF known = {} THEN {match \cup {row}}
        ELSE {(match \ {r}) \cup {[r EXCEPT !.status = status]} : r \in known}

-----------------------------------------------------------------------------
Init ==
    /\ provider \in Provider
    /\ version = [x \in Expense |-> 1]
    /\ native = {}
    /\ mailbox = <<>>
    /\ files = EmptyBag
    /\ state = [x \in Expense |-> "none"]
    /\ match = {}
    /\ job = [w \in Worker |-> IdleJob]
    /\ imports = MaxImports
    /\ faults = MaxFaults

Fault == faults > 0 /\ faults' = faults - 1

-----------------------------------------------------------------------------
(* An import job *)

\* The Files an import of x can come across.
Relevant(f, x) == f.to = x \/ f.id \in MailId

\* The expense was listed, in the version v, before its import began.
Begin(w, x, v) ==
    /\ job[w].pc = "idle"
    /\ job' = [job EXCEPT ![w] = [pc |-> "looking", to |-> x, version |-> v, fresh |-> state[x] = "none",
                                    files |-> {f \in BagToSet(files) : Relevant(f, x)},
                                    matches |-> MatchesOf(x),
                                    native |-> {a \in native : OwnerOf[a] = x},
                                    mail |-> mailbox]]
    /\ imports > 0 /\ imports' = imports - 1
    /\ UNCHANGED <<provider, version, native, mailbox, files, state, match, faults>>

\* The unique expense id: another job inserted the Bank Transaction.
Overtaken(j) == j.fresh /\ state[j.to] # "none"

Reading(w) == job[w].pc = "looking" /\ ~Overtaken(job[w])

\* The outcome is committed with the Files.
Finish(w, added, key, outcome) ==
    /\ files' = files (+) AsFiles(job[w].to, added)
    /\ state' = [state EXCEPT ![job[w].to] = outcome]
    /\ match' \in Recorded(job[w], key, IF outcome = "attached" THEN "Attached" ELSE "Held")
    /\ job' = [job EXCEPT ![w] = IdleJob]
    /\ UNCHANGED <<provider, version, native, mailbox, imports>>

\* import_expense leaves receipts alone.
Leave(w) ==
    /\ Reading(w) /\ provider = "Manual"
    /\ state' = [state EXCEPT ![job[w].to] = IF @ = "none" THEN "pending" ELSE @]
    /\ job' = [job EXCEPT ![w] = IdleJob]
    /\ UNCHANGED <<provider, version, native, mailbox, files, match, imports, faults>>

FindNothing(w) ==
    /\ Reading(w) /\ provider # "Manual"
    /\ Candidates(job[w]) = {}
    /\ Finish(w, {}, NoMessage, "missing")
    /\ UNCHANGED faults

HoldCompeting(w) ==
    /\ Reading(w) /\ provider # "Manual"
    /\ Ambiguous(Candidates(job[w]))
    /\ Finish(w, {}, NoMessage, "ambiguous")
    /\ UNCHANGED faults

\* Some candidates may fail to be saved; one that was attached or known
\* before makes the outcome "attached".
Attach(w) ==
    LET S == Candidates(job[w])
        chosen == Selected(S)
        key == (CHOOSE c \in chosen : TRUE).msg
    IN  /\ Reading(w) /\ provider # "Manual"
        /\ S # {} /\ ~Ambiguous(S)
        /\ \E failed \in SUBSET Unattached(job[w], chosen) :
            /\ \E added \in OneEach(Unattached(job[w], chosen) \ failed) :
                Finish(w, added, key, IF failed = chosen THEN "error" ELSE "attached")
            /\ IF failed = {} THEN UNCHANGED faults ELSE Fault

\* One failed download, or no connection to the mailbox.
ProviderError(w) ==
    /\ Reading(w) /\ provider # "Manual"
    /\ Fault
    /\ Finish(w, {}, NoMessage, "error")

\* The import collides, raises elsewhere, or is killed.
Rollback(w) ==
    /\ job[w].pc = "looking"
    /\ IF Overtaken(job[w]) THEN UNCHANGED faults ELSE Fault
    /\ job' = [job EXCEPT ![w] = IdleJob]
    /\ UNCHANGED <<provider, version, native, mailbox, files, state, match, imports>>

-----------------------------------------------------------------------------
(* The compatibility endpoint and the patch *)

\* ingest_receipt: none or one file, with or without an id, compared by its
\* content only; the state is overwritten whatever it was.
Ingest(x, S) ==
    LET new == {c \in S : Copies(x, c) = 0}
        ids == {NoId} \cup {a \in Attachment : OwnerOf[a] = x /\ S = {ContentOf[a]}}
    IN
    /\ Fault
    /\ state[x] # "none"
    /\ \E id \in ids :
            files' = files (+) SetToBag({[to |-> x, id |-> id, content |-> c] : c \in new})
    /\ state' = [state EXCEPT ![x] = IF S = {} THEN "missing" ELSE "attached"]
    /\ match' = match \cup {[to |-> x, key |-> NoMessage, windmill |-> TRUE,
                             status |-> IF S = {} THEN "Held" ELSE "Attached"]}
    /\ UNCHANGED <<provider, version, native, mailbox, job, imports>>

\* _keeper_rank, the time of creation left open
Rank(f) ==
    (IF f.id = NoId THEN 0 ELSE 2) + (IF f.id \in MailId THEN 1 ELSE 0)

\* Mutant of Duplicates: Files of the same content anywhere.
DuplicatesAnywhere(f) == {g \in BagToSet(files) : g.content = f.content}

Duplicates(f) == {g \in BagToSet(files) : g.to = f.to /\ g.content = f.content}

\* deduplicate_receipt_file_records: of the Files with the content, document
\* and file_url of another of at least their rank some are removed.  Copies by
\* two jobs may have different file_urls, and the patch reads 5000 Files: which
\* stay is left open.
Deduplicate ==
    \E kept \in SUBSET BagToSet(files) :
    \E left \in [kept -> UNION {1..files[f] : f \in kept}] :
        /\ \A f \in kept : left[f] <= files[f]
        /\ \A f \in BagToSet(files) \ kept : \E g \in kept \cap Duplicates(f) : Rank(f) <= Rank(g)
        /\ files' = left
        /\ UNCHANGED <<provider, version, native, mailbox, state, match, job, imports, faults>>

-----------------------------------------------------------------------------
(* Airwallex and the mailbox *)

\* The expense settles, with another date, or its amount is corrected.
Change(x) ==
    /\ version[x] < LastVersion[x]
    /\ version' = [version EXCEPT ![x] = @ + 1]
    /\ UNCHANGED <<provider, native, mailbox, files, state, match, job, imports, faults>>

Upload(a) ==
    /\ a \notin native
    /\ native' = native \cup {a}
    /\ UNCHANGED <<provider, version, mailbox, files, state, match, job, imports, faults>>

MailArrives(m) ==
    /\ \A i \in DOMAIN mailbox : mailbox[i] # m
    /\ mailbox' = Append(mailbox, m)
    /\ UNCHANGED <<provider, version, native, files, state, match, job, imports, faults>>

\* Mail is removed from the IMAP mailbox: the numbers of later mail change.
Expunge(i) ==
    /\ provider = "IMAP"
    /\ Fault
    /\ mailbox' = [k \in 1..(Len(mailbox) - 1) |-> IF k < i THEN mailbox[k] ELSE mailbox[k + 1]]
    /\ UNCHANGED <<provider, version, native, files, state, match, job, imports>>

-----------------------------------------------------------------------------
Advance(w) == Leave(w) \/ FindNothing(w) \/ HoldCompeting(w) \/ Attach(w)

Next ==
    \/ \E w \in Worker, x \in Expense : \E v \in 1..version[x] : Begin(w, x, v)
    \/ \E w \in Worker : Advance(w) \/ ProviderError(w) \/ Rollback(w)
    \/ \E x \in Expense, S \in {{}} \cup {{c} : c \in Content} : Ingest(x, S)
    \/ Deduplicate
    \/ \E x \in Expense : Change(x)
    \/ \E a \in Attachment : Upload(a)
    \/ \E m \in Message : MailArrives(m)
    \/ \E i \in DOMAIN mailbox : Expunge(i)

Spec == Init /\ [][Next]_vars

-----------------------------------------------------------------------------
(* Properties *)

TypeOK ==
    /\ provider \in Provider
    /\ version \in [Expense -> Nat] /\ \A x \in Expense : version[x] \in 1..LastVersion[x]
    /\ native \subseteq Attachment
    /\ mailbox \in Seq(Message)
    /\ IsABag(files) /\ BagToSet(files) \subseteq File
    /\ state \in [Expense -> {"none", "pending"} \cup Outcome]
    /\ match \subseteq Match
    /\ job \in [Worker -> Job]
    /\ imports \in Nat /\ faults \in Nat

\* Imports, redeliveries and retries in any number, through any provider, leave
\* at most one copy of a receipt for each job that can run at the same time,
\* and one of the compatibility endpoint's: the ids and hashes looked up stop
\* every job but those that started before the first copy was there.
CopiesBounded ==
    \A x \in Expense, c \in Content : Copies(x, c) <= Cardinality(Worker) + 1

\* Evidence once on an expense stays there, the patch included.
EvidenceStays ==
    [][\A x \in Expense, c \in Content : Copies(x, c) > 0 => Copies(x, c)' > 0]_vars

\* An expense shown as missing, ambiguous or error has a Held match to review,
\* whatever jobs of this and other expenses recorded since.
HeldIsRecorded ==
    \A x \in Expense : state[x] \in {"missing", "ambiguous", "error"} =>
        \E r \in match : r.to = x /\ r.status = "Held"

\* For the version v of x both messages are listed, are evidence, and come near
\* each other.
Rivals(m, n, x, v) ==
    LET a == MailScore(Likeness[m][x][v])
        b == MailScore(Likeness[n][x][v])
    IN  {m, n} \subseteq Listed(x, v, Range(mailbox)) /\ a >= 750 /\ b >= 750 /\ a - b \in -51..51

Competing(m, n, x) == \A v \in 1..version[x] : Rivals(m, n, x, v)

\* Two messages that compete for an expense are never both attached to it,
\* however the arrival of the mail, the versions of the expense, the jobs and
\* their snapshots interleave.  A message competes only as long as no newer
\* mail pushes it off the listing and no other date or amount of the expense
\* rules it out; and over IMAP mail that was removed competes no more.
CompetitorsNotBoth ==
    provider # "IMAP" =>
        \A f, g \in BagToSet(files) :
            f.to = g.to /\ {f.id, g.id} \subseteq MailId /\ f.id[1] # g.id[1] =>
                ~Competing(f.id[1], g.id[1], f.to)
=============================================================================
