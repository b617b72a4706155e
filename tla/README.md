# TLA+ models of frappe-airwallex

`airwallex_erpnext` is a Frappe app that mirrors an Airwallex account into
ERPNext: webhooks and polling runs hand expenses, bills, payments, transfers
and conversions to importers, and each importer finds or creates the ERPNext
document that carries the Airwallex id. Nearly all of its difficulty is in
what happens when the same thing is seen twice, late, half done, or by two
jobs at once. These modules describe that part, TLC checks it on small
instances and TLAPS proves all their safety properties for every instance.

Paths below are relative to `src/airwallex_erpnext/`.

## 1. Inventory

| component | code | state | operations |
|---|---|---|---|
| Webhook events | `services/webhooks.py`, `api.py`, `tasks.py` | `Airwallex Webhook Event` rows (status, attempts, modified, result), the short queue | store, process, except, reap, re-queue, delete after 90 days |
| Bills and bill payments | `services/bills.py`, `services/payments.py` | one Purchase Invoice per bill, one Payment Entry per payment id | import the bill, insert, update, amend, withdraw entries |
| Sync | `services/sync.py`, `tasks.py` | `last_successful_sync`, sync logs | hourly, daily, on-demand runs over the modules |
| Background jobs | `background.py` | job state in the cache | enqueue, run, report |
| API client | `client.py` | token cache | log in, refresh after a 401, two paginations, download |
| Webhook subscriptions | `services/webhook_management.py` | subscription id, secret and status in Settings; the subscriptions at Airwallex | inspect, ensure, reconcile all, remove |
| Webhook verification | `security.py` | none | signature and age of a delivery |
| Card expenses | `services/expenses.py` | Bank Transaction and a Purchase Invoice, Journal Entry or Expense Claim per expense | import, SYNCED write-back |
| Receipts | `services/receipts.py`, `providers/receipts/`, the compatibility endpoint of `api.py`, a patch | Files, receipt state of the Bank Transaction, `Airwallex Receipt Match` | find candidates, refuse ambiguous ones, attach, ingest, deduplicate |
| Reimbursements | `services/reimbursements.py` | Journal Entry per report | import |
| Banking and balances | `services/banking.py`, `services/balances.py` | Bank Transactions, bank accounts | import |
| Transfers, FX, reversals | `services/transfers.py`, `fx.py`, `reversals.py` | Payment Entries, Journal Entries, credit notes | import, pair the legs of a conversion |
| Suppliers | `services/suppliers.py` | Suppliers, merchant aliases | resolve, create, remember |
| Rules, rates, money | `rules.py`, `services/mappings.py`, `services/exchange_rates.py`, `utils.py` | none | pure functions |
| Reconciliation proposals | `services/reconciliation.py` | proposals | score candidates |
| Migration | `services/migration.py`, `services/compatibility.py` | connection of adopted records | adopt |
| Settings, permissions, capabilities, installation | doctypes, `permissions.py`, `services/capabilities.py`, `install.py` | form fields | validation, probes, custom fields and unique indexes |

How they interact. `api.webhook` verifies a delivery, stores the event and
enqueues `process_event`; `process_event` calls an importer with a resource it
fetches; `process_webhook_queue` (every five minutes) first reaps what hangs
in Processing and then enqueues everything pending. `hourly_recovery` and
`daily_recovery` call `run_sync`, which calls the same importers for whatever
Airwallex lists since the last run. `import_bill` calls `import_bill_payments`
for new and for existing invoices. The components share the ERPNext documents
and the Settings row; nothing else connects them. Importers of the same
resource are kept apart only by unique indexes on Airwallex ids
(`install.py`).

What is hard, component by component:

- *Webhook events.* Two jobs for one event; a reaper that cannot tell a slow
  job from a dead one; retries of what already happened; an exception that
  rolls back the record of its own failure. Right means: nothing is lost,
  nothing is given up early, and a status tells the truth about the books.
- *Bill payments.* Payments appear, change, vanish and are cancelled between
  imports while accountants submit, cancel and pay. Right means: the entries
  never exceed the invoice, no movement is booked twice, every transfer has
  its entry, a repeated import changes nothing, and what a person cancelled
  stays cancelled.
- *Sync.* One cursor for all modules, set at the end of a run that listed
  them one by one, overlapping runs, and items that importers hold until they
  settle. Right means: what no run imported is still in the next window.
- *Subscriptions.* A remote object and a local secret that must agree,
  repaired by steps that can be interrupted and that others take at the same
  time. Right means: when the status says Configured, deliveries verify, and
  the hourly job repairs whatever else it finds.
- *Expenses and suppliers.* Lookup then insert, by concurrent jobs, partly
  without an index (Suppliers), settings that change between two imports, and a
  report to Airwallex that no rollback undoes. Right means: what is reported
  SYNCED is in the books, a merchant gets one supplier, no expense slips
  through the moving window of the runs, and what is approved while they list it
  is booked in the end.
- *Receipts.* Several sources, in any order, looked up in a snapshot with no
  index behind it, and a score that decides whether two mails compete. Right
  means: copies stay bounded, competing evidence is not mixed, evidence is not
  lost, and what is not attached is there to review.
- *API client.* Tokens that end at any moment, cursors nobody vouches for,
  tables that change while they are listed. Right means: no request is done
  twice, a listing that ends is complete, and every call ends.
- *Pure parts.* Rule priority, money that adds up.

`PROJECT.json` lists every hazard at its line with the property that watches
it, or the reason none does yet.

## 2. Modules

### WebhookEvents

The variables are the event rows (`event`, `older` for their creation order),
the jobs waiting (`queue`) and running (`job`, with a program counter that
stands between two database calls of `process_event`), the scheduler job
(`sched`), the resources that have their document (`booked`) and the
connection switch. `Deliver` is `api.webhook`, `Load`/`Skip` the head of
`process_event`, `ClaimStatus` and `ClaimAttempts` its two `db_set`s, `Lookup`,
`UpdateDocument`, `InsertDocument` the handler (an importer reduced to the
find-or-insert they share), `Ignore`, `Hold`, `Return` its three results and
`Except` its except branch, entered by a raising handler, by an event that
always raises (`Poison`) or by a unique index. `SchedList` and `Reap` are
`recover_stale_events` with its listing and its writes apart, `SchedEnqueue`
the rest of `process_webhook_queue`, `Cleanup` the retention.

The constant `Durable` chooses the host. The docstring of
`recover_stale_events` and the test stub describe one where each `db_set` is
visible at once (`Durable = TRUE`); Frappe runs a job as one transaction that
an exception rolls back (`Durable = FALSE`): a snapshot at load, row locks
from the first UPDATE on, a commit at the return. The code has no commit of
its own on this path, so which of the two one assumes decides what its error
handling does. The module models both; `webhook_retry_forever` below is the
difference.

### EventLedger

What `WebhookEvents` promises on a transactional host, with jobs, locks,
attempts and the scheduler left out: an event is taken in once, settled in one
step together with the document its result speaks of, and forgotten only when
settled. `WebhookEvents` instantiates it with the mapping `Shown`: a row that
is absent is `unknown`, one that is Processed or Ignored shows its result
(`ignored`, `held`, `booked`), and every other status is `waiting`; the books
are `booked`. The property is `ImplementsLedger`.

### BillPayments

`books` holds the invoice, the entry of each payment and what was paid by
hand; `job` is the running import. The operators `Available`, `Built`,
`NewPayment`, `KnownPayment`, `RemoveEntry`, `Linked`, `Withdrawn` are the
functions of `payments.py` as functions of the books; `BeginImport`,
`ImportPayment` and `FinishImport` run them in the order of
`import_bill_payments`, and the accountant's actions happen between imports.
So does `ImportTransfer` (`import_transfer` of `transfers.py`): a bill that
gives a payment no id of its own names it by its transfer's id (`_payment_id`),
and both modules then keep one Payment Entry under that id. The transfers
module creates it without a reference to the invoice, in any amount, and leaves
an existing one alone; the bill's next import allocates or amends it.
The payload is chosen payment by payment, so every order and every sequence of
payloads is covered. A running import is one transaction and accountants are
not interleaved with it.

### SyncWindow

`Start` fixes the window (`_start_time`) and the modules (`_modules`) of a
run, `SyncModule` lists one module and takes what has settled, `Finish` sets
the cursor and commits, `Fail` rolls back. Items are created and settle at any
time (`Create`, `Settle`), also while a run is listing other modules, and two
runners overlap. "Settled" stands for whatever an importer waits for: a
settled transaction (`banking.py:18`), an approved bill (`bills.py:22`), a
mapping somebody has to supply.

### Subscriptions

`asked` and `remote` are the subscriptions at Airwallex for this site's
callback URL, `settings` the row that remembers one of them, `job` what the
hourly job and each administrator are doing: the Settings document loaded at
the start (`Begin`), the decision taken on the first listing (`ListToInspect`,
`ListToEnsure`, `ListToRemove`: the three functions of
`webhook_management.py`), and one step per request after it (`Delete`,
`Recheck`, `Create`, `Verify`) up to the save (`Save`, which Frappe refuses if
somebody saved meanwhile). `Conflict` is what happens when another operation
got in between, `Fail` an error, a crash, or a creation whose answer is lost.
Airwallex answers with the secret of a subscription when it creates it;
whether it also does when it lists or gets them the repository does not say,
and the code provides for both (`webhook_management.py:72`, `:106`, `:110`):
`shown`, chosen once at the start. Where nothing is shown, `Usable` adopts a
matching subscription with whatever secret is stored, as the code does.

### Expenses

`import_expense` with everything it calls but the receipts: the Bank
Transaction, the Purchase Invoice or Expense Claim of the posting strategy
(`Posting`), the merchant's Supplier and alias (`Resolved`, `Remembered`:
`services/suppliers.py`), and the SYNCED report (`Reports`). Jobs are
transactions: `seen` is the snapshot a job started with, `own` what it has
written, `told` the expenses it reported. `Blocks` is the wait for a row or an
index key another job has written and not committed, `Collides` a key that was
committed after the snapshot, on which the whole job fails (`Collide`).
`BeginSync` is the hourly or daily run of a connection, `BeginByHand` one an
administrator asks for, of all modules, of expenses only or of another one, dry
or not, and `BeginEvent` the job of one event with the state the event was sent
in. A run takes what `sync_expenses` lists: the expenses created since the
cursor less the overlap (`Asked`), in Airwallex' order and up to
`max_records_per_sync` of them (`Lists`, `Listings`). Instead of the hours the
model keeps what they decide, the `stage` of an expense: *early* while every run
that starts ends within the overlap of its creation, then *late*, *old* when the
overlap is over, and *past* when a committed run has moved the cursor past it
(`Moved`); from then on only a run of expenses alone, which goes back to
`sync_start_date`, lists it. `Age` is the clock. `Import` is one call of
`import_expense`, `Commit` and `Fail` the end of the job; a rollback undoes
`own` and moves `told` to `undone`, as nothing takes a report back. `Create` and
`Approve` are Airwallex, `EditSettings` the administrator; `prompt` remembers
what was approved while it was early. `Resolved` knows the supplier a mapping
rule names and merchants without a name. "Paid Purchase Invoice" is the
strategy "Purchase Invoice" here: it differs in fields only.

What is assumed: a run that started while an expense was early has ended when
the expense is old, that is, the overlap (24 hours unless configured) is longer
than the timeout of a job (an hour for runs by hand); `sync_start_date` lies
before every expense; and Airwallex lists expenses in one order. Single-module
runs are called "expenses" and "other".

### Receipts

`native` and `mailbox` are what Airwallex and the mail account hold, `files`
the Files on Bank Transactions (a bag, as nothing is unique), `state` and
`match` the receipt state and the matches to review. `Candidates` lists what
the configured provider finds in a job's snapshot; the scores of
`_score_fields` (mail account) and `_score` (IMAP) are sums of thousandths,
with what binary arithmetic makes of the sums that miss by a bit, because the
margin of 0.05 in `_select_candidates` is compared in that arithmetic.
The mail account provider looks through the newest
`max_messages` that were sent no earlier than 14 days before the expense
(`Listed`), IMAP through the last 50 that contain the first word of the
merchant. What a mail shows of an expense depends on the version of the
expense: it settles, with another date, or its amount is corrected (`Change`),
and a job works with the version it listed, an older one at times.
`Leave`, `FindNothing`, `HoldCompeting`, `Attach` and `ProviderError` are the
ways `attach_provider_receipts` ends; `Attach` may fail to save some of its
files. A job begins with its snapshot (`Begin`) and ends in one step; that is
all another job can see of a transaction. `Ingest` is the compatibility
endpoint, `Deduplicate` the patch `deduplicate_receipt_file_records`: it
removes only Files of one content, document and `file_url`, among the first
5000, so which of the copies go is left open as long as one of the highest rank
stays. `Upload`, `MailArrives`, `Expunge` and `Change` are the outside world. No
two mails have the same date.

### Client

One call of `AirwallexClient` by one job: a listing by cursors or by page
numbers, a write, or a download. `phase` says where `request()` stands:
`UseCached`, `Login` and `LoginFails` are `authenticate`, `Unauthorized` the
401 that is answered by a forced login and one repetition, `RequestFails`
every other failure, with the request executed or not, `Answer`,
`TakeBookmarked` and `TakeNumbered` a success. Cursors and page contents are
any function Airwallex may answer with, circles included; records are inserted
and deleted anywhere in a numbered table between two pages (`Insert`,
`Delete`), and tokens are withdrawn or run out at any moment (`Withdraw`,
`Tick`). `executed`, `spoilt`, `start` and `shrunk` are history.

### MC and proof modules

The `MC...` modules define the events, payloads, items, people, settings,
mail and likenesses of the runs. The modules `...Proofs` hold the theorems of
the module they are named after; `SumProofs` holds lemmas about sums over
finite sets.

## 3. Runs

| run | instance | shows |
|---|---|---|
| `webhook_durable` | 1 event, 2 deliveries, 2 workers, 2 faults, limit 2, `db_set` durable | no attempt is invented, no early Dead Letter, a row that says `booked` has its document, retention never takes a row from a job |
| `webhook_transactional` | 2 events of one bill, 2 workers, 2 faults, transactions | what becomes visible refines `EventLedger`; outcomes are final, both events settle |
| `webhook_settles` | a poisonous and an unsupported event, listing of 1 row, 1 fault, `db_set` durable | both settle, the poisonous one as Dead Letter |
| `bill_payments` | 2 payments, total 3, amounts 0, 2, 3, their transfers 1 to 3 | entries stay within the invoice, nothing is booked twice, every transfer has its entry, a second import settles, what a person cancelled stays cancelled |
| `sync_window` | 2 overlapping runners, 2 modules, 6 hours, overlap 2, 2 failures | what settles within the overlap stays in the window until it is imported, and is imported |
| `subscriptions` | the hourly job and an administrator, 2 event sets, 2 edits or operations by hand, 1 fault | with secrets shown Configured means verifying, without them the stored secret is never that of another existing subscription; one good subscription is restored for good |
| `expenses` | 2 workers, 2 expenses of one merchant, one without its name and one that ages, listings of 1, 4 settings, 1 edit or run by hand, 1 fault | what is reported SYNCED is booked as the strategy asks, one supplier |
| `expenses_settle` | 2 workers, 1 expense that ages, 3 settings with everything switched on, 2 faults | no expense slips through the moving window; one that was approved early enough is booked |
| `receipts` | 2 workers, 3 imports, 2 expenses, one in 2 versions, 1 native attachment, 2 competing mails and a third, listings of 2, 3 providers, 1 fault | copies are bounded, evidence stays, competing mails are not mixed, what failed is held for review |
| `client` | 2 cursors, pages of 0 to 2 records, tables of up to 3 records listed by twos, at most 4 records, 1 fault | nothing is executed twice, ended tokens fail no call, listings are complete, every call ends |

Bounds, and why they are enough. Two workers make every race of one event;
a third adds another copy of one of them. `MaxAttempts` is 1 or 2, so both
sides of the limit are met. Two deliveries give a redelivery at every point of
the first one's life, after its deletion included. Two faults allow a failure
during the recovery from another. `QueueLimit = 1` makes the bounded listings
bite with two events. In `bill_payments` two partial payments exceed the
total, one alone may equal it, and the number of imports is unbounded;
`SecondImportSettles` was also checked with three payments of amounts 1 to 3
against a total of 4. In `sync_window` a run takes up to an hour, the overlap
is two and the clock runs past cursor plus overlap twice. In `subscriptions`
every step of one operation meets every step of another; three actions by hand
(2.4 million states) show nothing new.

In `expenses` the four settings are everything on, postings guarded, Bank
Transactions only, and claims that lack an employee, so all ways an import
ends are met but the creation of a claim, which differs from that of an
invoice in the key only; two expenses with listings of one make every run
stop at `max_records_per_sync`, and one of them passes through all stages. The
jobs that may start are not bounded (2.0 million states). Whether an expense is
imported in the end depends on what happens to this expense: runs take
expenses one after the other, and what another expense of the same run does to
it is to make the whole run fail, which the faults and collisions do here.
`expenses_settle` has one expense therefore, whose three settings are invoices
with the supplier found by name or named by a rule, and claims (35,000 states);
two faults let the run that makes good for a failed one fail, too. In
`receipts` one mail scores 0.8 for both expenses and the other
0.8500000000000001 for the first, which is on the edge of the margin; the
second holds the native receipt twice, and a third mail that matches nothing
takes one of the two places of the listings, so that either competitor can be
pushed off. The second version of the first expense rules out the first mail.
Three imports are two at once and one before or after them, which is what a
copy too many takes (1.0 million states). In `subscriptions` the instance
starts with and without shown secrets. In `client` two cursors give every chain, circle and
repetition of three pages, pages of two records and a table of three give a
full page before and at the end of a listing, and both sides of `MaxItems` are
met. One fault is an error at any one step; further ones repeat it. Runs with
liveness properties use no symmetry.

The violation runs each show a line of the documentation that the code does
not keep:

| run | what happens |
|---|---|
| `webhook_retry_forever` | in a transactional job the raise after `db_set("status", "Dead Letter")` rolls it back with the attempts: a failing event is retried for ever |
| `expense_alias` | aliases are looked up by connection but are unique over all connections: with one merchant in two connections, every import of the second ends with a duplicate key |

More observations were made with the models and have no run of their own.
Where a change of an instance shows one of them, it is named.

- *Webhooks.* The guard of `process_event` knows Processed and Ignored only, so
  a redelivered Dead Letter is processed again, although `docs/webhooks.md:23`
  calls that state terminal. On a transactional host the reaper has nothing to
  reap (`OnlyOutcomesVisible`): Processing is never visible, and a killed job
  leaves its event as Received. With one poisonous event for each of the
  hundred places of the listing, younger events are re-queued by nobody there;
  `EventsSettle` on that host is checked without poison.
- *Bill payments.* A second import of an unchanged payload can amend submitted
  entries, because entries of withdrawn payments are cancelled after the others
  were allocated; the docstring at `services/payments.py:32` says a repeated
  run is idempotent. `SecondImportSettles` is what holds. A payment reported as
  cancelled is booked when it has no entry, hence again after its entry was
  cancelled. An entry that allocates nothing has no reference row, so the
  withdrawal loop does not find it; `NotBookedTwice` excepts such entries.
  A payment that has an id of its own is unknown to the transfers module under
  that id: with both modules switched on its transfer gets a second entry,
  although the docstring of `import_bill_payment` (`services/payments.py:26`)
  calls transfer payments safe to mirror. `import_transfer` does not look at
  the transfer's status, so a payment the bill reports as cancelled is
  withdrawn by one module and created again by the other for as long as its
  transfer is listed.
- *Sync.* A run of one module moves the cursor of all modules (`OnDemand` not
  empty). The window is over creation times, the daily run's included: an item
  held until it settles is listed by no run once the overlap has passed, and
  only expenses and reimbursements have webhooks (an item outside
  `PromptIsImported`'s premise). A run stopped by `max_records_per_sync` moves
  the cursor past what it left (`MaxItems` smaller than a listing). In each of
  the three, `NothingSkipped` fails. `Expenses` has the same window, and its
  liveness properties say so: an expense that is approved later than the overlap
  after its creation, and whose event is lost, is booked by no scheduled run
  (`ApprovedAreBooked` speaks of `prompt`); a run of another module by hand
  moves the cursor past an expense nobody has imported (`Undisturbed` asks for no
  edits left), and so does a full listing.
- *Subscriptions.* If Airwallex' answers show no secret, a matching subscription
  is adopted with whatever secret is stored (`webhook_management.py:72`), that of
  a deleted one for instance when the answer of the creation was lost; it is
  shown as Configured, its deliveries fail to verify, and no later check or
  repair notices. `docs/webhooks.md:11` says that Check Webhook compares the
  secret, `CHANGELOG.md:31` that it is verified through the Airwallex API. What
  still holds is in `ConfiguredVerifies`: the wrong secret never belongs to a
  subscription that exists. `ConfiguredVerifies` without the second half of
  `Fits` fails there. A removed subscription is back after an
  hour: `Remove Webhook` does not disable anything, and the hourly job creates
  what is missing (`RepairedForGood` is that behaviour seen from the other
  side). A removal raises for ever while the stored id no longer exists at
  Airwallex, as it is deleted whether listed or not.
- *Expenses.* A dry run creates the merchant's Supplier and its alias, because
  `resolve_supplier` comes before the test of `dry_run`
  (`services/expenses.py:111` and `:147`), although `README.md:43` says it
  creates no integration records. One expense whose import raises rolls back
  the whole run, its other imports and the Failed row of its own log, while
  what was reported to Airwallex stays reported (`undone`). When the strategy
  changes between two imports of one expense, it gets an invoice and a claim:
  each is looked for under its own key.
- *Receipts.* `docs/receipts.md:3` says that source identifiers and content
  hashes prevent duplicate attachments. They are looked up in the snapshot of
  the job and backed by no index, so two jobs of one expense (an event and a
  sync run) attach the same receipt twice, and the compatibility endpoint may add
  a copy of its own. `CopiesBounded` says how many there can be; with one copy
  as the bound it fails. `docs/receipts.md:23` says that
  competing messages are held instead of attached. They are compared only among
  what one import lists, for the version of the expense it has: when one was
  attached, and then leaves the 14 days before the expense because `settled_at`
  takes the place of `created_at`, or is pushed off the 500 newest, the other is
  attached as well (`frappe_email.py:31`, `:37`, `:52`); and likewise when a
  correction of the amount changes a score. `CompetitorsNotBoth` is what holds;
  for messages that compete in one version only it fails. A Held match without a message stays Held when a later import
  attaches the receipt, since that one is recorded under the message's id.
  Over IMAP an attachment is known by the number of its message in the
  mailbox, which changes when mail is removed: another message's part then
  counts as known and is skipped, and the expense is shown as `attached`
  without a File. The same happens when one mail matches two expenses: its
  parts are attached to the first one imported. Over IMAP a mail without
  Message-ID that has two parts competes with itself. Whether 0.80 competes
  with 0.85 depends on how each sum was rounded.
- *Client.* `download()` does not refresh a token that ended, and a receipt
  then fails with an error. Removals during a numbered listing shift records
  past the page to come, and they are missed (`shrunk`). A server that caps
  pages below `page_size` would end every numbered listing at its first page,
  and a cursor that is not a string is never found among `seen_pages`, which
  hold strings: the model assumes neither happens (`ClientAssumption`).

## 4. Fairness

`WebhookEvents`: the queue is first in first out, so a waiting job is taken
infinitely often or served (SF on `Load`/`Skip` of each event); a running job
continues, and a row lock it waits for is granted to it in the end (SF on
`Advance`); cron and the clock go on (WF on `Scheduler`, `BecomesStale`).
Nothing is assumed of Airwallex, of redeliveries, or of the administrator: the
liveness properties are conditional on the connection staying enabled, because
the reaper lists enabled connections only. Faults are finitely many.
`SyncWindow`: cron keeps starting incremental runs on each runner and a
started run continues (WF); `Tick` needs no fairness. `Subscriptions`: cron
keeps starting the hourly job (WF on `BeginHourly`) and every operation that
runs goes on (WF on `Continue`); administrators need do nothing, and
`RepairedForGood` is conditional on Settings that stay enabled and want
events. `Expenses`: a running job goes on, a lock it waits for included (SF on
`Advance` of each worker), and the scheduler starts a sync run of every
connection again and again (SF on `BeginSync`); the clock (`Age`), events, approvals
and administrators need not come, and the properties are conditional on settings
that stay as they are described. `Client`: a job goes on (WF on `Step`), as
every request has a timeout; tokens may be withdrawn for ever. No run of
`BillPayments` or `Receipts` is about liveness. Deadlock is checked everywhere
but in `client`, where a call that has returned or raised is the end.

## 5. Proofs

The theorems hold for every value of the constants that satisfies the named
assumption of the module (`ExpensesAssumption`, `ReceiptsAssumption` and so on),
which says what kind of thing each constant is, for `Receipts` that ids of
native attachments are never those of mail parts, and for `Client` that the end
of a listing is no cursor and no page number. Where something is counted or
summed the set is finite: payments of a bill, workers, mail, records.

Every safety property the passing runs check is proved, the refinement
included; so is every type invariant.

*WebhookEventsProofs*, for any events, workers, limits and fault budgets:
`TypeCorrect`; `NeverDeadLetteredEarly` (`NoPrematureDeadLetter`);
`AttemptsAreTrue` (`AttemptsCounted`); `ResultsAreTrue` (`ResultIsBooked`); `RowsAreKept` (`RowsOutliveJobs`); and for
`Durable = FALSE` `TransactionsHideAttempts` (`OnlyOutcomesVisible`) and
`TransactionsKeepOutcomes` (`DoneStaysDone`).

The argument. `NoPrematureDeadLetter` is not inductive: `attempts` is copied
into the document a job loads, into its transaction and back, so a Dead Letter
can be written from any of the copies. `AttemptsCounted` bounds every copy by
the history `claims`, but a redelivery after retention sets `claims` back to
zero, which is harmless only because no job and no reaper then holds the event:
that is `RowsOutliveJobs`, proved first. `LookupsTrue`, a definition of
the proof module, strengthens `ResultIsBooked`: what a job saw or inserted is, or will at its commit be,
booked. Each is proved by one step per action, and the theorems combine them.

The same module shows `TransactionsImplementLedger` (`ImplementsLedger`) for
`Durable = FALSE`. On the invariant above, every step of `WebhookEvents` either
changes nothing of what is shown or is `TakeIn`, `Settle` or `Forget`; the one
that needs an argument is the commit of a job, where the result written must be
the subject's and the document must be among what the job found or inserted.

*SyncWindowProofs*: `TypeCorrect`, and `WindowCovers` (`NothingSkipped`) for
any number of overlapping and failing runs, provided there are no
single-module runs and no truncation (`Unrestricted`). `NothingSkipped` speaks
of the cursor only, but what moves the cursor was listed long before: the
inductive invariant says of every running run that its window reaches back by
the overlap before its start and holds every item not yet imported, and that
what it has not taken from the modules it is done with settled after it began.
At the end of the run such an item is at most `RunLimit` old as a settled item,
hence created less than `Overlap` before the new cursor.

*SubscriptionsProofs*: `TypeCorrect` (no operation touches a subscription that
was never created, or subscribes to no events) and `ConfiguredIsVerified`
(`ConfiguredVerifies`), with or without shown secrets, for any number of
administrators, edits and faults. An operation decides on its first listing and saves much
later, so the invariant (`Secured`) says what it carries in between: where
answers show secrets, from the listing or the creation on, that of the
subscription it keeps. Where they do not, an operation may hold another's secret
for a while, but only until its second listing has shown that the other is gone,
and a subscription that is gone never comes back. That the preferred subscription exists at all (`Latest`: a bounded set
of numbers has a greatest) needs an induction; it is done by the minimal
element of a well-founded relation.

*SumProofs* has no theorem of its own. `SumFunctionOnSet` of the community
modules adds in an order nobody knows; its lemmas say that the sum is a number,
that one element can be taken out of it, that it depends on the elements only
and that a part sums to no more. The induction they need goes over the subsets
of a finite set: of the subsets for which a claim is false one would be
smallest (`WFMin`, a theorem without an operator parameter). The same argument
over numbers (`Climb`) serves for the lines of a payload.

*BillPaymentsProofs*, for any number of payments, payloads, imports, transfers
and accountants, in three parts.

- `TransfersAreBooked` (`TransfersBooked`), `NeverBookedTwice`
  (`NotBookedTwice`) and `CancelledStays` (`CancelledByHandStays`). An import
  goes through the payments one by one, so the invariant (`Mirrored`) follows
  it: what it has been past agrees with the payload it carries, and what it has
  not been past is as it was before.
- `BillTypes` (`TypeOK`), `NeverOverallocates` (`NeverOverallocated`) and
  `DraftsAlwaysFit` (`DraftsFit`). That submitted entries fit is not inductive,
  as an import may submit what a draft held. The invariant (`Fits`) bounds the
  submitted allocations by what is not paid by hand and both kinds together by
  the total. A step changes one entry; `EntryAmounts` splits every sum into the
  share of this entry and the rest, and `_available_outstanding` is the total
  less payments by hand and the rest, or nothing.
- `ImportsSettle` (`SecondImportSettles`). The invariant (`Settling`) says what
  an import leaves: every line's entry has the amount reported or less
  allocated, and either the invoice has something left or nothing at all (`Slack`
  is not negative), or no line holds any of it. The negative case is real:
  accountants may pay by hand what drafts had promised. From there the second
  import takes, line by line, the entry to its amount or the slack to zero, and
  a line whose entry is there is left alone by every later one (`DoneFixed`).
  Payments reported as cancelled are excluded by the property: the code books a
  new one and withdraws it at the next import.

*ExpensesProofs*: `TypeCorrect`, `SyncedBooked` (`SyncedIsBooked`) and
`SupplierOnce` (`OneSupplier`), for any connections, expenses, workers,
settings and faults. `SyncedIsBooked` needs to know what stands behind a
report between the report and the commit. The invariant says that a running
job's snapshot is contained in the books (nothing is ever deleted from them),
that no two jobs hold the same Bank Transaction, and that what a job has told
Airwallex is vouched for by the books and its own writes together.
`OneSupplier` has no index to lean on: it holds because whoever creates a
supplier also writes the alias, or sees one of its connection that is
disabled; at most one unfinished transaction holds the alias key, and the alias
is never replaced once it is committed.

*ReceiptsProofs*: `HeldStaysRecorded` (`HeldIsRecorded`), `CompetitorsApart`
(`CompetitorsNotBoth`), `CopiesAreBounded` (`CopiesBounded`), `EvidenceIsKept`
(`EvidenceStays`) and `ReceiptTypes` (`TypeOK`). For `CompetitorsApart` a File
must be related to the moment it was attached: the invariant (`Sifted`)
says that every File of a mail was the clear choice among what was listed for
some version of the expense in some beginning of the mailbox, and that while
mail only arrives every snapshot is such a beginning. Of two beginnings one
contains the other; mail that is listed now was listed whenever it was there,
as newer mail only pushes it off; and so in the longer one both messages would
have competed, in whatever version. For `CopiesAreBounded` the copies alone are not inductive, as any job
may attach one more: the invariant (`Counted`) counts with them the jobs that
looked before there was one (`Lookers`). A copy more is a looker less, a job
only becomes a looker where there is no copy, and the endpoint and the patch
take copies away or add the first. `ReceiptTypes` needs to know that the mail
is distinct, as candidates without a name are numbered, and that no job has
seen more mail than there is (`Typed`).

*ClientProofs*: `WritesOnce` (`ExecutedOnce`), `RefreshIsEnough`
(`RefreshSuffices`), `ListingsAreComplete` (`ListingComplete`) and
`ClientTypes` (`TypeOK`), for any number of failures, records, pages and
withdrawals. A request that is still being tried was not executed, and a second
try that is going to be refused has a token that was withdrawn after the forced
login. `ListingComplete` speaks of listings that have returned; the invariant
(`ListInv`) says what a listing under way has: by bookmarks the records of the
pages in `seen`, each once, and by numbers every record of the start that does
not stand in the table behind the page it asks for next, unless records were
removed.

Only model-checked: the liveness properties (`EventsSettle`,
`FailuresEndInDeadLetter`, `PromptIsImported`, `CreatedIsImported`,
`ApprovedAreBooked`, `CallEnds`, `RepairedForGood`), which need ENABLED under
fairness, and the two disagreements the violation runs show.

## 6. Not modelled, and why

- *Webhook verification.* Cryptography and a time window; a delivery that
  fails it changes nothing.
- *HTTP, mailboxes, parsing and rendering* are I/O. `Client` has their
  outcomes, `Receipts` what a message shows of an expense.
- *Money.* Currency conversion is left out of `BillPayments`, amounts and
  dimensions out of `Expenses`. Sync logs and the documents' other fields do
  not influence control.
- *ERPNext and Frappe* are external: submission, cancellation and outstanding
  amounts are modelled as `payments.py` relies on them, transactions, row
  locks, unique indexes and the refusal of a stale save as the database and
  Frappe provide them. Dry runs are part of `Expenses` only.
- *Reimbursements* are a lookup and an insert by a unique id, which
  `WebhookEvents` has for any resource. *Banking, balances, FX and reversals*
  are such importers, too, except for what they share with one another; of
  the transfers `BillPayments` has those that pay its bill. See the plan.
- *Reconciliation proposals, capabilities and catalog* score or list and write
  nothing that another part reads. *Mapping rules, exchange rates* are pure.
- *Migration* is one sequential sweep started once by an administrator.
- *Background jobs* appear as the runs of one module in `SyncWindow`; their
  cached state is shown to the administrator and read by nothing else.
- *Settings, permissions, installation* are validation and declarations. The
  switches are constants or inputs of the modules, the unique indexes guards.

## 7. Plan

What is left, in order of importance:

1. `BillPayments` on a durable host, where an amendment may be interrupted
   between clearing the id and inserting, and with payloads out of order
   (versions).
2. `Movements`: a bank transaction and a transfer or an expense that are the
   same movement of money, imported by different modules; the legs of a
   conversion; reversals.
3. `PureAlgorithms`: mapping rules and conversions against a reference
   definition.
4. `BackgroundJobs` (the cached state of a killed job) and `Migration` over
   several connections.
