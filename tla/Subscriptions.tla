---------------------------- MODULE Subscriptions ----------------------------
(***************************************************************************)
(* The webhook subscription of one connection                              *)
(* (services/webhook_management.py): subscriptions at Airwallex for the    *)
(* callback URL of this site, and the id, signing secret and status that   *)
(* Airwallex Settings keep of one of them.  The hourly job repairs, and    *)
(* administrators check, repair and remove, at the same time.              *)
(*                                                                         *)
(* A subscription is known by its number, in order of creation; so is the  *)
(* secret Airwallex signs with.  Airwallex never changes what an existing  *)
(* subscription asks for.  Subscriptions for other URLs are never touched  *)
(* and left out.  Document.save refuses a document that somebody else      *)
(* saved since it was loaded, and with the commit it is one step.          *)
(***************************************************************************)
EXTENDS Naturals, Sequences, FiniteSets

CONSTANTS
    Config,         \* API version and event set a subscription may ask for
    NoEvents,       \* what Settings without a webhook module want
    Administrator,  \* users of the Webhooks buttons
    Hourly,         \* the job reconcile_enabled_subscriptions
    MaxEdits,       \* bound: administrators' actions
    MaxFaults       \* bound: errors, lost answers, deletions at Airwallex

ASSUME SubscriptionsAssumption ==
    /\ NoEvents \notin Config
    /\ Hourly \notin Administrator
    /\ MaxEdits \in Nat /\ MaxFaults \in Nat

VARIABLES
    shown,      \* do Airwallex' list and get answers show the secret?
    asked,      \* what each subscription ever created asks for
    remote,     \* those that exist at Airwallex
    settings,   \* the Airwallex Settings row
    job,        \* what the hourly job and each administrator are running
    edits,      \* administrators' actions left (bound)
    faults      \* faults left (bound)

vars == <<shown, asked, remote, settings, job, edits, faults>>

-----------------------------------------------------------------------------
Process == Administrator \cup {Hourly}

Settings == [enabled: BOOLEAN, wanted: Config \cup {NoEvents}, id: Nat, secret: Nat,
             status: {"", "Configured", "Needs Repair", "Missing", "Removed", "Error"}]

Operation == {"inspect", "ensure", "remove"}

Job == [pc: {"idle", "loaded", "deleting", "creating", "verifying", "saving"},
        op: Operation, settings: Settings, fresh: BOOLEAN,
        keep: Nat, status: {"Configured", "Needs Repair", "Missing", "Removed"},
        secret: Nat, doomed: SUBSET Nat]

\* Settings loaded by get_doc, fresh until somebody else saves them.
Loaded(op, row) ==
    [pc |-> "loaded", op |-> op, settings |-> row, fresh |-> TRUE,
     keep |-> 0, status |-> "Missing", secret |-> 0, doomed |-> {}]

IdleJob ==
    [Loaded("inspect", [enabled |-> FALSE, wanted |-> NoEvents, id |-> 0, secret |-> 0, status |-> ""])
        EXCEPT !.pc = "idle", !.fresh = FALSE]

\* Somebody saves the Settings: the documents of the others are outdated.
Outdated == [p \in Process |-> [job[p] EXCEPT !.fresh = FALSE]]

Saved(p, row) ==
    /\ settings' = row
    /\ job' = [Outdated EXCEPT ![p] = IdleJob]

\* _choose_subscription: the stored one, else the latest; 0 for none.
Preferred(row, S) ==
    IF row.id \in S THEN row.id
    ELSE IF S = {} THEN 0
    ELSE CHOOSE i \in S : \A j \in S : j <= i

\* subscription_matches
Matching(row, S) == {i \in S : asked[i] = row.wanted}

\* Mutant of Usable: any subscription for this URL is adopted.
UsableAny(row, S) == IF shown \/ row.secret # 0 THEN S ELSE {}

\* A matching subscription whose secret is listed, or taken to be the stored one.
Usable(row, S) == IF shown \/ row.secret # 0 THEN Matching(row, S) ELSE {}

\* subscription.get("secret"), and what is stored when there is none
Secret(row, i) == IF shown /\ i # 0 THEN i ELSE row.secret

Status(row, S) ==
    IF S = {} THEN "Missing"
    ELSE IF /\ Preferred(row, S) \in Matching(row, S)
            /\ Secret(row, Preferred(row, S)) # 0
            /\ Cardinality(S) = 1
         THEN "Configured" ELSE "Needs Repair"

-----------------------------------------------------------------------------
Init ==
    /\ shown \in BOOLEAN
    /\ asked = <<>>
    /\ remote = {}
    /\ \E on \in BOOLEAN, w \in Config \cup {NoEvents} :
        settings = [enabled |-> on, wanted |-> w, id |-> 0, secret |-> 0, status |-> ""]
    /\ job = [p \in Process |-> IdleJob]
    /\ edits = MaxEdits
    /\ faults = MaxFaults

Fault == faults > 0 /\ faults' = faults - 1
Edit == edits > 0 /\ edits' = edits - 1

\* ensure_subscription and reconcile_enabled_subscriptions turn away Settings
\* that are disabled or want no events.
Begin(p, op) ==
    /\ job[p].pc = "idle"
    /\ op = "ensure" => settings.enabled /\ settings.wanted # NoEvents
    /\ job' = [job EXCEPT ![p] = Loaded(op, settings)]
    /\ UNCHANGED <<shown, asked, remote, settings, faults>>

BeginHourly == Begin(Hourly, "ensure") /\ UNCHANGED edits

\* Status Skipped.
PassOver ==
    /\ job[Hourly].pc = "idle"
    /\ ~settings.enabled \/ settings.wanted = NoEvents
    /\ UNCHANGED vars

BeginByHand(p, op) == p # Hourly /\ Begin(p, op) /\ Edit

\* The first listing decides what an operation is going to do.
ListToInspect(p) ==
    LET row == job[p].settings
        keep == Preferred(row, remote)
    IN  /\ job[p].pc = "loaded" /\ job[p].op = "inspect"
        /\ job' = [job EXCEPT ![p] = [@ EXCEPT !.pc = "saving", !.keep = keep,
                    !.status = Status(row, remote), !.secret = Secret(row, keep)]]
        /\ UNCHANGED <<shown, asked, remote, settings, edits, faults>>

ListToEnsure(p) ==
    LET row == job[p].settings
        keep == Preferred(row, Usable(row, remote))
    IN  /\ job[p].pc = "loaded" /\ job[p].op = "ensure"
        /\ job' = [job EXCEPT ![p] = [@ EXCEPT !.pc = "deleting", !.keep = keep,
                    !.status = "Configured", !.secret = Secret(row, keep),
                    !.doomed = remote \ {keep}]]
        /\ UNCHANGED <<shown, asked, remote, settings, edits, faults>>

\* Mutant of ListToRemove: an empty stored id is deleted as well.
ListToRemoveBlank(p) ==
    /\ job[p].pc = "loaded" /\ job[p].op = "remove"
    /\ job' = [job EXCEPT ![p] = [@ EXCEPT !.pc = "deleting", !.status = "Removed",
                !.doomed = remote \cup {job[p].settings.id}]]
    /\ UNCHANGED <<shown, asked, remote, settings, edits, faults>>

\* The stored id is deleted too, listed or not.
ListToRemove(p) ==
    /\ job[p].pc = "loaded" /\ job[p].op = "remove"
    /\ job' = [job EXCEPT ![p] = [@ EXCEPT !.pc = "deleting", !.status = "Removed",
                !.doomed = remote \cup ({job[p].settings.id} \ {0})]]
    /\ UNCHANGED <<shown, asked, remote, settings, edits, faults>>

Delete(p, i) ==
    /\ job[p].pc = "deleting"
    /\ i \in job[p].doomed \cap remote
    /\ remote' = remote \ {i}
    /\ job' = [job EXCEPT ![p].doomed = @ \ {i}]
    /\ UNCHANGED <<shown, asked, settings, edits, faults>>

\* The second listing shows the one to keep, or nothing.
Recheck(p) ==
    /\ job[p].pc = "deleting" /\ job[p].doomed = {}
    /\ remote = {job[p].keep} \ {0}
    /\ job' = [job EXCEPT ![p].pc = CASE job[p].op = "remove" -> "saving"
                                      [] job[p].keep # 0 -> "verifying"
                                      [] OTHER -> "creating"]
    /\ UNCHANGED <<shown, asked, remote, settings, edits, faults>>

\* POST /api/v1/webhooks/create, which returns the new secret.
Create(p) ==
    LET new == Len(asked) + 1 IN
    /\ job[p].pc = "creating"
    /\ asked' = Append(asked, job[p].settings.wanted)
    /\ remote' = remote \cup {new}
    /\ job' = [job EXCEPT ![p] = [@ EXCEPT !.pc = "verifying", !.keep = new, !.secret = new]]
    /\ UNCHANGED <<shown, settings, edits, faults>>

\* GET /api/v1/webhooks/{id}
Verify(p) ==
    /\ job[p].pc = "verifying"
    /\ job[p].keep \in Matching(job[p].settings, remote)
    /\ job' = [job EXCEPT ![p].pc = "saving"]
    /\ UNCHANGED <<shown, asked, remote, settings, edits, faults>>

\* Mutant of Save: a stored secret is never replaced.
SaveKeepingSecret(p) ==
    /\ job[p].pc = "saving" /\ job[p].fresh
    /\ Saved(p, [job[p].settings EXCEPT !.id = job[p].keep, !.status = job[p].status,
                    !.secret = IF @ # 0 /\ job[p].op # "remove" THEN @ ELSE job[p].secret])
    /\ UNCHANGED <<shown, asked, remote, edits, faults>>

\* _save_metadata, and the same fields cleared by remove_subscription
Save(p) ==
    /\ job[p].pc = "saving" /\ job[p].fresh
    /\ Saved(p, [job[p].settings EXCEPT !.id = job[p].keep, !.status = job[p].status,
                                        !.secret = job[p].secret])
    /\ UNCHANGED <<shown, asked, remote, edits, faults>>

\* An exception ends the operation and rolls it back.  The hourly job catches
\* it, and saves an Error status unless that save is refused too.
Raise(p) ==
    \/ /\ job' = [job EXCEPT ![p] = IdleJob]
       /\ UNCHANGED settings
    \/ /\ p = Hourly
       /\ Saved(p, [settings EXCEPT !.status = "Error"])

\* Two operations at once: one deletes what the other deletes, keeps or has
\* just created, lists what the other created, or saves first.
Disturbed(p) ==
    \/ job[p].pc = "deleting" /\ ~(job[p].doomed \subseteq remote)
    \/ job[p].pc = "deleting" /\ job[p].doomed = {} /\ remote # {job[p].keep} \ {0}
    \/ job[p].pc = "verifying" /\ job[p].keep \notin Matching(job[p].settings, remote)
    \/ job[p].pc = "saving" /\ ~job[p].fresh

Conflict(p) ==
    /\ Disturbed(p)
    /\ Raise(p)
    /\ UNCHANGED <<shown, asked, remote, edits, faults>>

\* Airwallex is down, the process is killed, or an answer is lost: that of the
\* creation included.
Fail(p) ==
    /\ job[p].pc # "idle"
    /\ Fault
    /\ Raise(p)
    /\ \/ UNCHANGED <<asked, remote>>
       \/ /\ job[p].pc = "creating"
          /\ asked' = Append(asked, job[p].settings.wanted)
          /\ remote' = remote \cup {Len(asked) + 1}
    /\ UNCHANGED <<shown, edits>>

-----------------------------------------------------------------------------
(* Everything else that happens *)

\* An administrator saves the form.
EditSettings(on, w) ==
    /\ Edit
    /\ settings' = [settings EXCEPT !.enabled = on, !.wanted = w]
    /\ job' = Outdated
    /\ UNCHANGED <<shown, asked, remote, faults>>

\* Somebody deletes a subscription at Airwallex.
DeleteElsewhere(i) ==
    /\ i \in remote
    /\ Fault
    /\ remote' = remote \ {i}
    /\ UNCHANGED <<shown, asked, settings, job, edits>>

-----------------------------------------------------------------------------
Continue(p) ==
    \/ ListToInspect(p) \/ ListToEnsure(p) \/ ListToRemove(p)
    \/ \E i \in DOMAIN asked : Delete(p, i)
    \/ Recheck(p) \/ Create(p) \/ Verify(p) \/ Save(p) \/ Conflict(p)

Next ==
    \/ BeginHourly \/ PassOver
    \/ \E p \in Administrator, op \in Operation : BeginByHand(p, op)
    \/ \E p \in Process : Continue(p) \/ Fail(p)
    \/ \E on \in BOOLEAN, w \in Config \cup {NoEvents} : EditSettings(on, w)
    \/ \E i \in DOMAIN asked : DeleteElsewhere(i)

Spec == Init /\ [][Next]_vars

\* Cron starts the hourly job, and what runs goes on.
Fairness == WF_vars(BeginHourly) /\ \A p \in Process : WF_vars(Continue(p))

FairSpec == Spec /\ Fairness

-----------------------------------------------------------------------------
(* Properties *)

\* No operation ever asks Airwallex to delete or verify a subscription that
\* was never created.
TypeOK ==
    /\ shown \in BOOLEAN
    /\ asked \in Seq(Config)
    /\ remote \subseteq DOMAIN asked
    /\ settings \in Settings
    /\ job \in [Process -> Job]
    /\ \A p \in Process : job[p].doomed \subseteq DOMAIN asked
    /\ edits \in Nat /\ faults \in Nat

\* The secret of another subscription is kept only for want of a better: the
\* answers show none, and the subscription it belongs to is gone.
Fits(id, secret) == secret = id \/ (~shown /\ secret \notin remote)

\* What the administrator is shown as Configured verifies deliveries: the
\* secret stored is that of the subscription stored, whoever else repaired,
\* removed or failed half-way, as long as Airwallex' answers show secrets.
\* If they do not, ensure_subscription and inspect_subscription may take what
\* is stored for the secret of another subscription, but never while the one
\* it belongs to exists.
ConfiguredVerifies ==
    settings.status = "Configured" =>
        settings.id # 0 /\ settings.secret # 0 /\ Fits(settings.id, settings.secret)

Healthy ==
    /\ settings.id # 0 /\ settings.secret # 0 /\ Fits(settings.id, settings.secret)
    /\ remote = {settings.id}
    /\ asked[settings.id] = settings.wanted

\* The hourly job brings an enabled connection that wants events back to one
\* subscription that asks for them, from whatever edits, removals, interrupted
\* repairs and lost answers left behind, and then leaves it alone.  Its
\* deliveries verify if Airwallex' answers show secrets; else a wrong secret
\* is left alone as well.
RepairedForGood ==
    <>[](settings.enabled /\ settings.wanted # NoEvents) => <>[]Healthy
=============================================================================
