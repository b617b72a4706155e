------------------------------- MODULE Client -------------------------------
(***************************************************************************)
(* The API client (client.py): one job makes one call of it.  A listing by *)
(* bookmarks or by page numbers is a sequence of requests, a write is one, *)
(* and a download does not go through request().  The token is cached,     *)
(* refreshed when its time is nearly up, and once when Airwallex answers   *)
(* 401.  Tables change while they are listed, answers get lost, and a      *)
(* token can be withdrawn at any time.                                     *)
(***************************************************************************)
EXTENDS Naturals, Sequences, FiniteSets, SequencesExt

CONSTANTS
    Cursor,         \* values of page_after, strings as Airwallex's are
    First, None,    \* the page asked for without a cursor; no cursor
    PageLimit,      \* bound: records on a bookmarked page
    Record,         \* records of a numbered table (a bound)
    PageSize,       \* page_size of a numbered listing
    MaxItems,       \* max_items
    MaxFaults       \* bound: failed requests

\* Airwallex returns as many records as page_size asks for, at most 1000.
ASSUME ClientAssumption ==
    /\ First \notin Cursor /\ None \notin Cursor \cup {First} \cup Nat
    /\ PageSize \in 1..1000 /\ IsFiniteSet(Record)
    /\ MaxItems \in Nat \ {0} /\ PageLimit \in Nat /\ MaxFaults \in Nat

VARIABLES
    op,         \* what the job calls
    phase,      \* where the call is
    held, fresh,\* the client has a token, and its _expires_at is far enough
    live,       \* Airwallex accepts the token held
    page,       \* the cursor or page_num to ask for
    seen,       \* seen_pages
    yielded,    \* what the listing gave so far
    follow, content,    \* Airwallex: the bookmarked pages
    table,      \* Airwallex: the numbered records
    start,      \* the records of the table when the listing began (history)
    shrunk,     \* records were removed from it meanwhile (history)
    executed,   \* how often Airwallex executed the current request (history)
    spoilt,     \* the token was withdrawn after the forced refresh (history)
    faults      \* faults left (bound)

client == <<held, fresh, page, seen, yielded>>
server == <<follow, content, table, start, shrunk>>
history == <<executed, spoilt>>
vars == <<op, phase, live, client, server, history, faults>>

-----------------------------------------------------------------------------
Pages == {First} \cup Cursor

Lists == {"bookmark", "numbered"}

Init ==
    /\ op \in {"bookmark", "numbered", "write", "download"}
    /\ phase = "authenticate"
    /\ held = FALSE /\ fresh = FALSE /\ live = FALSE
    /\ page = IF op = "numbered" THEN 0 ELSE First
    /\ seen = {} /\ yielded = <<>>
    /\ follow \in IF op = "bookmark" THEN [Pages -> Cursor \cup {None}] ELSE {[p \in Pages |-> None]}
    /\ content \in IF op = "bookmark" THEN [Pages -> 0..PageLimit] ELSE {[p \in Pages |-> 0]}
    /\ table \in IF op = "numbered" THEN {SetToSeq(S) : S \in SUBSET Record} ELSE {<<>>}
    /\ start = table /\ shrunk = FALSE
    /\ executed = 0 /\ spoilt = FALSE
    /\ faults = MaxFaults

Fault == faults > 0 /\ faults' = faults - 1

-----------------------------------------------------------------------------
(* authenticate *)

\* The cached token serves.
Cached == held /\ fresh

\* Mutant of Forced: the forced refresh looks at the cache as well.
NotForced == ~Cached

\* authenticate(force): a 401 means a login whatever the cache says.
Forced == phase = "refresh" \/ ~Cached

UseCached ==
    /\ phase \in {"authenticate", "refresh"} /\ ~Forced
    /\ phase' = IF phase = "authenticate" THEN "send" ELSE "repeat"
    /\ UNCHANGED <<op, live, client, server, history, faults>>

\* Clocks differ, and a token may be given for less than 30 seconds.
Login ==
    /\ phase \in {"authenticate", "refresh"} /\ Forced
    /\ phase' = IF phase = "authenticate" THEN "send" ELSE "repeat"
    /\ held' = TRUE /\ fresh' \in BOOLEAN /\ live' = TRUE
    /\ UNCHANGED <<op, page, seen, yielded, server, history, faults>>

LoginFails ==
    /\ phase \in {"authenticate", "refresh"} /\ Forced
    /\ Fault
    /\ phase' = "raised"
    /\ UNCHANGED <<op, live, client, server, history>>

-----------------------------------------------------------------------------
(* request, download *)

Asking == phase \in {"send", "repeat"}

\* Airwallex does not accept the token: request() refreshes it and repeats,
\* once; download() raises.
Unauthorized ==
    /\ Asking /\ ~live
    /\ phase' = IF phase = "send" /\ op # "download" THEN "refresh" ELSE "raised"
    /\ UNCHANGED <<op, live, client, server, history, faults>>

\* Mutant of AfterFailure: any error is answered by a refresh.
RefreshOnAny == IF phase = "send" /\ op # "download" THEN "refresh" ELSE "raised"

\* Only a 401 is repeated.
AfterFailure == "raised"

\* A 403, 429 or 5xx, no connection, or a timeout: the request was executed
\* or it was not.
RequestFails ==
    /\ Asking /\ live
    /\ Fault
    /\ executed' \in {executed, executed + 1}
    /\ phase' = AfterFailure
    /\ UNCHANGED <<op, live, client, server, spoilt>>

Answer ==
    /\ Asking /\ live /\ op \notin Lists
    /\ executed' = executed + 1
    /\ phase' = "returned"
    /\ UNCHANGED <<op, live, client, server, spoilt, faults>>

-----------------------------------------------------------------------------
(* paginate_bookmark, paginate_numbered *)

\* Mutant of Upto: a page is given whole.
WholePages(all) == all

\* At most max_items.
Upto(all) == SubSeq(all, 1, IF Len(all) < MaxItems THEN Len(all) ELSE MaxItems)

\* The caller gets the records of a page.  The request for
\* the page next is another call of request(), None ends the listing.
Take(records, next) ==
    LET all == yielded \o records IN
    /\ Asking /\ live
    /\ yielded' = Upto(all)
    /\ IF next = None \/ Len(all) >= MaxItems
       THEN /\ phase' = "returned"
            /\ executed' = executed + 1
            /\ UNCHANGED <<page, spoilt>>
       ELSE /\ phase' = "authenticate"
            /\ page' = next
            /\ executed' = 0 /\ spoilt' = FALSE
    /\ UNCHANGED <<op, held, fresh, live, server, faults>>

\* Mutant of Remember: seen_pages stays empty.
Forget(c) == {}

Remember(c) == seen \cup ({c} \ {None})

\* A cursor that came before ends the listing.
TakeBookmarked ==
    LET cursor == follow[page] IN
    /\ op = "bookmark"
    /\ Take([i \in 1..content[page] |-> <<page, i>>], IF cursor \in seen THEN None ELSE cursor)
    /\ seen' = Remember(cursor)

\* Mutant of Following: a full page ends the listing as well.
FullPageEnds(records) == IF Len(records) <= PageSize THEN None ELSE page + 1

\* A page that is not full is the last one.
Following(records) == IF Len(records) < PageSize THEN None ELSE page + 1

TakeNumbered ==
    /\ op = "numbered"
    /\ LET from == page * PageSize
           to == IF Len(table) < from + PageSize THEN Len(table) ELSE from + PageSize
           records == SubSeq(table, from + 1, to)
       IN  Take(records, Following(records))
    /\ UNCHANGED seen
-----------------------------------------------------------------------------
(* Airwallex, time *)

\* The token is withdrawn, or ends before the client thinks it does.
Withdraw ==
    /\ live
    /\ live' = FALSE
    /\ spoilt' = (spoilt \/ phase = "repeat")
    /\ UNCHANGED <<op, phase, client, server, executed, faults>>

\* Less than 30 seconds are left of the token.
Tick ==
    /\ fresh
    /\ fresh' = FALSE
    /\ UNCHANGED <<op, phase, live, held, page, seen, yielded, server, history, faults>>

Insert(r) ==
    /\ op = "numbered" /\ r \notin ToSet(table)
    /\ \E i \in 1..(Len(table) + 1) : table' = InsertAt(table, i, r)
    /\ UNCHANGED <<op, phase, live, client, follow, content, start, shrunk, history, faults>>

Delete(i) ==
    /\ table' = RemoveAt(table, i)
    /\ shrunk' = TRUE
    /\ UNCHANGED <<op, phase, live, client, follow, content, start, history, faults>>

-----------------------------------------------------------------------------
Done == phase \in {"returned", "raised"}

Step ==
    \/ UseCached \/ Login \/ LoginFails
    \/ Unauthorized \/ RequestFails \/ Answer
    \/ TakeBookmarked \/ TakeNumbered

Next ==
    \/ Step
    \/ ~Done /\ (Withdraw \/ Tick \/ (\E r \in Record : Insert(r))
                \/ (\E i \in DOMAIN table : Delete(i)))

Spec == Init /\ [][Next]_vars

\* A running job goes on: every request has a timeout.
FairSpec == Spec /\ WF_vars(Step)

-----------------------------------------------------------------------------
(* Properties *)

TypeOK ==
    /\ op \in Lists \cup {"write", "download"}
    /\ phase \in {"authenticate", "send", "refresh", "repeat", "returned", "raised"}
    /\ held \in BOOLEAN /\ fresh \in BOOLEAN /\ live \in BOOLEAN
    /\ page \in Pages \cup Nat /\ seen \subseteq Cursor
    /\ Len(yielded) <= MaxItems
    /\ follow \in [Pages -> Cursor \cup {None}] /\ content \in [Pages -> Nat]
    /\ ToSet(table) \cup ToSet(start) \subseteq Record
    /\ shrunk \in BOOLEAN /\ executed \in Nat /\ spoilt \in BOOLEAN /\ faults \in Nat

\* client.py:57-78: request() repeats what was refused, never what may have
\* been done: a write whose answer is lost is not sent again.
ExecutedOnce == executed <= 1

\* A token that is withdrawn or runs out, at any moment and however often
\* during a listing, does not fail it: a call raises for another failure, or
\* when the token obtained by the forced refresh was withdrawn as well.  Only
\* download() has no refresh.
RefreshSuffices == phase = "raised" => faults < MaxFaults \/ spoilt \/ op = "download"

\* The pages the cursors lead to.
Reachable ==
    {p \in Pages : \A S \in SUBSET Pages :
        First \in S /\ (\A q \in S : follow[q] # None => follow[q] \in S) => p \in S}

\* A listing that returns below max_items is complete.  Bookmarks: each record
\* of each page the cursors lead to, once, though the cursors run in a circle.
\* Numbers: each record that was there from the beginning, though others are
\* inserted anywhere meanwhile; after a removal records may be missed.
ListingComplete ==
    phase = "returned" /\ Len(yielded) < MaxItems =>
        /\ op = "bookmark" =>
            /\ ToSet(yielded) = UNION {{<<p, i>> : i \in 1..content[p]} : p \in Reachable}
            /\ IsInjective(yielded)
        /\ op = "numbered" /\ ~shrunk => ToSet(start) \subseteq ToSet(yielded)

\* Every call ends, whatever cursors Airwallex answers.
CallEnds == <>Done
=============================================================================
