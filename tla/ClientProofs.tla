---------------------------- MODULE ClientProofs ----------------------------
(***************************************************************************)
(* What the client promises of a single request, for any cursors, records, *)
(* page sizes and number of failures: it is executed once at most, and a   *)
(* token that ends does not fail it.  And of a listing: the pages it has   *)
(* been through, or the rows of a table that keeps growing, are followed   *)
(* from request to request until nothing is left of them.                  *)
(***************************************************************************)
EXTENDS Client, SequenceTheorems, FiniteSetTheorems, TLAPS

\* A request that is still being tried was not executed.
Inv1 ==
    /\ executed \in {0, 1}
    /\ phase \notin {"returned", "raised"} => executed = 0

LEMMA Inv1Holds == Spec => []Inv1
<1>1. Init => Inv1
    BY DEF Init, Inv1
<1>2. Inv1 /\ [Next]_vars => Inv1'
    <2> SUFFICES ASSUME Inv1, [Next]_vars PROVE Inv1'
        OBVIOUS
    <2>1. CASE UseCached \/ Login \/ LoginFails
        BY <2>1 DEF Inv1, UseCached, Login, LoginFails, Fault, history, client
    <2>2. CASE Unauthorized
        BY <2>2 DEF Inv1, Unauthorized, Asking, history
    <2>3. CASE RequestFails
        BY <2>3 DEF Inv1, RequestFails, Asking, AfterFailure
    <2>4. CASE Answer
        BY <2>4 DEF Inv1, Answer, Asking
    <2>5. ASSUME NEW records, NEW next, Take(records, next) PROVE Inv1'
        BY <2>5 DEF Inv1, Take, Asking
    <2>6. CASE TakeBookmarked
        BY <2>5, <2>6 DEF TakeBookmarked
    <2>7. CASE TakeNumbered
        BY <2>5, <2>7 DEF TakeNumbered
    <2>8. CASE Withdraw \/ Tick \/ (\E r \in Record : Insert(r))
                \/ (\E i \in DOMAIN table : Delete(i))
        BY <2>8 DEF Inv1, Withdraw, Tick, Insert, Delete, history
    <2>9. CASE UNCHANGED vars
        BY <2>9 DEF Inv1, vars, history
    <2> QED
        BY <2>1, <2>2, <2>3, <2>4, <2>6, <2>7, <2>8, <2>9 DEF Next, Step
<1> QED
    BY <1>1, <1>2, PTL DEF Spec

\* A request is executed once at most: only what Airwallex refused is sent
\* again (client.py, request).
THEOREM WritesOnce == Spec => []ExecutedOnce
<1>1. Inv1 => ExecutedOnce
    BY DEF Inv1, ExecutedOnce
<1> QED
    BY <1>1, Inv1Holds, PTL

-----------------------------------------------------------------------------
\* A second try that Airwallex will refuse was spoilt after the refresh; what
\* counts as a fault stays spent.
Inv2 ==
    /\ faults \in Nat /\ faults <= MaxFaults
    /\ op # "download" /\ phase = "repeat" /\ ~live => spoilt
    /\ RefreshSuffices

LEMMA Inv2Holds == Spec => []Inv2
<1> USE ClientAssumption
<1>1. Init => Inv2
    BY DEF Init, Inv2, RefreshSuffices
<1>2. Inv2 /\ [Next]_vars => Inv2'
    <2> SUFFICES ASSUME Inv2, [Next]_vars PROVE Inv2'
        OBVIOUS
    <2>1. CASE UseCached
        BY <2>1 DEF Inv2, RefreshSuffices, UseCached, Forced, history
    <2>2. CASE Login
        BY <2>2 DEF Inv2, RefreshSuffices, Login, history
    <2>3. ASSUME Fault PROVE faults' \in Nat /\ faults' <= MaxFaults /\ faults' < MaxFaults
        BY <2>3 DEF Inv2, Fault
    <2>4. CASE LoginFails
        BY <2>3, <2>4 DEF Inv2, RefreshSuffices, LoginFails, history
    <2>5. CASE Unauthorized
        BY <2>5 DEF Inv2, RefreshSuffices, Unauthorized, Asking, history
    <2>6. CASE RequestFails
        BY <2>3, <2>6 DEF Inv2, RefreshSuffices, RequestFails, AfterFailure
    <2>7. CASE Answer
        BY <2>7 DEF Inv2, RefreshSuffices, Answer
    <2>8. ASSUME NEW records, NEW next, Take(records, next) PROVE Inv2'
        BY <2>8 DEF Inv2, RefreshSuffices, Take
    <2>9. CASE TakeBookmarked
        BY <2>8, <2>9 DEF TakeBookmarked
    <2>10. CASE TakeNumbered
        BY <2>8, <2>10 DEF TakeNumbered
    <2>11. CASE Withdraw /\ ~Done
        <3>1. UNCHANGED <<op, phase, faults>> /\ phase # "raised"
            BY <2>11 DEF Withdraw, Done
        <3>2. ASSUME phase = "repeat" PROVE spoilt'
            BY <2>11, <3>2, ZenonT(40) DEF Withdraw
        <3> QED
            BY <3>1, <3>2 DEF Inv2, RefreshSuffices
    <2>12. CASE ~Done /\ (Tick \/ (\E r \in Record : Insert(r)) \/ (\E i \in DOMAIN table : Delete(i)))
        BY <2>12 DEF Inv2, RefreshSuffices, Tick, Insert, Delete, history
    <2>13. CASE UNCHANGED vars
        BY <2>13 DEF Inv2, RefreshSuffices, vars, history
    <2> QED
        BY <2>1, <2>2, <2>4, <2>5, <2>6, <2>7, <2>9, <2>10, <2>11, <2>12, <2>13
        DEF Next, Step
<1> QED
    BY <1>1, <1>2, PTL DEF Spec

\* A call raises only for another failure, or because the token that the
\* forced refresh obtained was withdrawn too (client.py, request); download()
\* alone has no refresh.
THEOREM RefreshIsEnough == Spec => []RefreshSuffices
<1>1. Inv2 => RefreshSuffices
    BY DEF Inv2
<1> QED
    BY <1>1, Inv2Holds, PTL

-----------------------------------------------------------------------------
(* Listings *)

Item == (Pages \X Nat) \cup Record

Typed ==
    /\ op \in Lists \cup {"write", "download"}
    /\ phase \in {"authenticate", "send", "refresh", "repeat", "returned", "raised"}
    /\ held \in BOOLEAN /\ fresh \in BOOLEAN /\ live \in BOOLEAN
    /\ page \in IF op = "numbered" THEN Nat ELSE Pages
    /\ seen \subseteq Cursor
    /\ yielded \in Seq(Item) /\ Len(yielded) <= MaxItems
    /\ follow \in [Pages -> Cursor \cup {None}] /\ content \in [Pages -> Nat]
    /\ table \in Seq(Record) /\ start \in Seq(Record)
    /\ shrunk \in BOOLEAN /\ executed \in Nat /\ spoilt \in BOOLEAN /\ faults \in Nat

LEMMA InToSet ==
    ASSUME NEW S, NEW s \in Seq(S), NEW x
    PROVE  x \in ToSet(s) <=> \E i \in 1..Len(s) : s[i] = x
    BY LenProperties DEF ToSet

LEMMA ToSetConcat ==
    ASSUME NEW S, NEW s \in Seq(S), NEW t \in Seq(S)
    PROVE  s \o t \in Seq(S) /\ ToSet(s \o t) = ToSet(s) \cup ToSet(t)
<1>1. PICK m \in Nat, n \in Nat : m = Len(s) /\ n = Len(t)
    BY LenProperties
<1>2. PICK u : u = s \o t
    OBVIOUS
<1>3. /\ u \in Seq(S) /\ Len(u) = m + n
      /\ \A i \in 1..m + n : u[i] = IF i <= m THEN s[i] ELSE t[i - m]
    BY <1>1, <1>2, ConcatProperties
<1>4. ASSUME NEW x \in ToSet(u)
      PROVE  x \in ToSet(s) \cup ToSet(t)
    <2>1. PICK i \in 1..m + n : u[i] = x
        BY <1>3, InToSet
    <2>2. CASE i <= m
        <3>1. s[i] = x /\ i \in 1..Len(s)
            BY <1>1, <1>3, <2>1, <2>2
        <3> QED
            BY <3>1, InToSet
    <2>3. CASE ~(i <= m)
        <3>1. t[i - m] = x /\ i - m \in 1..Len(t)
            BY <1>1, <1>3, <2>1, <2>3
        <3> QED
            BY <3>1, InToSet
    <2> QED
        BY <2>2, <2>3
<1>5. ASSUME NEW x \in ToSet(s)
      PROVE  x \in ToSet(u)
    <2>1. PICK i \in 1..Len(s) : s[i] = x
        BY InToSet
    <2>2. i \in 1..Len(u) /\ u[i] = x
        BY <1>1, <1>3, <2>1
    <2> QED
        BY <1>3, <2>2, InToSet
<1>6. ASSUME NEW x \in ToSet(t)
      PROVE  x \in ToSet(u)
    <2>1. PICK i \in 1..Len(t) : t[i] = x
        BY InToSet
    <2>2. i + m \in 1..Len(u) /\ (i + m) - m = i /\ ~(i + m <= m)
        BY <1>1, <1>3, <2>1
    <2>3. u[i + m] = x
        BY <1>1, <1>3, <2>1, <2>2
    <2> QED
        BY <1>3, <2>2, <2>3, InToSet
<1> QED
    BY <1>2, <1>3, <1>4, <1>5, <1>6

\* Of two sequences with nothing in common.
LEMMA InjectiveConcat ==
    ASSUME NEW S, NEW s \in Seq(S), NEW t \in Seq(S), IsInjective(s), IsInjective(t),
           ToSet(s) \cap ToSet(t) = {}
    PROVE  IsInjective(s \o t)
<1>1. PICK m \in Nat, n \in Nat : m = Len(s) /\ n = Len(t)
    BY LenProperties
<1>2. PICK u : u = s \o t
    OBVIOUS
<1>3. /\ u \in Seq(S) /\ Len(u) = m + n
      /\ \A i \in 1..m + n : u[i] = IF i <= m THEN s[i] ELSE t[i - m]
    BY <1>1, <1>2, ConcatProperties
<1>4. DOMAIN u = 1..m + n /\ DOMAIN s = 1..m /\ DOMAIN t = 1..n
    BY <1>1, <1>3, LenProperties
<1>5. ASSUME NEW i \in 1..m + n
      PROVE  /\ i <= m => i \in 1..m /\ u[i] = s[i] /\ s[i] \in ToSet(s)
             /\ ~(i <= m) => i - m \in 1..n /\ u[i] = t[i - m] /\ t[i - m] \in ToSet(t)
    <2>1. i <= m => i \in 1..m /\ u[i] = s[i]
        BY <1>3
    <2>2. ~(i <= m) => i - m \in 1..n /\ u[i] = t[i - m]
        BY <1>3
    <2> QED
        BY <2>1, <2>2, <1>4 DEF ToSet
<1>6. ASSUME NEW i \in 1..m + n, NEW j \in 1..m + n, u[i] = u[j]
      PROVE  i = j
    <2>1. CASE i <= m /\ j <= m
        BY <2>1, <1>4, <1>5, <1>6 DEF IsInjective
    <2>2. CASE ~(i <= m) /\ ~(j <= m)
        <3>1. i - m \in DOMAIN t /\ j - m \in DOMAIN t /\ t[i - m] = t[j - m]
            BY <2>2, <1>4, <1>5, <1>6
        <3>2. i - m = j - m
            BY <3>1 DEF IsInjective
        <3> QED
            BY <3>2
    <2>3. CASE (i <= m /\ ~(j <= m)) \/ (~(i <= m) /\ j <= m)
        BY <2>3, <1>5, <1>6
    <2> QED
        BY <2>1, <2>2, <2>3, Zenon
<1> QED
    BY <1>2, <1>4, <1>6 DEF IsInjective

LEMMA UptoIs ==
    ASSUME NEW all \in Seq(Item)
    PROVE  /\ Upto(all) \in Seq(Item) /\ Len(Upto(all)) <= MaxItems
           /\ Len(Upto(all)) < MaxItems \/ Len(all) < MaxItems => Upto(all) = all
<1>1. PICK n \in Nat : n = Len(all)
    BY LenProperties
<1>2. PICK m : m = IF n < MaxItems THEN n ELSE MaxItems
    OBVIOUS
<1>3. m \in Nat /\ m <= n /\ m <= MaxItems /\ (m < MaxItems \/ n < MaxItems => m = n)
    BY <1>1, <1>2, ClientAssumption
<1>4. Upto(all) = SubSeq(all, 1, m)
    BY <1>1, <1>2 DEF Upto
<1>5. \A i \in 1..m : all[i] \in Item
    BY <1>1, <1>3, ElementOfSeq
<1>6. SubSeq(all, 1, m) \in Seq(Item) /\ Len(SubSeq(all, 1, m)) = IF 1 <= m THEN m - 1 + 1 ELSE 0
    BY <1>3, <1>5, SubSeqProperties
<1>7. Len(SubSeq(all, 1, m)) = m
    BY <1>3, <1>6
<1>8. m = n => SubSeq(all, 1, m) = all
    BY <1>1, SubSeqFull
<1> QED
    <2>1. Upto(all) \in Seq(Item) /\ Len(Upto(all)) = m
        BY <1>4, <1>6, <1>7, Zenon
    <2>2. m < MaxItems \/ Len(all) < MaxItems => Upto(all) = all
        BY <1>1, <1>3, <1>4, <1>8
    <2> QED
        BY <1>3, <2>1, <2>2

LEMMA SetToSeqIs ==
    ASSUME NEW S, IsFiniteSet(S)
    PROVE  SetToSeq(S) \in Seq(S)
<1>1. PICK n \in Nat : n = Cardinality(S)
    BY FS_CardinalityType
<1>2. PICK f \in [1..n -> S] : IsInjective(f)
    <2>1. ExistsBijection(1..n, S)
        BY <1>1, FS_NatBijection, FS_CountingElements, FS_CardinalityType
    <2>2. PICK f \in Bijection(1..n, S) : TRUE
        BY <2>1 DEF ExistsBijection
    <2> QED
        BY <2>2 DEF Bijection, Injection, IsInjective
<1>3. SetToSeq(S) \in [1..n -> S]
    BY <1>1, <1>2 DEF SetToSeq
<1> QED
    BY <1>3

\* The records of a bookmarked page.
OnPage(p) == {<<p, i>> : i \in 1..content[p]}

\* The pages V have been given, each record once, and where they lead to is
\* known.
Given(V) ==
    /\ ToSet(yielded) = UNION {OnPage(p) : p \in V}
    /\ IsInjective(yielded)
    /\ \A p \in V : follow[p] # None => follow[p] \in seen

Known == {First} \cup seen

Bookmarked ==
    op = "bookmark" =>
        /\ page \in Known
        /\ Known \subseteq Reachable
        /\ phase # "returned" => Given(Known \ {page})
        /\ phase = "returned" /\ Len(yielded) < MaxItems => Given(Known)

\* A record of the first moment has been given, or is still to come.
Numbered ==
    op = "numbered" /\ ~shrunk =>
        /\ phase # "returned" =>
            \A r \in ToSet(start) :
                \/ r \in ToSet(yielded)
                \/ \E i \in 1..Len(table) : i > page * PageSize /\ table[i] = r
        /\ phase = "returned" /\ Len(yielded) < MaxItems => ToSet(start) \subseteq ToSet(yielded)

ListInv == Typed /\ Bookmarked /\ Numbered

LEMMA TakeEffect ==
    ASSUME Typed, op \in Lists, NEW records \in Seq(Item), NEW next, Take(records, next),
           next = None \/ next \in IF op = "numbered" THEN Nat ELSE Pages,
           seen' \subseteq Cursor
    PROVE  /\ Typed'
           /\ phase # "returned"
           /\ phase' \in {"authenticate", "returned"}
           /\ phase' = "authenticate" =>
                next # None /\ page' = next /\ yielded' = yielded \o records
           /\ phase' = "returned" /\ Len(yielded') < MaxItems =>
                next = None /\ page' = page /\ yielded' = yielded \o records
<1>1. PICK all : all = yielded \o records
    OBVIOUS
<1>2. all \in Seq(Item)
    BY <1>1, ToSetConcat DEF Typed
<1>3. yielded' = Upto(all)
    BY <1>1 DEF Take
<1>4. /\ Upto(all) \in Seq(Item) /\ Len(Upto(all)) <= MaxItems
      /\ Len(Upto(all)) < MaxItems \/ Len(all) < MaxItems => Upto(all) = all
    BY <1>2, UptoIs
<1>5. \/ phase' = "returned" /\ page' = page /\ executed' = executed + 1 /\ spoilt' = spoilt
         /\ (next = None \/ Len(all) >= MaxItems)
      \/ phase' = "authenticate" /\ page' = next /\ executed' = 0 /\ spoilt' = FALSE
         /\ next # None /\ ~(Len(all) >= MaxItems)
    BY <1>1 DEF Take
<1>6. Len(all) \in Nat /\ MaxItems \in Nat
    BY <1>2, LenProperties, ClientAssumption
<1>7. phase # "returned" /\ UNCHANGED <<op, held, fresh, live, follow, content, table, start, shrunk, faults>>
    BY DEF Take, Asking, server
<1>8. page' \in (IF op = "numbered" THEN Nat ELSE Pages) /\ executed' \in Nat /\ spoilt' \in BOOLEAN
    <2>1. page' \in IF op = "numbered" THEN Nat ELSE Pages
        BY <1>5, Zenon DEF Typed
    <2>2. executed' \in Nat
        BY <1>5 DEF Typed
    <2>3. spoilt' \in BOOLEAN
        BY <1>5, Zenon DEF Typed
    <2> QED
        BY <2>1, <2>2, <2>3
<1>9. Typed'
    BY <1>3, <1>4, <1>5, <1>7, <1>8 DEF Typed
<1> QED
    BY <1>1, <1>3, <1>4, <1>5, <1>6, <1>7, <1>9

LEMMA BookmarkedStep ==
    ASSUME ListInv, TakeBookmarked
    PROVE  ListInv'
<1> USE DEF ListInv
<1>1. PICK cursor : cursor = follow[page]
    OBVIOUS
<1>2. PICK next : next = IF cursor \in seen THEN None ELSE cursor
    OBVIOUS
<1>3. PICK records : records = [i \in 1..content[page] |-> <<page, i>>]
    OBVIOUS
<1>4. op = "bookmark" /\ Take(records, next) /\ seen' = seen \cup ({cursor} \ {None})
    BY <1>1, <1>2, <1>3 DEF TakeBookmarked, Remember
<1>5. page \in Pages /\ cursor \in Cursor \cup {None} /\ content[page] \in Nat
    BY <1>1, <1>4 DEF Typed
<1>6. records \in Seq(Item) /\ ToSet(records) = OnPage(page) /\ IsInjective(records)
    <2>1. PICK n \in Nat : n = content[page]
        BY <1>5
    <2>2. \A i \in 1..n : <<page, i>> \in Item
        BY <1>5 DEF Item
    <2>3. records \in [1..n -> Item]
        BY <1>3, <2>1, <2>2
    <2>4. ToSet(records) = OnPage(page)
        BY <1>3, <2>1 DEF ToSet, OnPage
    <2>5. IsInjective(records)
        BY <1>3, <2>1 DEF IsInjective
    <2> QED
        BY <2>3, <2>4, <2>5
<1>7. /\ Typed' /\ phase # "returned" /\ phase' \in {"authenticate", "returned"}
      /\ phase' = "authenticate" => next # None /\ page' = next /\ yielded' = yielded \o records
      /\ phase' = "returned" /\ Len(yielded') < MaxItems =>
            next = None /\ page' = page /\ yielded' = yielded \o records
    <2>1. next = None \/ next \in IF op = "numbered" THEN Nat ELSE Pages
        BY <1>2, <1>4, <1>5 DEF Pages
    <2>2. seen' \subseteq Cursor /\ op \in Lists
        BY <1>4, <1>5 DEF Typed, Lists
    <2> QED
        BY <1>4, <1>6, <2>1, <2>2, TakeEffect
<1>8. UNCHANGED <<op, follow, content, table, start, shrunk>>
    BY <1>4 DEF Take, server
<1>9. page \in Known /\ Known \subseteq Reachable /\ Given(Known \ {page})
    BY <1>4, <1>7 DEF Bookmarked
<1>10. Reachable' = Reachable
    BY <1>8 DEF Reachable
<1>11. cursor # None => cursor \in Reachable
    BY <1>1, <1>5, <1>9 DEF Reachable, Pages
<1>12. Known' = Known \cup ({cursor} \ {None}) /\ Known' \subseteq Reachable'
    BY <1>4, <1>9, <1>10, <1>11 DEF Known
<1>13. ASSUME yielded' = yielded \o records, cursor = None \/ cursor \in seen'
       PROVE  /\ ToSet(yielded') = UNION {OnPage(p) : p \in Known}
              /\ IsInjective(yielded')
              /\ \A p \in Known : follow[p] # None => follow[p] \in seen'
    <2>1. PICK V : V = Known \ {page}
        OBVIOUS
    <2>2. Known = V \cup {page} /\ page \notin V
        BY <1>9, <2>1
    <2>3. /\ ToSet(yielded) = UNION {OnPage(p) : p \in V} /\ IsInjective(yielded)
          /\ \A p \in V : follow[p] # None => follow[p] \in seen
        BY <1>9, <2>1 DEF Given
    <2>4. yielded \in Seq(Item)
        BY DEF Typed
    <2>5. ToSet(yielded') = ToSet(yielded) \cup OnPage(page)
        BY <1>6, <1>13, <2>4, ToSetConcat
    <2>6. ToSet(yielded) \cap ToSet(records) = {}
        <3>1. ASSUME NEW x \in ToSet(yielded), x \in OnPage(page)
              PROVE  FALSE
            <4>1. PICK p \in V : x \in OnPage(p)
                BY <2>3
            <4>2. PICK i : x = <<p, i>>
                BY <4>1 DEF OnPage
            <4>3. PICK j : x = <<page, j>>
                BY <3>1 DEF OnPage
            <4>4. p = page
                BY <4>2, <4>3
            <4> QED
                BY <2>2, <4>4
        <3> QED
            BY <1>6, <3>1
    <2>7. IsInjective(yielded')
        BY <1>6, <1>13, <2>3, <2>4, <2>6, InjectiveConcat
    <2>8. ToSet(yielded') = UNION {OnPage(p) : p \in Known}
        BY <2>2, <2>3, <2>5
    <2>9. ASSUME NEW p \in Known, follow[p] # None
          PROVE  follow[p] \in seen'
        BY <1>1, <1>4, <1>13, <2>2, <2>3, <2>9
    <2> QED
        BY <2>7, <2>8, <2>9
<1>14. CASE phase' = "authenticate"
    <2>1. cursor # None /\ cursor \notin seen /\ page' = cursor /\ yielded' = yielded \o records
        BY <1>2, <1>7, <1>14
    <2>2. Known' \ {page'} = Known /\ page' \in Known'
        BY <1>5, <1>12, <2>1, ClientAssumption DEF Known
    <2>3. Given(Known \ {page})'
        BY <1>4, <1>8, <1>13, <2>1, <2>2 DEF Given, OnPage
    <2> QED
        BY <1>7, <1>8, <1>4, <1>12, <1>14, <2>2, <2>3 DEF Bookmarked, Numbered
<1>15. CASE phase' = "returned"
    <2>1. ASSUME Len(yielded') < MaxItems
          PROVE  Given(Known)'
        <3>1. next = None /\ yielded' = yielded \o records
            BY <1>7, <1>15, <2>1
        <3>2. cursor = None \/ cursor \in seen
            BY <1>2, <3>1
        <3>3. Known' = Known /\ seen' = seen
            BY <1>4, <1>12, <3>2 DEF Known
        <3> QED
            BY <1>8, <1>13, <3>1, <3>2, <3>3 DEF Given, OnPage
    <2>2. page' \in Known'
        BY <1>4, <1>7, <1>9, <1>12, <1>15 DEF Take
    <2> QED
        BY <1>7, <1>8, <1>4, <1>12, <1>15, <2>1, <2>2 DEF Bookmarked, Numbered
<1> QED
    BY <1>7, <1>14, <1>15

\* The last of at most size positions of s after from.
UpperEnd(s, from, size) == IF Len(s) < from + size THEN Len(s) ELSE from + size

\* t has the rows of s after from and up to to: size of them, or the last ones.
PageOf(s, t, from, to, size) ==
    /\ Len(t) < size => to = Len(s)
    /\ Len(t) >= size => to = from + size
    /\ \A i \in 1..Len(s) : from < i /\ i <= to => s[i] \in ToSet(t)

LEMMA NumberedPage ==
    ASSUME NEW S, NEW s \in Seq(S), NEW from \in Nat, NEW size \in Nat \ {0},
           NEW to, to = UpperEnd(s, from, size), NEW t, t = SubSeq(s, from + 1, to)
    PROVE  t \in Seq(S) /\ PageOf(s, t, from, to, size)
<1>1. PICK n \in Nat : n = Len(s)
    BY LenProperties
<1>2. PICK k \in Int, l \in Int : k = from + 1 /\ l = to
    <2>1. from + 1 \in Int /\ to \in Int
        BY <1>1 DEF UpperEnd
    <2> QED
        BY <2>1
<1>3. \A i \in k..l : s[i] \in S
    <2> SUFFICES ASSUME NEW i \in k..l PROVE s[i] \in S
        OBVIOUS
    <2>1. i \in 1..Len(s)
        BY <1>1, <1>2 DEF UpperEnd
    <2> QED
        BY <2>1, ElementOfSeq
<1>4. t = SubSeq(s, k, l)
    BY <1>2
<1>5. /\ t \in Seq(S)
      /\ Len(t) = IF k <= l THEN l - k + 1 ELSE 0
      /\ \A i \in 1..l - k + 1 : t[i] = s[k + i - 1]
    <2>1. PICK v : v = SubSeq(s, k, l)
        OBVIOUS
    <2>2. /\ v \in Seq(S)
          /\ Len(v) = IF k <= l THEN l - k + 1 ELSE 0
          /\ \A i \in 1..l - k + 1 : v[i] = s[k + i - 1]
        BY <1>3, <2>1, SubSeqProperties
    <2> QED
        BY <1>4, <2>1, <2>2, Zenon
<1>6. ASSUME NEW i \in 1..Len(s), from < i, i <= to
      PROVE  s[i] \in ToSet(t)
    <2>1. i - from \in 1..l - k + 1 /\ i - from \in 1..Len(t) /\ k + (i - from) - 1 = i
        <3>1. i \in Nat /\ from < i /\ i <= l /\ k = from + 1
            BY <1>1, <1>2, <1>6
        <3>2. i - from \in Nat /\ 1 <= i - from /\ i - from <= l - k + 1 /\ k <= l /\ k + (i - from) - 1 = i
            BY <3>1
        <3> QED
            BY <1>5, <3>2
    <2>2. t[i - from] = s[i]
        BY <1>5, <2>1
    <2> QED
        BY <1>5, <2>1, <2>2, InToSet
<1>7. /\ Len(t) < size => to = Len(s)
      /\ Len(t) >= size => to = from + size
    BY <1>1, <1>2, <1>5 DEF UpperEnd
<1> QED
    BY <1>5, <1>6, <1>7 DEF PageOf

LEMMA NextPage == ASSUME NEW m \in Nat, NEW n \in Nat PROVE m * n \in Nat /\ (m + 1) * n = m * n + n
    OBVIOUS

LEMMA NumberedStep ==
    ASSUME ListInv, TakeNumbered
    PROVE  ListInv'
<1> USE DEF ListInv
<1>1. PICK from : from = page * PageSize
    OBVIOUS
<1>2. PICK to : to = IF Len(table) < from + PageSize THEN Len(table) ELSE from + PageSize
    OBVIOUS
<1>3. PICK records : records = SubSeq(table, from + 1, to)
    OBVIOUS
<1>4. op = "numbered" /\ Take(records, Following(records)) /\ seen' = seen
    BY <1>1, <1>2, <1>3 DEF TakeNumbered
<1>5. page \in Nat /\ PageSize \in Nat \ {0} /\ table \in Seq(Record)
    BY <1>4, ClientAssumption DEF Typed
<1>6. from \in Nat /\ (page + 1) * PageSize = from + PageSize
    BY <1>1, <1>5, NextPage
<1>7. /\ records \in Seq(Record)
      /\ Len(records) < PageSize => to = Len(table)
      /\ Len(records) >= PageSize => to = from + PageSize
      /\ \A i \in 1..Len(table) : from < i /\ i <= to => table[i] \in ToSet(records)
    <2>1. PICK size \in Nat \ {0} : size = PageSize
        BY <1>5
    <2>2. from \in Nat /\ table \in Seq(Record) /\ to = UpperEnd(table, from, size)
        BY <1>2, <1>5, <1>6, <2>1 DEF UpperEnd
    <2>3. records \in Seq(Record) /\ PageOf(table, records, from, to, size)
        BY <1>3, <2>2, NumberedPage
    <2> QED
        BY <2>1, <2>3 DEF PageOf
<1>8. Len(records) \in Nat /\ Len(table) \in Nat
    BY <1>5, <1>7, LenProperties
<1>9. records \in Seq(Item)
    BY <1>7, SeqMonotonic DEF Item
<1>10. Following(records) = None \/ Following(records) \in Nat
    BY <1>5 DEF Following
<1>11. /\ Typed' /\ phase # "returned" /\ phase' \in {"authenticate", "returned"}
       /\ phase' = "authenticate" =>
            Following(records) # None /\ page' = Following(records) /\ yielded' = yielded \o records
       /\ phase' = "returned" /\ Len(yielded') < MaxItems =>
            Following(records) = None /\ page' = page /\ yielded' = yielded \o records
    <2>1. op \in Lists /\ seen' \subseteq Cursor
        BY <1>4 DEF Lists, Typed
    <2> QED
        BY <1>4, <1>9, <1>10, <2>1, TakeEffect
<1>12. UNCHANGED <<op, table, start, shrunk>>
    BY <1>4 DEF Take, server
<1>13. ASSUME ~shrunk, NEW r \in ToSet(start)
       PROVE  r \in ToSet(yielded) \/ \E i \in 1..Len(table) : i > from /\ table[i] = r
    BY <1>1, <1>4, <1>11, <1>13 DEF Numbered
<1>14. ASSUME yielded' = yielded \o records
       PROVE  ToSet(yielded') = ToSet(yielded) \cup ToSet(records)
    BY <1>9, <1>14, ToSetConcat DEF Typed
<1>15. ASSUME ~shrunk, NEW r \in ToSet(start), phase' = "authenticate"
       PROVE  \/ r \in ToSet(yielded')
              \/ \E i \in 1..Len(table) : i > page' * PageSize /\ table[i] = r
    <2>1. page' = page + 1 /\ Len(records) >= PageSize
        BY <1>5, <1>8, <1>11, <1>15 DEF Following
    <2>2. page' * PageSize = to /\ to \in Nat
        BY <1>5, <1>6, <1>7, <2>1
    <2>3. ToSet(yielded') = ToSet(yielded) \cup ToSet(records)
        BY <1>11, <1>14, <1>15
    <2>4. CASE r \in ToSet(yielded)
        BY <2>3, <2>4
    <2>5. ASSUME NEW i \in 1..Len(table), i > from, table[i] = r
          PROVE  r \in ToSet(yielded') \/ (i > page' * PageSize /\ table[i] = r)
        <3>1. CASE i <= to
            BY <1>6, <1>7, <2>3, <2>5, <3>1
        <3>2. CASE ~(i <= to)
            BY <2>2, <2>5, <3>2
        <3> QED
            BY <3>1, <3>2
    <2> QED
        BY <1>13, <1>15, <2>4, <2>5
<1>16. ASSUME ~shrunk, NEW r \in ToSet(start), phase' = "returned", Len(yielded') < MaxItems
       PROVE  r \in ToSet(yielded')
    <2>1. ToSet(yielded') = ToSet(yielded) \cup ToSet(records) /\ Following(records) = None
        BY <1>11, <1>14, <1>16
    <2>2. Len(records) < PageSize
        <3>1. page + 1 # None
            BY <1>5, ClientAssumption
        <3> QED
            BY <2>1, <3>1 DEF Following
    <2>3. to = Len(table)
        BY <1>7, <2>2
    <2>4. ASSUME NEW i \in 1..Len(table), i > from, table[i] = r
          PROVE  r \in ToSet(yielded')
        BY <1>6, <1>7, <1>8, <2>1, <2>3, <2>4
    <2> QED
        BY <1>13, <1>16, <2>1, <2>4
<1>17. Numbered'
    BY <1>11, <1>12, <1>15, <1>16 DEF Numbered
<1>18. Bookmarked'
    BY <1>4, <1>12 DEF Bookmarked
<1> QED
    BY <1>11, <1>17, <1>18

LEMMA InsertAtIs ==
    ASSUME NEW S, NEW s \in Seq(S), NEW j \in 1..(Len(s) + 1), NEW e \in S
    PROVE  /\ InsertAt(s, j, e) \in Seq(S) /\ Len(InsertAt(s, j, e)) = Len(s) + 1
           /\ \A i \in 1..Len(s) : InsertAt(s, j, e)[IF i < j THEN i ELSE i + 1] = s[i]
<1>1. PICK n \in Nat : n = Len(s)
    BY LenProperties
<1>2. PICK u : u = SubSeq(s, 1, j - 1)
    OBVIOUS
<1>3. PICK v : v = SubSeq(s, j, n)
    OBVIOUS
<1>4. j \in Nat /\ 1 <= j /\ j <= n + 1
    BY <1>1
<1>5. \A i \in 1..n : s[i] \in S
    BY <1>1, ElementOfSeq
<1>6. u \in Seq(S) /\ Len(u) = j - 1 /\ \A i \in 1..j - 1 : u[i] = s[i]
    <2>1. \A i \in 1..j - 1 : s[i] \in S
        BY <1>4, <1>5
    <2>2. /\ u \in Seq(S) /\ Len(u) = IF 1 <= j - 1 THEN j - 1 - 1 + 1 ELSE 0
          /\ \A i \in 1..j - 1 - 1 + 1 : u[i] = s[1 + i - 1]
        BY <1>2, <1>4, <2>1, SubSeqProperties
    <2> QED
        BY <1>4, <2>2
<1>7. v \in Seq(S) /\ Len(v) = n - j + 1 /\ \A i \in 1..n - j + 1 : v[i] = s[j + i - 1]
    <2>1. \A i \in j..n : s[i] \in S
        BY <1>4, <1>5
    <2>2. /\ v \in Seq(S) /\ Len(v) = IF j <= n THEN n - j + 1 ELSE 0
          /\ \A i \in 1..n - j + 1 : v[i] = s[j + i - 1]
        BY <1>1, <1>3, <1>4, <2>1, SubSeqProperties
    <2> QED
        BY <1>1, <1>4, <2>2
<1>8. <<e>> \in Seq(S) /\ Len(<<e>>) = 1
    OBVIOUS
<1>9. PICK w : w = u \o <<e>>
    OBVIOUS
<1>10. w \in Seq(S) /\ Len(w) = j /\ \A i \in 1..j - 1 : w[i] = s[i]
    <2>1. /\ w \in Seq(S) /\ Len(w) = Len(u) + 1
          /\ \A i \in 1..Len(u) + 1 : w[i] = IF i <= Len(u) THEN u[i] ELSE <<e>>[i - Len(u)]
        BY <1>6, <1>8, <1>9, ConcatProperties
    <2> QED
        BY <1>4, <1>6, <2>1
<1>11. PICK z : z = w \o v
    OBVIOUS
<1>12. /\ z \in Seq(S) /\ Len(z) = n + 1
       /\ \A i \in 1..n : z[IF i < j THEN i ELSE i + 1] = s[i]
    <2>1. /\ z \in Seq(S) /\ Len(z) = Len(w) + Len(v)
          /\ \A i \in 1..Len(w) + Len(v) : z[i] = IF i <= Len(w) THEN w[i] ELSE v[i - Len(w)]
        BY <1>7, <1>10, <1>11, ConcatProperties
    <2>2. Len(w) = j /\ Len(v) = n - j + 1 /\ Len(w) + Len(v) = n + 1
        BY <1>1, <1>4, <1>7, <1>10
    <2>3. ASSUME NEW i \in 1..n
          PROVE  z[IF i < j THEN i ELSE i + 1] = s[i]
        <3>1. CASE i < j
            <4>1. i \in 1..n + 1 /\ i <= j /\ i \in 1..j - 1
                BY <1>4, <3>1
            <4> QED
                BY <1>10, <2>1, <2>2, <3>1, <4>1
        <3>2. CASE ~(i < j)
            <4>1. i + 1 \in 1..n + 1 /\ ~(i + 1 <= j) /\ i + 1 - j \in 1..n - j + 1 /\ j + (i + 1 - j) - 1 = i
                BY <1>4, <3>2
            <4>2. z[i + 1] = v[i + 1 - j]
                <5>1. PICK k : k = i + 1
                    OBVIOUS
                <5>2. k \in 1..Len(w) + Len(v) /\ ~(k <= Len(w)) /\ k - Len(w) = k - j
                    BY <2>2, <4>1, <5>1
                <5>3. z[k] = v[k - j]
                    BY <2>1, <5>2
                <5> QED
                    BY <5>1, <5>3
            <4> QED
                BY <1>7, <3>2, <4>1, <4>2
        <3> QED
            BY <3>1, <3>2
    <2> QED
        BY <2>1, <2>2, <2>3
<1>13. InsertAt(s, j, e) = z
    BY <1>1, <1>2, <1>3, <1>9, <1>11 DEF InsertAt
<1> QED
    BY <1>1, <1>12, <1>13

LEMMA RemoveAtIs ==
    ASSUME NEW S, NEW s \in Seq(S), NEW j \in 1..Len(s)
    PROVE  RemoveAt(s, j) \in Seq(S)
<1>1. PICK n \in Nat : n = Len(s)
    BY LenProperties
<1>2. j \in Nat /\ 1 <= j /\ j <= n
    BY <1>1
<1>3. \A i \in 1..n : s[i] \in S
    BY <1>1, ElementOfSeq
<1>4. SubSeq(s, 1, j - 1) \in Seq(S)
    <2>1. \A i \in 1..j - 1 : s[i] \in S
        BY <1>2, <1>3
    <2> QED
        BY <1>2, <2>1, SubSeqProperties
<1>5. SubSeq(s, j + 1, n) \in Seq(S)
    <2>1. \A i \in j + 1..n : s[i] \in S
        BY <1>2, <1>3
    <2> QED
        BY <1>2, <2>1, SubSeqProperties
<1> QED
    BY <1>1, <1>4, <1>5, ConcatProperties DEF RemoveAt

\* Steps that give nothing and leave the tables alone.
LEMMA QuietStep ==
    ASSUME ListInv, UNCHANGED <<op, page, seen, yielded, server>>,
           phase' = phase \/ phase # "returned",
           phase' = phase \/ phase' # "returned" \/ op \notin Lists,
           Typed'
    PROVE  ListInv'
<1> USE DEF ListInv
<1>1. UNCHANGED <<op, page, seen, yielded, follow, content, table, start, shrunk>>
    BY DEF server
<1>2. Known' = Known /\ Reachable' = Reachable
    BY <1>1 DEF Known, Reachable
<1>3. Bookmarked'
    BY <1>1, <1>2 DEF Bookmarked, Given, OnPage, Lists
<1>4. Numbered'
    BY <1>1 DEF Numbered, Lists
<1> QED
    BY <1>3, <1>4

LEMMA InsertStep ==
    ASSUME ListInv, NEW r \in Record, Insert(r), phase # "returned"
    PROVE  ListInv'
<1> USE DEF ListInv
<1>1. op = "numbered" /\ UNCHANGED <<op, phase, live, client, follow, content, start, shrunk, history, faults>>
    BY DEF Insert
<1>2. UNCHANGED <<op, phase, live, held, fresh, page, seen, yielded, follow, content, start, shrunk,
                  executed, spoilt, faults>>
    BY <1>1 DEF client, history
<1>3. table \in Seq(Record) /\ Len(table) \in Nat
    BY LenProperties DEF Typed
<1>4. PICK j \in 1..(Len(table) + 1) : table' = InsertAt(table, j, r)
    BY DEF Insert
<1>5. /\ table' \in Seq(Record) /\ Len(table') = Len(table) + 1
      /\ \A i \in 1..Len(table) : table'[IF i < j THEN i ELSE i + 1] = table[i]
    BY <1>3, <1>4, InsertAtIs
<1>6. Typed' /\ Bookmarked'
    BY <1>1, <1>2, <1>5 DEF Typed, Bookmarked
<1>7. ASSUME NEW n \in Nat, NEW i \in 1..Len(table), i > n
      PROVE  \E k \in 1..Len(table') : k > n /\ table'[k] = table[i]
    <2>1. PICK k : k = IF i < j THEN i ELSE i + 1
        OBVIOUS
    <2>2. k \in 1..Len(table') /\ k > n
        BY <1>3, <1>5, <1>7, <2>1
    <2> QED
        BY <1>5, <2>1, <2>2
<1>8. page * PageSize \in Nat
    BY <1>1, NextPage, ClientAssumption DEF Typed
<1>9. Numbered'
    <2>1. ASSUME ~shrunk, NEW x \in ToSet(start)
          PROVE  x \in ToSet(yielded) \/ \E k \in 1..Len(table') : k > page * PageSize /\ table'[k] = x
        <3>1. x \in ToSet(yielded) \/ \E i \in 1..Len(table) : i > page * PageSize /\ table[i] = x
            BY <1>1, <2>1 DEF Numbered
        <3> QED
            BY <1>7, <1>8, <3>1
    <2> QED
        BY <1>2, <2>1 DEF Numbered
<1> QED
    BY <1>6, <1>9

LEMMA DeleteStep ==
    ASSUME ListInv, NEW i \in DOMAIN table, Delete(i)
    PROVE  ListInv'
<1> USE DEF ListInv
<1>1. UNCHANGED <<op, phase, live, held, fresh, page, seen, yielded, follow, content, start,
                  executed, spoilt, faults>> /\ shrunk' = TRUE
    BY DEF Delete, client, history
<1>2. table' \in Seq(Record)
    <2>1. table \in Seq(Record) /\ i \in 1..Len(table)
        BY LenProperties DEF Typed
    <2> QED
        BY <2>1, RemoveAtIs DEF Delete
<1>3. Typed'
    BY <1>1, <1>2 DEF Typed
<1>4. Known' = Known /\ Reachable' = Reachable
    BY <1>1 DEF Known, Reachable
<1>5. Bookmarked'
    BY <1>1, <1>4 DEF Bookmarked, Given, OnPage
<1> QED
    BY <1>1, <1>3, <1>5 DEF Numbered

LEMMA ListStep ==
    ASSUME ListInv, [Next]_vars
    PROVE  ListInv'
<1>1. Typed
    BY DEF ListInv
<1>2. Fault => faults' \in Nat
    BY <1>1 DEF Fault, Typed
<1>3. CASE UseCached
    <2>1. Typed'
        BY <1>1, <1>3 DEF UseCached, Typed, client, server, history
    <2> QED
        BY <1>3, <2>1, QuietStep DEF UseCached, client
<1>4. CASE Login
    <2>1. Typed'
        BY <1>1, <1>4 DEF Login, Typed, server, history
    <2> QED
        BY <1>4, <2>1, QuietStep DEF Login
<1>5. CASE LoginFails
    <2>1. Typed'
        BY <1>1, <1>2, <1>5 DEF LoginFails, Typed, client, server, history
    <2> QED
        BY <1>5, <2>1, QuietStep DEF LoginFails, client
<1>6. CASE Unauthorized
    <2>1. Typed'
        BY <1>1, <1>6 DEF Unauthorized, Typed, client, server, history
    <2> QED
        BY <1>6, <2>1, QuietStep DEF Unauthorized, Asking, client
<1>7. CASE RequestFails
    <2>1. executed' \in Nat
        BY <1>1, <1>7 DEF RequestFails, Typed
    <2>2. Typed'
        BY <1>1, <1>2, <1>7, <2>1 DEF RequestFails, AfterFailure, Typed, client, server
    <2> QED
        BY <1>7, <2>2, QuietStep DEF RequestFails, AfterFailure, Asking, client
<1>8. CASE Answer
    <2>1. executed' \in Nat
        BY <1>1, <1>8 DEF Answer, Typed
    <2>2. Typed'
        BY <1>1, <1>8, <2>1 DEF Answer, Typed, client, server
    <2> QED
        BY <1>8, <2>2, QuietStep DEF Answer, Asking, client
<1>9. CASE TakeBookmarked
    BY <1>9, BookmarkedStep
<1>10. CASE TakeNumbered
    BY <1>10, NumberedStep
<1>11. CASE Withdraw
    <2>1. spoilt' \in BOOLEAN
        BY <1>1, <1>11, Zenon DEF Withdraw, Typed
    <2>2. Typed'
        BY <1>1, <1>11, <2>1 DEF Withdraw, Typed, client, server
    <2> QED
        BY <1>11, <2>2, QuietStep DEF Withdraw, client
<1>12. CASE Tick
    <2>1. Typed'
        BY <1>1, <1>12 DEF Tick, Typed, server, history
    <2> QED
        BY <1>12, <2>1, QuietStep DEF Tick
<1>13. ASSUME NEW r \in Record, Insert(r), ~Done
       PROVE  ListInv'
    BY <1>13, InsertStep DEF Done
<1>14. ASSUME NEW i \in DOMAIN table, Delete(i)
       PROVE  ListInv'
    BY <1>14, DeleteStep
<1>15. CASE UNCHANGED vars
    <2>1. Typed'
        BY <1>1, <1>15 DEF vars, Typed, client, server, history
    <2> QED
        BY <1>15, <2>1, QuietStep DEF vars, client
<1> QED
    BY <1>3, <1>4, <1>5, <1>6, <1>7, <1>8, <1>9, <1>10, <1>11, <1>12, <1>13, <1>14, <1>15 DEF Next, Step

LEMMA EmptyGiven ==
    ASSUME yielded = <<>> PROVE Given({})
<1>1. ToSet(yielded) = {} /\ IsInjective(yielded)
    BY DEF ToSet, IsInjective
<1> QED
    BY <1>1 DEF Given

LEMMA ListInit == Init => ListInv
<1> SUFFICES ASSUME Init PROVE ListInv
    OBVIOUS
<1>1. table \in Seq(Record) /\ start = table
    <2>1. ASSUME NEW S \in SUBSET Record
          PROVE  SetToSeq(S) \in Seq(Record)
        <3>1. IsFiniteSet(S)
            BY FS_Subset, ClientAssumption
        <3>2. SetToSeq(S) \in Seq(S)
            BY <3>1, SetToSeqIs
        <3> QED
            BY <3>2, SeqMonotonic
    <2>2. <<>> \in Seq(Record)
        BY EmptySeq
    <2> QED
        BY <2>1, <2>2 DEF Init
<1>2. follow \in [Pages -> Cursor \cup {None}] /\ content \in [Pages -> Nat]
    BY DEF Init
<1>3. yielded \in Seq(Item) /\ Len(yielded) = 0 /\ seen = {} /\ yielded = <<>>
    BY EmptySeq DEF Init
<1>4. Typed
    <2>1. MaxItems \in Nat /\ MaxFaults \in Nat
        BY ClientAssumption
    <2>2. page \in IF op = "numbered" THEN Nat ELSE Pages
        BY Zenon DEF Init, Pages
    <2>3. /\ op \in Lists \cup {"write", "download"} /\ phase = "authenticate"
          /\ held = FALSE /\ fresh = FALSE /\ live = FALSE
          /\ shrunk = FALSE /\ executed = 0 /\ spoilt = FALSE /\ faults = MaxFaults
        BY DEF Init, Lists
    <2> QED
        <3>1. /\ yielded \in Seq(Item) /\ Len(yielded) <= MaxItems
              /\ seen \subseteq Cursor /\ table \in Seq(Record) /\ start \in Seq(Record)
            BY <1>1, <1>3, <2>1
        <3>2. /\ phase \in {"authenticate", "send", "refresh", "repeat", "returned", "raised"}
              /\ held \in BOOLEAN /\ fresh \in BOOLEAN /\ live \in BOOLEAN
              /\ shrunk \in BOOLEAN /\ executed \in Nat /\ spoilt \in BOOLEAN /\ faults \in Nat
            BY <2>1, <2>3
        <3> QED
            BY <1>2, <2>2, <2>3, <3>1, <3>2, Zenon DEF Typed
<1>5. op = "bookmark" => Bookmarked
    <2>1. Known = {First} /\ Known \ {First} = {}
        BY <1>3 DEF Known
    <2>2. First \in Reachable
        BY DEF Reachable, Pages
    <2>3. Given({})
        BY <1>3, EmptyGiven
    <2> QED
        BY <2>1, <2>2, <2>3 DEF Init, Bookmarked
<1>6. Numbered
    <2>1. ASSUME op = "numbered", NEW r \in ToSet(start)
          PROVE  \E i \in 1..Len(table) : i > page * PageSize /\ table[i] = r
        <3>1. PICK i \in 1..Len(table) : table[i] = r
            BY <1>1, <2>1, InToSet
        <3>2. page * PageSize = 0
            <4>1. page = 0
                BY <2>1 DEF Init
            <4>2. PageSize \in Nat
                BY ClientAssumption
            <4> QED
                BY <4>1, <4>2
        <3>3. i > 0
            BY <1>1, LenProperties
        <3> QED
            BY <3>1, <3>2, <3>3
    <2> QED
        BY <2>1 DEF Init, Numbered
<1> QED
    BY <1>4, <1>5, <1>6 DEF ListInv, Bookmarked

LEMMA ListInvariant == Spec => []ListInv
    BY ListInit, ListStep, PTL DEF Spec

\* What was given and what the cursors lead to agree when the listing ends.
LEMMA ListingEnds ==
    ASSUME ListInv
    PROVE  TypeOK /\ ListingComplete
<1> USE DEF ListInv
<1>1. TypeOK
    <2>1. ToSet(table) \subseteq Record /\ ToSet(start) \subseteq Record
        <3>1. ASSUME NEW s \in Seq(Record) PROVE ToSet(s) \subseteq Record
            BY InToSet, ElementOfSeq
        <3>2. table \in Seq(Record) /\ start \in Seq(Record)
            BY DEF Typed
        <3> QED
            BY <3>1, <3>2
    <2>2. page \in Pages \cup Nat
        BY DEF Typed
    <2> QED
        BY <2>1, <2>2 DEF Typed, TypeOK
<1>2. ASSUME phase = "returned", Len(yielded) < MaxItems, op = "bookmark"
      PROVE  /\ ToSet(yielded) = UNION {{<<p, i>> : i \in 1..content[p]} : p \in Reachable}
             /\ IsInjective(yielded)
    <2>1. Known \subseteq Reachable /\ Given(Known)
        BY <1>2 DEF Bookmarked
    <2>2. Known \in SUBSET Pages /\ First \in Known
        BY DEF Known, Typed, Pages
    <2>3. \A q \in Known : follow[q] # None => follow[q] \in Known
        BY <2>1 DEF Given, Known
    <2>4. Reachable \subseteq Known
        BY <2>2, <2>3 DEF Reachable
    <2>5. Known = Reachable
        BY <2>1, <2>4
    <2> QED
        BY <2>1, <2>5, Zenon DEF Given, OnPage
<1>3. ASSUME phase = "returned", Len(yielded) < MaxItems, op = "numbered", ~shrunk
      PROVE  ToSet(start) \subseteq ToSet(yielded)
    BY <1>3 DEF Numbered
<1> QED
    BY <1>1, <1>2, <1>3 DEF ListingComplete

\* In every state of a call its variables are of their types, and a listing
\* has given no more than max_items.
THEOREM ClientTypes == Spec => []TypeOK
    BY ListInvariant, ListingEnds, PTL

\* Whatever cursors Airwallex answers, in circles too, and whatever is inserted
\* into a table meanwhile: a listing that ends below max_items has given every
\* record of every page the cursors lead to, once, or every row that was there
\* from the beginning.
THEOREM ListingsAreComplete == Spec => []ListingComplete
    BY ListInvariant, ListingEnds, PTL
=============================================================================
