--------------------------- MODULE ReceiptsProofs ---------------------------
(***************************************************************************)
(* For any expenses, attachments, mail, workers and faults: copies of a    *)
(* receipt are bounded and the last one stays, what a person must look at  *)
(* is recorded, and mails that compete are never both attached.            *)
(***************************************************************************)
EXTENDS Receipts, SumProofs, SequenceTheorems, FiniteSetTheorems, TLAPS

-----------------------------------------------------------------------------
(* Copies *)

\* The Files of b with the content c on x.
Of(b, x, c) == {f \in BagToSet(b) : f.to = x /\ f.content = c}

LEMMA OneMore == ASSUME NEW m \in Nat, NEW n \in Nat PROVE (m + 1) + n = (m + n) + 1 /\ 1 + n = n + 1
    OBVIOUS

LEMMA CopiesCount ==
    ASSUME NEW b, IsABag(b), NEW x, NEW c, IsFiniteSet(Of(b, x, c))
    PROVE  /\ SumFunctionOnSet(b, Of(b, x, c)) \in Nat
           /\ SumFunctionOnSet(b, Of(b, x, c)) > 0 <=> Of(b, x, c) # {}
<1>1. PICK S : S = Of(b, x, c)
    OBVIOUS
<1>2. IsFiniteSet(S) /\ \A f \in S : b[f] \in Nat /\ b[f] > 0
    BY <1>1 DEF Of, BagToSet, IsABag
<1>3. SumFunctionOnSet(b, S) \in Nat
    BY <1>2, SumNat
<1>4. CASE S = {}
    <2>1. SumFunctionOnSet(b, S) = 0
        BY <1>4, SumEmpty
    <2> QED
        BY <1>1, <1>3, <1>4, <2>1
<1>5. ASSUME NEW e \in S
      PROVE  SumFunctionOnSet(b, S) > 0
    <2>1. SumFunctionOnSet(b, S) = b[e] + SumFunctionOnSet(b, S \ {e})
        BY <1>2, SumRemove
    <2>2. IsFiniteSet(S \ {e}) /\ \A f \in S \ {e} : b[f] \in Nat
        BY <1>2, FS_RemoveElement
    <2>3. PICK n \in Nat : n = SumFunctionOnSet(b, S \ {e})
        BY <2>2, SumNat
    <2>4. PICK k \in Nat : k = b[e] /\ k > 0
        BY <1>2
    <2>5. SumFunctionOnSet(b, S) = k + n
        BY <2>1, <2>3, <2>4, Zenon
    <2> QED
        BY <2>4, <2>5
<1> QED
    BY <1>1, <1>3, <1>4, <1>5

LEMMA AddedBag ==
    ASSUME NEW b, IsABag(b), NEW A
    PROVE  IsABag(b (+) SetToBag(A))
<1>1. PICK d : d = b (+) SetToBag(A)
    OBVIOUS
<1>2. /\ DOMAIN d = DOMAIN b \cup A
      /\ \A f \in DOMAIN b \cup A :
            d[f] = (IF f \in DOMAIN b THEN b[f] ELSE 0) + (IF f \in A THEN 1 ELSE 0)
      /\ d = [f \in DOMAIN d |-> d[f]]
    BY <1>1 DEF (+), SetToBag
<1>3. \A f \in DOMAIN b : b[f] \in Nat /\ b[f] > 0
    BY DEF IsABag
<1>4. \A f \in DOMAIN d : d[f] \in Nat /\ d[f] > 0
    BY <1>2, <1>3
<1> QED
    BY <1>1, <1>2, <1>4 DEF IsABag

\* Files of which at most one has the content c on x are added.
LEMMA CopiesAdded ==
    ASSUME NEW b, IsABag(b), NEW x, NEW c, IsFiniteSet(Of(b, x, c)),
           NEW A, \A f, g \in A : f.to = x /\ f.content = c /\ g.to = x /\ g.content = c => f = g,
           NEW d, d = b (+) SetToBag(A)
    PROVE  /\ IsABag(d) /\ BagToSet(d) = BagToSet(b) \cup A
           /\ IsFiniteSet(Of(d, x, c))
           /\ IF \E f \in A : f.to = x /\ f.content = c
              THEN SumFunctionOnSet(d, Of(d, x, c)) = SumFunctionOnSet(b, Of(b, x, c)) + 1
              ELSE SumFunctionOnSet(d, Of(d, x, c)) = SumFunctionOnSet(b, Of(b, x, c))
<1>1. /\ DOMAIN d = DOMAIN b \cup A
      /\ \A f \in DOMAIN b \cup A :
            d[f] = (IF f \in DOMAIN b THEN b[f] ELSE 0) + (IF f \in A THEN 1 ELSE 0)
      /\ d = [f \in DOMAIN d |-> d[f]]
    BY DEF (+), SetToBag
<1>2. \A f \in DOMAIN b : b[f] \in Nat /\ b[f] > 0
    BY DEF IsABag
<1>3. \A f \in DOMAIN d : d[f] \in Nat /\ d[f] > 0
    BY <1>1, <1>2
<1>4. IsABag(d) /\ BagToSet(d) = BagToSet(b) \cup A
    BY <1>1, <1>3 DEF IsABag, BagToSet
<1>5. PICK S : S = Of(b, x, c)
    OBVIOUS
<1>6. IsFiniteSet(S) /\ S \subseteq DOMAIN b
    BY <1>5 DEF Of, BagToSet
<1>7. CASE \E f \in A : f.to = x /\ f.content = c
    <2>1. PICK e \in A : e.to = x /\ e.content = c
        BY <1>7
    <2>2. PICK T : T = S \cup {e}
        OBVIOUS
    <2>3. Of(d, x, c) = T
        BY <1>4, <1>5, <2>1, <2>2 DEF Of
    <2>4. T \ {e} = S \ {e} /\ e \in T
        BY <2>2
    <2>5. IsFiniteSet(T) /\ IsFiniteSet(S \ {e})
        BY <1>6, <2>2, FS_AddElement, FS_RemoveElement
    <2>6. \A f \in T : d[f] \in Nat
        <3>1. T \subseteq DOMAIN d
            BY <1>1, <1>6, <2>2
        <3> QED
            BY <1>3, <3>1
    <2>7. SumFunctionOnSet(d, T) = d[e] + SumFunctionOnSet(d, S \ {e})
        <3>1. SumFunctionOnSet(d, T) = d[e] + SumFunctionOnSet(d, T \ {e})
            BY <2>4, <2>5, <2>6, SumRemove
        <3> QED
            BY <2>4, <3>1
    <2>8. \A f \in S \ {e} : d[f] = b[f]
        <3> SUFFICES ASSUME NEW f \in S \ {e} PROVE d[f] = b[f]
            OBVIOUS
        <3>1. f \in DOMAIN b /\ f.to = x /\ f.content = c
            BY <1>5 DEF Of, BagToSet
        <3>2. f \notin A
            BY <2>1, <3>1
        <3>3. d[f] = b[f] + 0 /\ b[f] \in Nat
            BY <1>1, <1>2, <3>1, <3>2
        <3> QED
            BY <3>3
    <2>9. SumFunctionOnSet(d, S \ {e}) = SumFunctionOnSet(b, S \ {e})
        BY <2>5, <2>8, SumSame
    <2>10. PICK n \in Nat : n = SumFunctionOnSet(b, S \ {e})
        <3>1. \A f \in S \ {e} : b[f] \in Nat
            BY <1>2, <1>6
        <3> QED
            BY <2>5, <3>1, SumNat
    <2>11. SumFunctionOnSet(d, T) = d[e] + n
        BY <2>7, <2>9, <2>10, Zenon
    <2>12. SumFunctionOnSet(d, T) = SumFunctionOnSet(b, S) + 1
        <3>1. CASE e \in DOMAIN b
            <4>1. e \in S
                BY <1>5, <2>1, <3>1 DEF Of, BagToSet
            <4>2. \A f \in S : b[f] \in Nat
                BY <1>2, <1>6
            <4>3. SumFunctionOnSet(b, S) = b[e] + SumFunctionOnSet(b, S \ {e})
                BY <1>6, <4>1, <4>2, SumRemove
            <4>4. PICK k \in Nat : k = b[e]
                BY <1>2, <3>1
            <4>5. SumFunctionOnSet(b, S) = k + n
                BY <2>10, <4>3, <4>4, Zenon
            <4>6. d[e] = k + 1
                BY <1>1, <3>1, <4>4
            <4>7. (k + 1) + n = (k + n) + 1
                BY OneMore
            <4> QED
                BY <2>11, <4>5, <4>6, <4>7, Zenon
        <3>2. CASE e \notin DOMAIN b
            <4>1. S \ {e} = S
                BY <1>6, <3>2
            <4>2. d[e] = 1
                BY <1>1, <3>2
            <4>3. 1 + n = n + 1
                BY OneMore
            <4> QED
                BY <2>10, <2>11, <4>1, <4>2, <4>3, Zenon
        <3> QED
            BY <3>1, <3>2
    <2> QED
        BY <1>4, <1>5, <1>7, <2>3, <2>5, <2>12, Zenon
<1>8. CASE ~(\E f \in A : f.to = x /\ f.content = c)
    <2>1. Of(d, x, c) = S
        BY <1>4, <1>5, <1>8 DEF Of
    <2>2. \A f \in S : d[f] = b[f]
        <3> SUFFICES ASSUME NEW f \in S PROVE d[f] = b[f]
            OBVIOUS
        <3>1. f \in DOMAIN b /\ f.to = x /\ f.content = c
            BY <1>5 DEF Of, BagToSet
        <3>2. d[f] = b[f] + 0 /\ b[f] \in Nat
            BY <1>1, <1>2, <1>8, <3>1
        <3> QED
            BY <3>2
    <2>3. SumFunctionOnSet(d, S) = SumFunctionOnSet(b, S)
        BY <1>6, <2>2, SumSame
    <2> QED
        BY <1>4, <1>5, <1>6, <1>8, <2>1, <2>3, Zenon
<1> QED
    BY <1>7, <1>8

\* The jobs that may yet attach the content c to x.
Lookers(x, c) ==
    {w \in Worker : job[w].pc = "looking" /\ job[w].to = x
                        /\ \A f \in job[w].files : ~(f.to = x /\ f.content = c)}

\* A copy more is one job less that may attach another.
Counted ==
    /\ IsABag(files)
    /\ job = [w \in Worker |-> job[w]]
    /\ \A x \in Expense, c \in Content :
            /\ IsFiniteSet(Of(files, x, c))
            /\ Copies(x, c) + Cardinality(Lookers(x, c)) <= Cardinality(Worker) + 1

\* What a step may do to the copies of c on x, and to the jobs looking.
Counts(x, c) ==
    /\ IsFiniteSet(Of(files, x, c)')
    /\ \/ /\ Copies(x, c)' \in 0..Copies(x, c) /\ (Copies(x, c) > 0 => Copies(x, c)' > 0)
          /\ Lookers(x, c)' \subseteq Lookers(x, c)
       \/ /\ Copies(x, c)' = Copies(x, c) + 1
          /\ \E w \in Lookers(x, c) : Lookers(x, c)' \subseteq Lookers(x, c) \ {w}
       \/ Copies(x, c)' \in {0, 1} /\ (Copies(x, c) > 0 => Copies(x, c)' = 1)

LEMMA CopiesAre ==
    ASSUME NEW x, NEW c
    PROVE  Copies(x, c) = SumFunctionOnSet(files, Of(files, x, c))
    BY DEF Copies, Of

LEMMA CopiesNat ==
    ASSUME Counted, NEW x \in Expense, NEW c \in Content
    PROVE  /\ Copies(x, c) \in Nat
           /\ Copies(x, c) > 0 <=> Of(files, x, c) # {}
    BY CopiesAre, CopiesCount, Zenon DEF Counted

LEMMA FiniteWorker == IsFiniteSet(Worker)
    BY ReceiptsAssumption

LEMMA Slack ==
    ASSUME NEW n \in Nat, NEW l \in Nat, NEW m \in Nat, NEW k \in Nat, NEW W \in Nat,
           n + l <= W + 1, k <= W, (m <= n /\ k <= l) \/ (m = n + 1 /\ k <= l - 1) \/ m \in {0, 1}
    PROVE  m + k <= W + 1
    OBVIOUS

LEMMA CountsSuffice ==
    ASSUME Counted, NEW x \in Expense, NEW c \in Content, Counts(x, c)
    PROVE  Copies(x, c)' + Cardinality(Lookers(x, c)') <= Cardinality(Worker) + 1
<1>1. PICK L : L = Lookers(x, c)
    OBVIOUS
<1>2. PICK K : K = Lookers(x, c)'
    OBVIOUS
<1>3. L \subseteq Worker /\ K \subseteq Worker
    BY <1>1, <1>2 DEF Lookers
<1>4. IsFiniteSet(Worker) /\ IsFiniteSet(L) /\ IsFiniteSet(K)
    BY <1>3, FS_Subset, FiniteWorker
<1>5. PICK W \in Nat : W = Cardinality(Worker)
    BY <1>4, FS_CardinalityType
<1>6. PICK l \in Nat : l = Cardinality(L)
    BY <1>4, FS_CardinalityType
<1>7. PICK k \in Nat : k = Cardinality(K) /\ k <= W
    BY <1>3, <1>4, <1>5, FS_CardinalityType, FS_Subset
<1>8. PICK n \in Nat : n = Copies(x, c)
    BY CopiesNat
<1>9. PICK m : m = Copies(x, c)'
    OBVIOUS
<1>10. n + l <= W + 1
    BY <1>1, <1>5, <1>6, <1>8, Zenon DEF Counted
<1>11. m \in Nat /\ ((m <= n /\ k <= l) \/ (m = n + 1 /\ k <= l - 1) \/ m \in {0, 1})
    <2>1. CASE m \in 0..n /\ K \subseteq L
        BY <2>1, <1>4, <1>6, <1>7, FS_Subset
    <2>2. CASE m = n + 1 /\ \E w \in L : K \subseteq L \ {w}
        <3>1. PICK w \in L : K \subseteq L \ {w}
            BY <2>2
        <3>2. IsFiniteSet(L \ {w}) /\ Cardinality(L \ {w}) = l - 1
            BY <1>4, <1>6, FS_RemoveElement
        <3>3. Cardinality(K) <= Cardinality(L \ {w})
            BY <3>1, <3>2, FS_Subset
        <3>4. k <= l - 1
            BY <1>7, <3>2, <3>3
        <3> QED
            BY <2>2, <3>4
    <2>3. CASE m \in {0, 1}
        BY <2>3
    <2> QED
        BY <2>1, <2>2, <2>3, <1>1, <1>2, <1>8, <1>9, Zenon DEF Counts
<1>12. m + k <= W + 1
    BY <1>7, <1>10, <1>11, Slack
<1> QED
    BY <1>2, <1>5, <1>7, <1>9, <1>12, Zenon

\* Files are added, no job begins, and who adds one of c on x was looking.
LEMMA AddedCounts ==
    ASSUME Counted, NEW x \in Expense, NEW c \in Content,
           NEW A, \A f, g \in A : f.to = x /\ f.content = c /\ g.to = x /\ g.content = c => f = g,
           files' = files (+) SetToBag(A), Lookers(x, c)' \subseteq Lookers(x, c),
           (\E f \in A : f.to = x /\ f.content = c) =>
                \/ Copies(x, c) = 0
                \/ \E w \in Lookers(x, c) : Lookers(x, c)' \subseteq Lookers(x, c) \ {w}
    PROVE  Counts(x, c)
<1>1. PICK d : d = files'
    OBVIOUS
<1>2. IsABag(files) /\ IsFiniteSet(Of(files, x, c))
    BY DEF Counted
<1>3. d = files (+) SetToBag(A)
    BY <1>1
<1>4. /\ IsABag(d) /\ IsFiniteSet(Of(d, x, c))
      /\ IF \E f \in A : f.to = x /\ f.content = c
         THEN SumFunctionOnSet(d, Of(d, x, c)) = SumFunctionOnSet(files, Of(files, x, c)) + 1
         ELSE SumFunctionOnSet(d, Of(d, x, c)) = SumFunctionOnSet(files, Of(files, x, c))
    BY <1>2, <1>3, CopiesAdded
<1>5. /\ Of(files, x, c)' = Of(d, x, c)
      /\ Copies(x, c)' = SumFunctionOnSet(d, Of(d, x, c))
    BY <1>1 DEF Copies, Of
<1>6. Copies(x, c) = SumFunctionOnSet(files, Of(files, x, c))
    BY CopiesAre
<1>7. PICK n \in Nat : n = Copies(x, c)
    BY CopiesNat
<1>8. PICK m : m = Copies(x, c)'
    OBVIOUS
<1>9. IsFiniteSet(Of(files, x, c)')
    BY <1>1, <1>4, <1>5, Zenon
<1>10. CASE \E f \in A : f.to = x /\ f.content = c
    <2>1. m = n + 1
        BY <1>4, <1>5, <1>6, <1>7, <1>8, <1>10, Zenon
    <2>2. (m = 1 /\ ~(n > 0)) \/ n # 0
        BY <2>1
    <2> QED
        BY <2>1, <2>2, <1>7, <1>8, <1>9, <1>10 DEF Counts
<1>11. CASE ~(\E f \in A : f.to = x /\ f.content = c)
    <2>1. m = n
        BY <1>4, <1>5, <1>6, <1>7, <1>8, <1>11, Zenon
    <2> QED
        BY <2>1, <1>7, <1>8, <1>9 DEF Counts
<1> QED
    BY <1>10, <1>11

\* No File comes or goes, and no job begins.
LEMMA SameCounts ==
    ASSUME Counted, NEW x \in Expense, NEW c \in Content, files' = files,
           Lookers(x, c)' \subseteq Lookers(x, c)
    PROVE  Counts(x, c)
<1>1. Of(files, x, c)' = Of(files, x, c) /\ Copies(x, c)' = Copies(x, c)
    BY DEF Of, Copies, BagToSet
<1> QED
    BY <1>1, CopiesNat DEF Counts, Counted

LEMMA IdleLookers ==
    ASSUME Counted, NEW w \in Worker, job' = [job EXCEPT ![w] = IdleJob], NEW x, NEW c
    PROVE  /\ Lookers(x, c)' \subseteq Lookers(x, c) \ {w}
           /\ job' = [v \in Worker |-> job'[v]]
<1>1. IdleJob.pc = "idle"
    BY DEF IdleJob
<1>2. job = [v \in Worker |-> job[v]]
    BY DEF Counted
<1>3. \A v \in Worker : job'[v] = IF v = w THEN IdleJob ELSE job[v]
    BY <1>2
<1>4. job' = [v \in Worker |-> job'[v]]
    BY <1>2
<1> QED
    BY <1>1, <1>3, <1>4 DEF Lookers

LEMMA BeginCounts ==
    ASSUME Counted, NEW w \in Worker, NEW y \in Expense, NEW v, Begin(w, y, v), NEW x \in Expense, NEW c \in Content
    PROVE  Counts(x, c)
<1>1. PICK j : j = [pc |-> "looking", to |-> y, version |-> v, fresh |-> state[y] = "none",
                    files |-> {f \in BagToSet(files) : Relevant(f, y)},
                    matches |-> MatchesOf(y),
                    native |-> {a \in native : OwnerOf[a] = y},
                    mail |-> mailbox]
    OBVIOUS
<1>2. j.to = y /\ j.files = {f \in BagToSet(files) : Relevant(f, y)}
    BY <1>1
<1>3. job' = [job EXCEPT ![w] = j] /\ files' = files
    BY <1>1 DEF Begin
<1>4. \A u \in Worker : job'[u] = IF u = w THEN j ELSE job[u]
    <2>1. job = [u \in Worker |-> job[u]]
        BY DEF Counted
    <2> QED
        BY <1>3, <2>1
<1>5. CASE Of(files, x, c) = {}
    <2>1. Copies(x, c) = 0
        BY <1>5, CopiesAre, SumEmpty
    <2>2. Copies(x, c)' = Copies(x, c) /\ Of(files, x, c)' = Of(files, x, c)
        BY <1>3 DEF Copies, Of, BagToSet
    <2>3. Copies(x, c)' \in {0, 1} /\ (Copies(x, c) > 0 => Copies(x, c)' = 1)
        BY <2>1, <2>2
    <2> QED
        BY <2>2, <2>3 DEF Counts, Counted
<1>6. CASE Of(files, x, c) # {}
    <2>1. PICK f \in BagToSet(files) : f.to = x /\ f.content = c
        BY <1>6 DEF Of
    <2>2. Lookers(x, c)' \subseteq Lookers(x, c)
        BY <2>1, <1>2, <1>4 DEF Lookers, Relevant
    <2> QED
        BY <2>2, <1>3, SameCounts
<1> QED
    BY <1>5, <1>6

LEMMA FinishCounts ==
    ASSUME Counted, NEW w \in Worker, job[w].pc = "looking", NEW added, NEW key, NEW outcome,
           Finish(w, added, key, outcome),
           \A a, b \in added : a # b => a.content # b.content,
           \A a \in added, f \in job[w].files : ~(f.to = job[w].to /\ f.content = a.content)
    PROVE  Counted' /\ \A x \in Expense, c \in Content : Counts(x, c)
<1>1. PICK y : y = job[w].to
    OBVIOUS
<1>2. PICK A : A = {[to |-> y, id |-> a.id, content |-> a.content] : a \in added}
    OBVIOUS
<1>3. files' = files (+) SetToBag(A) /\ job' = [job EXCEPT ![w] = IdleJob]
    BY <1>1, <1>2 DEF Finish, AsFiles
<1>4. job' = [v \in Worker |-> job'[v]]
    BY <1>3, IdleLookers
<1>5. ASSUME NEW x \in Expense, NEW c \in Content
      PROVE  Counts(x, c)
    <2>1. Lookers(x, c)' \subseteq Lookers(x, c) \ {w}
        BY <1>3, IdleLookers
    <2>2. \A f, g \in A : f.to = x /\ f.content = c /\ g.to = x /\ g.content = c => f = g
        BY <1>2
    <2>3. (\E f \in A : f.to = x /\ f.content = c) => w \in Lookers(x, c)
        BY <1>1, <1>2 DEF Lookers
    <2> QED
        BY <1>3, <2>1, <2>2, <2>3, AddedCounts
<1>6. IsABag(files')
    BY <1>3, AddedBag DEF Counted
<1> QED
    BY <1>4, <1>5, <1>6, CountsSuffice DEF Counted, Counts

LEMMA IngestCounts ==
    ASSUME Counted, NEW y \in Expense, NEW T, Ingest(y, T)
    PROVE  IsABag(files') /\ \A x \in Expense, c \in Content : Counts(x, c)
<1>1. PICK new : new = {c \in T : Copies(y, c) = 0}
    OBVIOUS
<1>2. \E id : files' = files (+) SetToBag({[to |-> y, id |-> id, content |-> c] : c \in new})
    BY <1>1, Zenon DEF Ingest
<1>3. PICK id : files' = files (+) SetToBag({[to |-> y, id |-> id, content |-> c] : c \in new})
    BY <1>2, Zenon
<1>4. PICK A : A = {[to |-> y, id |-> id, content |-> c] : c \in new}
    OBVIOUS
<1>5. files' = files (+) SetToBag(A) /\ job' = job
    BY <1>3, <1>4 DEF Ingest
<1>6. ASSUME NEW x \in Expense, NEW c \in Content
      PROVE  Counts(x, c)
    <2>1. Lookers(x, c)' \subseteq Lookers(x, c)
        BY <1>5 DEF Lookers
    <2>2. \A f, g \in A : f.to = x /\ f.content = c /\ g.to = x /\ g.content = c => f = g
        BY <1>4
    <2>3. (\E f \in A : f.to = x /\ f.content = c) => Copies(x, c) = 0
        BY <1>1, <1>4
    <2> QED
        BY <1>5, <2>1, <2>2, <2>3, AddedCounts
<1> QED
    BY <1>5, <1>6, AddedBag DEF Counted

\* What the patch leaves: fewer copies, and one of each content.
LEMMA DeduplicateLeaves ==
    ASSUME IsABag(files), Deduplicate
    PROVE  \E kept \in SUBSET BagToSet(files) :
            /\ files' = [f \in kept |-> files'[f]]
            /\ \A f \in kept : files'[f] \in Nat /\ files'[f] > 0 /\ files'[f] <= files[f]
            /\ \A f \in BagToSet(files) \ kept :
                    \E g \in kept : g.to = f.to /\ g.content = f.content
<1>1. PICK kept \in SUBSET BagToSet(files) :
            \E left \in [kept -> UNION {1..files[f] : f \in kept}] :
                /\ \A f \in kept : left[f] <= files[f]
                /\ \A f \in BagToSet(files) \ kept :
                        \E g \in kept \cap Duplicates(f) : Rank(f) <= Rank(g)
                /\ files' = left
    BY Zenon DEF Deduplicate
<1>2. PICK left \in [kept -> UNION {1..files[f] : f \in kept}] :
            /\ \A f \in kept : left[f] <= files[f]
            /\ \A f \in BagToSet(files) \ kept :
                    \E g \in kept \cap Duplicates(f) : Rank(f) <= Rank(g)
            /\ files' = left
    BY <1>1, Zenon
<1>3. \A f \in kept : files[f] \in Nat
    BY DEF IsABag, BagToSet
<1>4. ASSUME NEW f \in kept
      PROVE  left[f] \in Nat /\ left[f] > 0
    <2>1. left[f] \in UNION {1..files[g] : g \in kept}
        OBVIOUS
    <2>2. PICK g \in kept : left[f] \in 1..files[g]
        BY <2>1
    <2>3. PICK n \in Nat : n = files[g]
        BY <1>3
    <2>4. left[f] \in 1..n
        BY <2>2, <2>3
    <2> QED
        BY <2>4
<1>5. \A f \in BagToSet(files) \ kept : \E g \in kept : g.to = f.to /\ g.content = f.content
    BY <1>2 DEF Duplicates
<1> QED
    BY <1>2, <1>4, <1>5

LEMMA DeduplicateCounts ==
    ASSUME Counted, Deduplicate
    PROVE  IsABag(files') /\ \A x \in Expense, c \in Content : Counts(x, c)
<1>1. PICK kept \in SUBSET BagToSet(files) :
            /\ files' = [f \in kept |-> files'[f]]
            /\ \A f \in kept : files'[f] \in Nat /\ files'[f] > 0 /\ files'[f] <= files[f]
            /\ \A f \in BagToSet(files) \ kept :
                    \E g \in kept : g.to = f.to /\ g.content = f.content
    BY DeduplicateLeaves DEF Counted
<1>2. PICK d : d = files'
    OBVIOUS
<1>3. d = [f \in kept |-> d[f]] /\ \A f \in kept : d[f] \in Nat /\ d[f] > 0 /\ d[f] <= files[f]
    BY <1>1, <1>2
<1>4. IsABag(d) /\ BagToSet(d) = kept
    BY <1>3 DEF IsABag, BagToSet
<1>5. ASSUME NEW x \in Expense, NEW c \in Content
      PROVE  Counts(x, c)
    <2>1. PICK S : S = Of(files, x, c)
        OBVIOUS
    <2>2. PICK R : R = Of(d, x, c)
        OBVIOUS
    <2>3. R = kept \cap S
        BY <1>4, <2>1, <2>2 DEF Of
    <2>4. IsFiniteSet(S) /\ IsFiniteSet(R) /\ R \subseteq S
        BY <2>1, <2>3, FS_Subset DEF Counted
    <2>5. Of(files, x, c)' = R /\ Copies(x, c)' = SumFunctionOnSet(d, R)
        BY <1>2, <2>2 DEF Copies, Of
    <2>6. \A f \in S : files[f] \in Nat
        BY <2>1 DEF Counted, Of, IsABag, BagToSet
    <2>7. PICK m \in Nat : m = SumFunctionOnSet(d, R) /\ (m > 0 <=> R # {})
        BY <1>4, <2>2, <2>4, CopiesCount
    <2>8. PICK n \in Nat : n = SumFunctionOnSet(files, S) /\ (n > 0 <=> S # {})
        BY <2>1, <2>4, CopiesCount DEF Counted
    <2>9. m <= n
        <3>1. \A f \in R : d[f] \in Nat /\ files[f] \in Nat /\ d[f] <= files[f]
            BY <1>3, <2>3, <2>6
        <3>2. SumFunctionOnSet(d, R) <= SumFunctionOnSet(files, R)
            BY <2>4, <3>1, SumAtMost
        <3>3. SumFunctionOnSet(files, R) <= SumFunctionOnSet(files, S)
            BY <2>4, <2>6, SumSubset
        <3>4. PICK k \in Nat : k = SumFunctionOnSet(files, R)
            BY <2>4, <3>1, SumNat
        <3>5. m <= k /\ k <= n
            BY <2>7, <2>8, <3>2, <3>3, <3>4, Zenon
        <3> QED
            BY <3>5
    <2>10. S # {} => R # {}
        BY <1>1, <2>1, <2>3 DEF Of
    <2>11. m \in 0..n /\ (n > 0 => m > 0)
        BY <2>7, <2>8, <2>9, <2>10
    <2>12. Copies(x, c)' = m /\ Copies(x, c) = n
        BY <2>1, <2>5, <2>7, <2>8, CopiesAre, Zenon
    <2>13. Lookers(x, c)' \subseteq Lookers(x, c)
        BY DEF Deduplicate, Lookers
    <2> QED
        BY <2>4, <2>5, <2>11, <2>12, <2>13 DEF Counts
<1> QED
    BY <1>2, <1>4, <1>5

\* Every step changes the copies of a content as Counts allows.
LEMMA StepCounts ==
    ASSUME Counted, [Next]_vars
    PROVE  /\ Counted'
           /\ \A x \in Expense, c \in Content : Counts(x, c)
<1>1. ASSUME job' = [w \in Worker |-> job'[w]], IsABag(files'),
             \A x \in Expense, c \in Content : Counts(x, c)
      PROVE  Counted' /\ \A x \in Expense, c \in Content : Counts(x, c)
    BY <1>1, CountsSuffice DEF Counted, Counts
<1>2. ASSUME NEW w \in Worker, NEW y \in Expense, NEW v, Begin(w, y, v)
      PROVE  Counted' /\ \A x \in Expense, c \in Content : Counts(x, c)
    <2>1. files' = files /\ job' = [u \in Worker |-> job'[u]]
        BY <1>2 DEF Begin, Counted
    <2> QED
        BY <1>1, <1>2, <2>1, BeginCounts DEF Counted
<1>3. ASSUME NEW w \in Worker, FindNothing(w) \/ HoldCompeting(w) \/ ProviderError(w) \/ Attach(w)
      PROVE  Counted' /\ \A x \in Expense, c \in Content : Counts(x, c)
    <2>1. PICK added, key, outcome :
            /\ job[w].pc = "looking" /\ Finish(w, added, key, outcome)
            /\ \A a, b \in added : a # b => a.content # b.content
            /\ \A a \in added, f \in job[w].files : ~(f.to = job[w].to /\ f.content = a.content)
        <3>1. CASE FindNothing(w) \/ HoldCompeting(w) \/ ProviderError(w)
            <4>1. job[w].pc = "looking"
                BY <3>1 DEF FindNothing, HoldCompeting, ProviderError, Reading
            <4>2. PICK key, outcome : Finish(w, {}, key, outcome)
                BY <3>1, Zenon DEF FindNothing, HoldCompeting, ProviderError
            <4> QED
                BY <4>1, <4>2
        <3>2. CASE Attach(w)
            <4> DEFINE chosen == Selected(Candidates(job[w]))
                       new == Unattached(job[w], chosen)
            <4>1. /\ job[w].pc = "looking"
                  /\ \E failed \in SUBSET new : \E added \in OneEach(new \ failed) :
                        Finish(w, added, (CHOOSE c \in chosen : TRUE).msg,
                               IF failed = chosen THEN "error" ELSE "attached")
                BY <3>2, Zenon DEF Attach, Reading
            <4>2. PICK failed \in SUBSET new : \E added \in OneEach(new \ failed) :
                        Finish(w, added, (CHOOSE c \in chosen : TRUE).msg,
                               IF failed = chosen THEN "error" ELSE "attached")
                BY <4>1
            <4>3. PICK added \in OneEach(new \ failed) :
                        Finish(w, added, (CHOOSE c \in chosen : TRUE).msg,
                               IF failed = chosen THEN "error" ELSE "attached")
                BY <4>2
            <4>4. PICK key : key = (CHOOSE c \in chosen : TRUE).msg
                OBVIOUS
            <4>5. PICK outcome : outcome = IF failed = chosen THEN "error" ELSE "attached"
                OBVIOUS
            <4>6. Finish(w, added, key, outcome)
                BY <4>3, <4>4, <4>5
            <4>7. added \subseteq new /\ \A a, b \in added : a # b => a.content # b.content
                BY DEF OneEach
            <4>8. \A a \in added, f \in job[w].files : ~(f.to = job[w].to /\ f.content = a.content)
                BY <4>7 DEF Unattached
            <4> QED
                BY <4>1, <4>6, <4>7, <4>8
        <3> QED
            BY <1>3, <3>1, <3>2
    <2> QED
        BY <2>1, FinishCounts
<1>4. ASSUME NEW w \in Worker, Leave(w) \/ Rollback(w)
      PROVE  Counted' /\ \A x \in Expense, c \in Content : Counts(x, c)
    <2>1. job' = [job EXCEPT ![w] = IdleJob] /\ files' = files
        BY <1>4 DEF Leave, Rollback
    <2>2. \A x \in Expense, c \in Content : Counts(x, c)
        <3> SUFFICES ASSUME NEW x \in Expense, NEW c \in Content PROVE Counts(x, c)
            OBVIOUS
        <3> QED
            BY <2>1, IdleLookers, SameCounts
    <2> QED
        BY <1>1, <2>1, <2>2, IdleLookers DEF Counted
<1>5. ASSUME NEW y \in Expense, NEW T, Ingest(y, T)
      PROVE  Counted' /\ \A x \in Expense, c \in Content : Counts(x, c)
    <2>1. job' = job
        BY <1>5 DEF Ingest
    <2> QED
        BY <1>1, <1>5, <2>1, IngestCounts DEF Counted
<1>6. CASE Deduplicate
    <2>1. job' = job
        BY <1>6 DEF Deduplicate
    <2> QED
        BY <1>1, <1>6, <2>1, DeduplicateCounts DEF Counted
<1>7. CASE UNCHANGED <<files, job>>
    <2>1. \A x \in Expense, c \in Content : Lookers(x, c)' = Lookers(x, c)
        BY <1>7 DEF Lookers
    <2> QED
        BY <1>1, <1>7, <2>1, SameCounts DEF Counted
<1> QED
    BY <1>2, <1>3, <1>4, <1>5, <1>6, <1>7
       DEF Next, Advance, Change, Upload, MailArrives, Expunge, vars

LEMMA NoneCounted ==
    ASSUME Init
    PROVE  Counted
<1>1. files = [f \in {} |-> 1] /\ BagToSet(files) = {}
    BY DEF Init, EmptyBag, SetToBag, BagToSet
<1>2. IsABag(files) /\ job = [w \in Worker |-> job[w]]
    BY <1>1 DEF Init, IsABag, BagToSet
<1>3. ASSUME NEW x \in Expense, NEW c \in Content
      PROVE  /\ IsFiniteSet(Of(files, x, c))
             /\ Copies(x, c) + Cardinality(Lookers(x, c)) <= Cardinality(Worker) + 1
    <2>1. Of(files, x, c) = {}
        BY <1>1 DEF Of
    <2>2. Copies(x, c) = 0
        BY <2>1, CopiesAre, SumEmpty
    <2>3. Lookers(x, c) = {}
        BY DEF Lookers, Init, IdleJob
    <2>4. IsFiniteSet({}) /\ Cardinality({}) = 0 /\ Cardinality(Worker) \in Nat
        BY FS_EmptySet, FiniteWorker, FS_CardinalityType
    <2> QED
        BY <2>1, <2>2, <2>3, <2>4
<1> QED
    BY <1>2, <1>3 DEF Counted

\* However jobs, retries, providers, the endpoint and the patch interleave, an
\* expense has one copy of a receipt for each worker, and one more.
THEOREM CopiesAreBounded == Spec => []CopiesBounded
<1>1. Init => Counted
    BY NoneCounted
<1>2. Counted /\ [Next]_vars => Counted'
    BY StepCounts
<1>3. Counted => CopiesBounded
    <2> SUFFICES ASSUME Counted, NEW x \in Expense, NEW c \in Content
                 PROVE  Copies(x, c) <= Cardinality(Worker) + 1
        BY DEF CopiesBounded
    <2>1. PICK n \in Nat : n = Copies(x, c)
        BY CopiesNat
    <2>2. IsFiniteSet(Lookers(x, c))
        BY FiniteWorker, FS_Subset DEF Lookers
    <2>3. PICK l \in Nat : l = Cardinality(Lookers(x, c))
        BY <2>2, FS_CardinalityType
    <2>4. PICK W \in Nat : W = Cardinality(Worker)
        BY FiniteWorker, FS_CardinalityType
    <2>5. n + l <= W + 1
        BY <2>1, <2>3, <2>4, Zenon DEF Counted
    <2>6. n <= W + 1
        BY <2>5
    <2> QED
        BY <2>1, <2>4, <2>6, Zenon
<1> QED
    BY <1>1, <1>2, <1>3, PTL DEF Spec

\* No step, the removal of duplicates included, takes the last copy of a receipt
\* from its expense.
THEOREM EvidenceIsKept == Spec => EvidenceStays
<1>1. Init => Counted
    BY NoneCounted
<1>2. Counted /\ [Next]_vars => Counted'
    BY StepCounts
<1>3. Counted /\ [Next]_vars =>
        [\A x \in Expense, c \in Content : Copies(x, c) > 0 => Copies(x, c)' > 0]_vars
    <2> SUFFICES ASSUME Counted, [Next]_vars, NEW x \in Expense, NEW c \in Content,
                        Copies(x, c) > 0
                 PROVE  Copies(x, c)' > 0
        OBVIOUS
    <2>1. PICK n \in Nat : n = Copies(x, c)
        BY CopiesNat
    <2>2. PICK m : m = Copies(x, c)'
        OBVIOUS
    <2>3. Counts(x, c)
        BY StepCounts
    <2>4. m > 0
        BY <2>1, <2>2, <2>3 DEF Counts
    <2> QED
        BY <2>2, <2>4
<1> QED
    BY <1>1, <1>2, <1>3, PTL DEF Spec, EvidenceStays

-----------------------------------------------------------------------------
(* Types *)

Distinct(box) == \A i, k \in DOMAIN box : box[i] = box[k] => i = k

\* The mail is distinct, so that its numbers are at most as many; a job knows
\* its expense, a version of it, and no more mail.
Typed ==
    /\ TypeOK
    /\ Distinct(mailbox)
    /\ \A w \in Worker :
            /\ job[w].pc = "looking" =>
                    job[w].to \in Expense /\ job[w].version \in 1..LastVersion[job[w].to]
            /\ Len(job[w].mail) <= Cardinality(Message)

LEMMA Constants ==
    /\ \A a \in Attachment : OwnerOf[a] \in Expense /\ ContentOf[a] \in Content
    /\ \A m \in Message : PartsOf[m] \subseteq Part \X Content
    /\ \A m \in Message, x \in Expense : \A v \in 1..LastVersion[x] : Likeness[m][x][v] \in Features
    /\ \A x \in Expense : LastVersion[x] \in Nat /\ LastVersion[x] > 0
    /\ Provider \subseteq Providers
    /\ IsFiniteSet(Message) /\ MaxImports \in Nat /\ MaxFaults \in Nat
    BY ReceiptsAssumption

LEMMA NoMoreThanMail ==
    ASSUME NEW box \in Seq(Message), Distinct(box)
    PROVE  Len(box) <= Cardinality(Message)
<1>1. PICK n \in Nat : n = Len(box) /\ DOMAIN box = 1..n
    BY LenProperties
<1>2. box \in Injection(1..n, Message)
    <2>1. box \in [1..n -> Message]
        BY <1>1
    <2> QED
        BY <2>1, <1>1 DEF Injection, IsInjective, Distinct
<1>3. IsFiniteSet(1..n) /\ Cardinality(1..n) = n
    <2>1. Cardinality(1..n) = IF 1 > n THEN 0 ELSE n - 1 + 1
        BY FS_Interval
    <2> QED
        BY <2>1, FS_Interval
<1>4. Cardinality(1..n) <= Cardinality(Message)
    BY <1>2, Constants, FS_Injection
<1> QED
    BY <1>1, <1>3, <1>4

LEMMA Scores ==
    ASSUME NEW f \in Features
    PROVE  MailScore(f) \in Int /\ MailScore(f) <= 1000 /\ ImapScore(f) \in Int /\ ImapScore(f) <= 1000
<1>1. /\ f.merchant \in {0, 300, 400, 450, 550} /\ f.age \in {0, 50, 100}
      /\ f.amount \in BOOLEAN /\ f.currency \in BOOLEAN
    BY DEF Features
<1>2. PICK n \in {0, 300, 400, 450, 550}, a \in {0, 50, 100} : n = f.merchant /\ a = f.age
    BY <1>1
<1>3. MailScore(f) \in Int /\ MailScore(f) <= 1000
    BY <1>2 DEF MailScore, Points, Rounding
<1>4. ImapScore(f) \in Int /\ ImapScore(f) <= 1000
    BY DEF ImapScore, Points
<1> QED
    BY <1>3, <1>4

LEMMA PartsTyped ==
    ASSUME NEW m \in Message, NEW ref \in Message \cup (1..Cardinality(Message)),
           NEW msg \in Message \cup {NoMessage}, NEW s \in Int, s <= 1000
    PROVE  Parts(m, ref, msg, s) \subseteq Candidate
<1> SUFFICES ASSUME NEW c \in Parts(m, ref, msg, s) PROVE c \in Candidate
    OBVIOUS
<1>1. s \in 0..1000
    BY DEF Parts
<1>2. PICK p \in PartsOf[m] : c = [id |-> <<ref, p[1]>>, content |-> p[2], msg |-> msg, score |-> s]
    BY <1>1 DEF Parts
<1>3. p[1] \in Part /\ p[2] \in Content
    BY Constants
<1>4. <<ref, p[1]>> \in MailId
    BY <1>3 DEF MailId
<1> QED
    BY <1>1, <1>2, <1>3, <1>4 DEF Candidate

LEMMA CandidatesTyped ==
    ASSUME provider \in Provider, provider # "Manual",
           NEW j, j.to \in Expense, j.version \in 1..LastVersion[j.to],
           j.native \subseteq Attachment, j.mail \in Seq(Message),
           Len(j.mail) <= Cardinality(Message)
    PROVE  Candidates(j) \subseteq Candidate
<1>1. PICK x \in Expense : x = j.to
    OBVIOUS
<1>10. PICK v \in 1..LastVersion[x] : v = j.version
    BY <1>1
<1>2. PICK box \in Seq(Message) : box = j.mail
    OBVIOUS
<1>3. PICK N \in Nat : N = Cardinality(Message)
    BY Constants, FS_CardinalityType
<1>4. DOMAIN box \subseteq 1..N
    BY <1>2, <1>3, LenProperties
<1>5. \A i \in DOMAIN box : box[i] \in Message
    OBVIOUS
<1>6. FromAirwallex(x, j.native) \subseteq Candidate
    <2> SUFFICES ASSUME NEW c \in FromAirwallex(x, j.native) PROVE c \in Candidate
        OBVIOUS
    <2>1. PICK a \in Attachment :
            c = [id |-> a, content |-> ContentOf[a], msg |-> NoMessage, score |-> 1000]
        BY DEF FromAirwallex
    <2> QED
        BY <2>1, Constants DEF Candidate
<1>7. FromEmail(x, v, box) \subseteq Candidate
    <2> SUFFICES ASSUME NEW m \in Listed(x, v, Range(box))
                 PROVE  Parts(m, m, m, MailScore(Likeness[m][x][v])) \subseteq Candidate
        BY DEF FromEmail
    <2>1. m \in Message
        BY <1>5 DEF Listed, Newest, Range
    <2>2. MailScore(Likeness[m][x][v]) \in Int /\ MailScore(Likeness[m][x][v]) <= 1000
        BY <2>1, Constants, Scores
    <2> QED
        BY <2>1, <2>2, PartsTyped
<1>8. FromImap(x, v, box) \subseteq Candidate
    <2> SUFFICES ASSUME NEW i \in DOMAIN box
                 PROVE  Parts(box[i], i, IF box[i] \in Unnamed THEN NoMessage ELSE box[i],
                              ImapScore(Likeness[box[i]][x][v])) \subseteq Candidate
        BY DEF FromImap, Newest
    <2>1. PICK m \in Message : m = box[i]
        BY <1>5
    <2>2. PICK f \in Features : f = Likeness[m][x][v]
        BY Constants
    <2>6. PICK s \in Int : s = ImapScore(f) /\ s <= 1000
        BY Scores
    <2>3. PICK msg \in Message \cup {NoMessage} : msg = IF m \in Unnamed THEN NoMessage ELSE m
        OBVIOUS
    <2>4. i \in Message \cup (1..Cardinality(Message))
        BY <1>3, <1>4
    <2>5. Parts(m, i, msg, s) \subseteq Candidate
        BY <2>4, <2>6, PartsTyped
    <2>7. s = ImapScore(Likeness[box[i]][x][v])
        BY <2>1, <2>2, <2>6, Zenon
    <2>8. msg = IF box[i] \in Unnamed THEN NoMessage ELSE box[i]
        BY <2>1, <2>3
    <2>9. m = box[i]
        BY <2>1
    <2> QED
        BY <2>5, <2>7, <2>8, <2>9
<1>9. provider \in Providers
    BY Constants
<1> QED
    BY <1>1, <1>2, <1>6, <1>7, <1>8, <1>9, <1>10 DEF Candidates, Providers

\* Scores are numbers up to 1000.
LEMMA ScoreOf ==
    ASSUME NEW c \in Candidate
    PROVE  c.score \in Nat /\ c.score <= 1000
<1>1. c.score \in 0..1000
    BY DEF Candidate
<1>2. PICK n \in 0..1000 : n = c.score
    BY <1>1
<1>3. n \in Nat /\ n <= 1000
    BY ONLY n \in 0..1000
<1> QED
    BY ONLY <1>2, <1>3

\* Among candidates one has the best score.
LEMMA BestExists ==
    ASSUME NEW S \in SUBSET Candidate, S # {}
    PROVE  Best(S) # {}
<1> DEFINE B == {n \in Nat : \A c \in S : c.score <= n}
           R == OpToRel(<, Nat)
<1>1. \A c \in S : c.score \in Nat /\ c.score <= 1000
    BY ScoreOf
<1>2. 1000 \in B
    BY <1>1
<1>3. PICK n \in B : \A k \in B : ~(<<k, n>> \in R)
    <2>1. IsWellFoundedOn(R, Nat)
        BY NatLessThanWellFounded
    <2>2. B \subseteq Nat /\ B # {}
        BY <1>2
    <2> HIDE DEF B, R
    <2> QED
        BY <2>1, <2>2, WFMin
<1>4. \A k \in B : ~(k < n)
    BY <1>3 DEF OpToRel
<1>5. PICK c \in S : c.score = n
    <2> SUFFICES ASSUME \A c \in S : c.score # n PROVE FALSE
        OBVIOUS
    <2>1. \A c \in S : c.score <= n - 1
        BY <1>1
    <2>2. PICK c \in S : TRUE
        OBVIOUS
    <2>3. n - 1 \in Nat
        BY <1>1, <2>1, <2>2
    <2> QED
        BY <1>4, <2>1, <2>3
<1> QED
    BY <1>5 DEF Best

LEMMA SelectedExists ==
    ASSUME NEW S \in SUBSET Candidate, S # {}
    PROVE  Selected(S) # {} /\ Selected(S) \subseteq S
<1>1. PICK b \in Best(S) : b \in S
    BY BestExists DEF Best
<1> QED
    BY <1>1 DEF Selected

LEMMA NoneTyped ==
    ASSUME Init
    PROVE  Typed
<1>1. IsABag(files) /\ BagToSet(files) = {}
    BY DEF Init, EmptyBag, SetToBag, BagToSet, IsABag
<1>2. IdleJob \in Job /\ IdleJob.pc = "idle" /\ IdleJob.mail = <<>>
    BY EmptySeq DEF IdleJob, Job
<1>3. mailbox = <<>> /\ mailbox \in Seq(Message) /\ Distinct(mailbox)
    BY EmptySeq DEF Init, Distinct
<1>4. Len(<<>>) = 0 /\ 0 <= Cardinality(Message)
    BY EmptySeq, Constants, FS_CardinalityType
<1>5. TypeOK
    BY <1>1, <1>2, <1>3, Constants DEF Init, TypeOK
<1> QED
    BY <1>2, <1>3, <1>4, <1>5 DEF Init, Typed

LEMMA RecordedTyped ==
    ASSUME TypeOK, NEW j \in Job, j.to \in Expense, NEW key \in Message \cup {NoMessage},
           NEW status \in {"Attached", "Held"}, NEW m \in Recorded(j, key, status)
    PROVE  m \subseteq Match
<1>1. PICK row : row = [to |-> j.to, key |-> key, windmill |-> FALSE, status |-> status]
    OBVIOUS
<1>2. row \in Match
    BY <1>1 DEF Match
<1>3. \A r \in j.matches : r \in Match /\ [r EXCEPT !.status = status] \in Match
    BY DEF Job, Match
<1>4. m = match \cup {row} \/
        \E r \in j.matches : m = (match \ {r}) \cup {[r EXCEPT !.status = status]}
    BY <1>1 DEF Recorded
<1> QED
    BY <1>2, <1>3, <1>4 DEF TypeOK

LEMMA IdleTyped ==
    ASSUME Typed, NEW w \in Worker, job' = [job EXCEPT ![w] = IdleJob]
    PROVE  /\ job' \in [Worker -> Job]
           /\ \A v \in Worker :
                /\ job'[v].pc = "looking" =>
                        job'[v].to \in Expense /\ job'[v].version \in 1..LastVersion[job'[v].to]
                /\ Len(job'[v].mail) <= Cardinality(Message)
<1>1. IdleJob \in Job /\ IdleJob.pc = "idle" /\ IdleJob.mail = <<>>
    BY EmptySeq DEF IdleJob, Job
<1>2. Len(<<>>) = 0 /\ 0 <= Cardinality(Message)
    BY EmptySeq, Constants, FS_CardinalityType
<1>3. job \in [Worker -> Job]
    BY DEF Typed, TypeOK
<1>4. \A v \in Worker : job'[v] = IF v = w THEN IdleJob ELSE job[v]
    BY <1>3
<1>5. job' \in [Worker -> Job]
    BY <1>1, <1>3
<1> QED
    BY <1>1, <1>2, <1>4, <1>5 DEF Typed

\* Files of candidates are files.
LEMMA AddedTyped ==
    ASSUME TypeOK, NEW A \in SUBSET File, files' = files (+) SetToBag(A)
    PROVE  IsABag(files') /\ BagToSet(files)' \subseteq File
<1>1. IsABag(files')
    BY AddedBag DEF TypeOK
<1>2. BagToSet(files)' = BagToSet(files) \cup A
    BY DEF BagToSet, SetToBag, (+)
<1> QED
    BY <1>1, <1>2 DEF TypeOK

LEMMA FinishTyped ==
    ASSUME Typed, NEW w \in Worker, job[w].pc = "looking", NEW added \in SUBSET Candidate,
           NEW key \in Message \cup {NoMessage}, NEW outcome \in Outcome,
           Finish(w, added, key, outcome), faults' \in Nat
    PROVE  Typed'
<1>1. PICK j \in Job : j = job[w]
    BY DEF Typed, TypeOK
<1>2. PICK x \in Expense : x = j.to
    BY <1>1 DEF Typed
<1>3. PICK A : A = {[to |-> x, id |-> c.id, content |-> c.content] : c \in added}
    OBVIOUS
<1>4. A \in SUBSET File
    BY <1>3 DEF File, Candidate
<1>5. files' = files (+) SetToBag(A)
    BY <1>1, <1>2, <1>3 DEF Finish, AsFiles
<1>6. IsABag(files') /\ BagToSet(files)' \subseteq File
    BY <1>4, <1>5, AddedTyped DEF Typed
<1>7. PICK status \in {"Attached", "Held"} :
            status = IF outcome = "attached" THEN "Attached" ELSE "Held"
    OBVIOUS
<1>8. PICK m : m = match' /\ m \in Recorded(j, key, status)
    BY <1>1, <1>7 DEF Finish
<1>9. m \subseteq Match
    BY <1>2, <1>8, RecordedTyped DEF Typed
<1>10. state' \in [Expense -> {"none", "pending"} \cup Outcome]
    BY <1>1, <1>2 DEF Finish, Typed, TypeOK
<1>11. job' = [job EXCEPT ![w] = IdleJob] /\ UNCHANGED <<provider, version, native, mailbox, imports>>
    BY DEF Finish
<1>12. /\ job' \in [Worker -> Job]
       /\ \A v \in Worker :
            /\ job'[v].pc = "looking" =>
                    job'[v].to \in Expense /\ job'[v].version \in 1..LastVersion[job'[v].to]
            /\ Len(job'[v].mail) <= Cardinality(Message)
    BY <1>11, IdleTyped
<1>13. TypeOK'
    BY <1>6, <1>8, <1>9, <1>10, <1>11, <1>12 DEF Typed, TypeOK
<1> QED
    BY <1>11, <1>12, <1>13 DEF Typed, Distinct

LEMMA BeginTyped ==
    ASSUME Typed, NEW w \in Worker, NEW x \in Expense, NEW v \in 1..version[x], Begin(w, x, v)
    PROVE  Typed'
<1>1. PICK j : j = [pc |-> "looking", to |-> x, version |-> v, fresh |-> state[x] = "none",
                    files |-> {f \in BagToSet(files) : Relevant(f, x)},
                    matches |-> MatchesOf(x),
                    native |-> {a \in native : OwnerOf[a] = x},
                    mail |-> mailbox]
    OBVIOUS
<1>9. v \in 1..LastVersion[x]
    <2>1. PICK k \in Nat : k = version[x]
        BY DEF Typed, TypeOK
    <2>2. PICK l \in Nat : l = LastVersion[x]
        BY Constants
    <2>3. k <= l
        BY <2>1, <2>2 DEF Typed, TypeOK
    <2>4. v \in 1..k
        BY <2>1
    <2> QED
        BY <2>2, <2>3, <2>4
<1>2. j.to = x /\ j.version = v /\ j.mail = mailbox
    BY <1>1
<1>3. j \in Job
    <2>1. (state[x] = "none") \in BOOLEAN
        OBVIOUS
    <2>2. {f \in BagToSet(files) : Relevant(f, x)} \subseteq File
        BY DEF Typed, TypeOK
    <2>3. MatchesOf(x) \subseteq Match
        BY DEF Typed, TypeOK, MatchesOf
    <2>4. {a \in native : OwnerOf[a] = x} \subseteq Attachment /\ mailbox \in Seq(Message)
        BY DEF Typed, TypeOK
    <2> QED
        BY <1>1, <1>9, <2>1, <2>2, <2>3, <2>4 DEF Job
<1>4. /\ job' = [job EXCEPT ![w] = j] /\ imports > 0 /\ imports' = imports - 1
      /\ UNCHANGED <<provider, version, native, mailbox, files, state, match, faults>>
    BY <1>1 DEF Begin
<1>5. job' \in [Worker -> Job] /\ \A u \in Worker : job'[u] = IF u = w THEN j ELSE job[u]
    BY <1>3, <1>4 DEF Typed, TypeOK
<1>6. Len(mailbox) <= Cardinality(Message)
    BY NoMoreThanMail DEF Typed, TypeOK
<1>7. TypeOK'
    BY <1>4, <1>5 DEF Typed, TypeOK, BagToSet
<1> QED
    BY <1>2, <1>4, <1>5, <1>6, <1>7, <1>9 DEF Typed, Distinct

LEMMA AttachTyped ==
    ASSUME Typed, NEW w \in Worker, Attach(w)
    PROVE  Typed'
<1> DEFINE S == Candidates(job[w])
           chosen == Selected(S)
           new == Unattached(job[w], chosen)
<1>1. job[w].pc = "looking" /\ provider # "Manual" /\ S # {}
    BY Zenon DEF Attach, Reading
<1>2. PICK failed \in SUBSET new : \E added \in OneEach(new \ failed) :
            Finish(w, added, (CHOOSE c \in chosen : TRUE).msg,
                   IF failed = chosen THEN "error" ELSE "attached")
    BY Zenon DEF Attach
<1>3. PICK added \in OneEach(new \ failed) :
            Finish(w, added, (CHOOSE c \in chosen : TRUE).msg,
                   IF failed = chosen THEN "error" ELSE "attached")
    BY <1>2
<1>4. PICK j \in Job : j = job[w]
    BY DEF Typed, TypeOK
<1>5. S \subseteq Candidate
    <2>1. /\ j.to \in Expense /\ j.version \in 1..LastVersion[j.to]
          /\ j.native \subseteq Attachment /\ j.mail \in Seq(Message)
          /\ Len(j.mail) <= Cardinality(Message)
        BY <1>1, <1>4 DEF Typed, Job
    <2>2. Candidates(j) \subseteq Candidate
        BY <1>1, <2>1, CandidatesTyped DEF Typed, TypeOK
    <2> QED
        BY <1>4, <2>2
<1>6. chosen # {} /\ chosen \subseteq Candidate
    <2>1. PICK T \in SUBSET Candidate : T = S /\ T # {}
        BY <1>1, <1>5
    <2>2. Selected(T) # {} /\ Selected(T) \subseteq T
        BY <2>1, SelectedExists
    <2> QED
        BY <2>1, <2>2
<1>7. PICK first : first = (CHOOSE c \in chosen : TRUE)
    OBVIOUS
<1>8. first \in Candidate
    BY <1>6, <1>7, Zenon
<1>9. first.msg \in Message \cup {NoMessage}
    BY <1>8 DEF Candidate
<1>10. PICK key \in Message \cup {NoMessage} : key = (CHOOSE c \in chosen : TRUE).msg
    BY <1>7, <1>9, Zenon
<1>11. PICK outcome \in Outcome : outcome = IF failed = chosen THEN "error" ELSE "attached"
    BY DEF Outcome
<1>12. Finish(w, added, key, outcome)
    BY <1>3, <1>10, <1>11
<1>13. added \in SUBSET Candidate
    BY <1>6 DEF OneEach, Unattached
<1>14. faults' \in Nat
    <2>1. faults' = faults \/ Fault
        BY Zenon DEF Attach
    <2> QED
        BY <2>1 DEF Fault, Typed, TypeOK
<1> HIDE DEF S, chosen, new
<1> QED
    BY <1>1, <1>12, <1>13, <1>14, FinishTyped

LEMMA IngestTyped ==
    ASSUME Typed, NEW y \in Expense, NEW T \in SUBSET Content, Ingest(y, T)
    PROVE  Typed'
<1>1. PICK new : new = {c \in T : Copies(y, c) = 0}
    OBVIOUS
<1>2. \E id \in {NoId} \cup {a \in Attachment : OwnerOf[a] = y /\ T = {ContentOf[a]}} :
            files' = files (+) SetToBag({[to |-> y, id |-> id, content |-> c] : c \in new})
    BY <1>1, Zenon DEF Ingest
<1>3. PICK id \in Attachment \cup {NoId} :
            files' = files (+) SetToBag({[to |-> y, id |-> id, content |-> c] : c \in new})
    BY <1>2, Zenon
<1>4. PICK A : A = {[to |-> y, id |-> id, content |-> c] : c \in new}
    OBVIOUS
<1>5. A \in SUBSET File
    BY <1>1, <1>4 DEF File
<1>6. IsABag(files') /\ BagToSet(files)' \subseteq File
    <2>1. files' = files (+) SetToBag(A)
        BY <1>3, <1>4
    <2> QED
        BY <2>1, <1>5, AddedTyped DEF Typed
<1>7. match' = match \cup {[to |-> y, key |-> NoMessage, windmill |-> TRUE,
                            status |-> IF T = {} THEN "Held" ELSE "Attached"]}
    BY Zenon DEF Ingest
<1>8. match' \subseteq Match
    <2>1. PICK r : r = [to |-> y, key |-> NoMessage, windmill |-> TRUE,
                        status |-> IF T = {} THEN "Held" ELSE "Attached"]
        OBVIOUS
    <2>2. r \in Match
        BY <2>1 DEF Match
    <2> QED
        BY <2>1, <2>2, <1>7 DEF Typed, TypeOK
<1>9. state' = [state EXCEPT ![y] = IF T = {} THEN "missing" ELSE "attached"]
      /\ UNCHANGED <<provider, version, native, mailbox, job, imports>>
    BY Zenon DEF Ingest
<1>10. state' \in [Expense -> {"none", "pending"} \cup Outcome]
    BY <1>9 DEF Typed, TypeOK, Outcome
<1>11. faults' \in Nat
    BY DEF Ingest, Fault, Typed, TypeOK
<1>12. TypeOK'
    BY <1>6, <1>8, <1>9, <1>10, <1>11 DEF Typed, TypeOK
<1> QED
    BY <1>9, <1>12 DEF Typed, Distinct

LEMMA BoxTyped ==
    ASSUME Typed, mailbox' \in Seq(Message), Distinct(mailbox'), faults' \in Nat,
           UNCHANGED <<provider, version, native, files, state, match, job, imports>>
    PROVE  Typed'
<1>1. TypeOK'
    BY DEF Typed, TypeOK, BagToSet
<1> QED
    BY <1>1 DEF Typed, Distinct

LEMMA TypedStep ==
    ASSUME Typed, [Next]_vars
    PROVE  Typed'
<1>1. ASSUME NEW w \in Worker, FindNothing(w) \/ HoldCompeting(w) \/ ProviderError(w)
      PROVE  Typed'
    <2>1. job[w].pc = "looking"
        BY <1>1 DEF FindNothing, HoldCompeting, ProviderError, Reading
    <2>2. PICK outcome \in Outcome : Finish(w, {}, NoMessage, outcome)
        BY <1>1, Zenon DEF FindNothing, HoldCompeting, ProviderError, Outcome
    <2>3. faults' \in Nat
        BY <1>1 DEF FindNothing, HoldCompeting, ProviderError, Fault, Typed, TypeOK
    <2> QED
        BY <2>1, <2>2, <2>3, FinishTyped
<1>2. ASSUME NEW w \in Worker, Leave(w)
      PROVE  Typed'
    <2>1. job' = [job EXCEPT ![w] = IdleJob]
          /\ UNCHANGED <<provider, version, native, mailbox, files, match, imports, faults>>
        BY <1>2 DEF Leave
    <2>2. state' \in [Expense -> {"none", "pending"} \cup Outcome]
        BY <1>2 DEF Leave, Typed, TypeOK
    <2>3. TypeOK'
        BY <2>1, <2>2, IdleTyped DEF Typed, TypeOK, BagToSet
    <2> QED
        BY <2>1, <2>3, IdleTyped DEF Typed, Distinct
<1>3. ASSUME NEW w \in Worker, Rollback(w)
      PROVE  Typed'
    <2>1. job' = [job EXCEPT ![w] = IdleJob]
          /\ UNCHANGED <<provider, version, native, mailbox, files, state, match, imports>>
        BY <1>3 DEF Rollback
    <2>2. faults' \in Nat
        BY <1>3 DEF Rollback, Fault, Typed, TypeOK
    <2>3. TypeOK'
        BY <2>1, <2>2, IdleTyped DEF Typed, TypeOK, BagToSet
    <2> QED
        BY <2>1, <2>3, IdleTyped DEF Typed, Distinct
<1>4. CASE Deduplicate
    <2>1. PICK kept \in SUBSET BagToSet(files) :
            /\ files' = [f \in kept |-> files'[f]]
            /\ \A f \in kept : files'[f] \in Nat /\ files'[f] > 0
        BY <1>4, DeduplicateLeaves DEF Typed, TypeOK
    <2>2. PICK d : d = files'
        OBVIOUS
    <2>3. d = [f \in kept |-> d[f]] /\ \A f \in kept : d[f] \in Nat /\ d[f] > 0
        BY <2>1, <2>2
    <2>4. IsABag(d) /\ BagToSet(d) = kept
        BY <2>3 DEF IsABag, BagToSet
    <2>5. IsABag(files') /\ BagToSet(files)' = kept
        BY <2>2, <2>4
    <2>6. UNCHANGED <<provider, version, native, mailbox, state, match, job, imports, faults>>
        BY <1>4, Zenon DEF Deduplicate
    <2>7. TypeOK'
        BY <2>5, <2>6 DEF Typed, TypeOK
    <2> QED
        BY <2>6, <2>7 DEF Typed, Distinct
<1>5. ASSUME NEW a \in Attachment, Upload(a)
      PROVE  Typed'
    <2>1. TypeOK'
        BY <1>5 DEF Upload, Typed, TypeOK, BagToSet
    <2> QED
        BY <1>5, <2>1 DEF Upload, Typed, Distinct
<1>6. ASSUME NEW m \in Message, MailArrives(m)
      PROVE  Typed'
    <2>1. PICK box \in Seq(Message) : box = mailbox
        BY DEF Typed, TypeOK
    <2>2. PICK n \in Nat : n = Len(box) /\ DOMAIN box = 1..n
        BY LenProperties
    <2>3. PICK new \in Seq(Message) : new = mailbox' /\ new = Append(box, m)
        BY <1>6, <2>1, AppendProperties DEF MailArrives
    <2>4. DOMAIN new = 1..(n + 1) /\ \A i \in 1..(n + 1) : new[i] = IF i <= n THEN box[i] ELSE m
        BY <2>2, <2>3
    <2>5. \A i \in 1..n : box[i] # m
        BY <1>6, <2>1, <2>2 DEF MailArrives
    <2>6. \A i, k \in 1..n : box[i] = box[k] => i = k
        BY <2>1, <2>2 DEF Typed, Distinct
    <2>7. Distinct(new)
        BY <2>4, <2>5, <2>6 DEF Distinct
    <2> QED
        BY <1>6, <2>3, <2>7, BoxTyped DEF MailArrives, Typed, TypeOK
<1>7. ASSUME NEW i \in DOMAIN mailbox, Expunge(i)
      PROVE  Typed'
    <2>1. PICK box \in Seq(Message) : box = mailbox
        BY DEF Typed, TypeOK
    <2>2. PICK n \in Nat : n = Len(box) /\ DOMAIN box = 1..n
        BY LenProperties
    <2>3. i \in 1..n
        BY <2>1, <2>2
    <2>4. PICK new : new = [k \in 1..(n - 1) |-> IF k < i THEN box[k] ELSE box[k + 1]]
        OBVIOUS
    <2>5. mailbox' = new
        BY <1>7, <2>1, <2>2, <2>4 DEF Expunge
    <2>6. \A k \in 1..(n - 1) : new[k] \in Message
        BY <2>2, <2>3, <2>4
    <2>7. new \in Seq(Message)
        <3>1. n - 1 \in Nat
            BY <2>3
        <3> QED
            BY <2>4, <2>6, <3>1
    <2>8. \A k, l \in 1..n : box[k] = box[l] => k = l
        BY <2>1, <2>2 DEF Typed, Distinct
    <2>9. Distinct(new)
        BY <2>3, <2>4, <2>8 DEF Distinct
    <2>10. faults' \in Nat
        BY <1>7 DEF Expunge, Fault, Typed, TypeOK
    <2> QED
        BY <1>7, <2>5, <2>7, <2>9, <2>10, BoxTyped DEF Expunge
<1>8. ASSUME NEW y \in Expense, NEW T \in {{}} \cup {{c} : c \in Content}, Ingest(y, T)
      PROVE  Typed'
    BY <1>8, IngestTyped
<1>10. ASSUME NEW x \in Expense, Change(x)
       PROVE  Typed'
    <2>1. /\ version[x] < LastVersion[x] /\ version' = [version EXCEPT ![x] = @ + 1]
          /\ UNCHANGED <<provider, native, mailbox, files, state, match, job, imports, faults>>
        BY <1>10 DEF Change
    <2>2. version' \in [Expense -> Nat]
        BY <2>1 DEF Typed, TypeOK
    <2>3. ASSUME NEW y \in Expense
          PROVE  version'[y] \in 1..LastVersion[y]
        <3>1. PICK k \in Nat, l \in Nat : k = version[y] /\ l = LastVersion[y] /\ k \in 1..l
            BY Constants DEF Typed, TypeOK
        <3>2. version'[y] = IF y = x THEN k + 1 ELSE k
            BY <2>1, <3>1 DEF Typed, TypeOK
        <3>3. y = x => k < l
            BY <2>1, <3>1
        <3> QED
            BY <3>1, <3>2, <3>3
    <2>4. TypeOK'
        BY <2>1, <2>2, <2>3 DEF Typed, TypeOK, BagToSet
    <2> QED
        BY <2>1, <2>4 DEF Typed, Distinct
<1>9. CASE UNCHANGED vars
    <2>1. TypeOK'
        BY <1>9 DEF vars, Typed, TypeOK, BagToSet
    <2> QED
        BY <1>9, <2>1 DEF vars, Typed, Distinct
<1> QED
    BY <1>1, <1>2, <1>3, <1>4, <1>5, <1>6, <1>7, <1>8, <1>9, <1>10, BeginTyped, AttachTyped
       DEF Next, Advance

\* Files, matches, jobs and states are what Receipts says they are: an outcome
\* always has a match to be recorded with, and a number a mail.
THEOREM ReceiptTypes == Spec => []TypeOK
<1>1. Init => Typed
    BY NoneTyped
<1>2. Typed /\ [Next]_vars => Typed'
    BY TypedStep
<1>3. Typed => TypeOK
    BY DEF Typed
<1> QED
    BY <1>1, <1>2, <1>3, PTL DEF Spec

-----------------------------------------------------------------------------
(* Held matches *)

\* A row is a record, whatever its fields.
Row(r) == r = [to |-> r.to, key |-> r.key, windmill |-> r.windmill, status |-> r.status]

\* A job knows its expense and rows of it only.
Knows ==
    /\ \A w \in Worker :
        job[w].pc = "looking" =>
            /\ job[w].to \in Expense
            /\ \A r \in job[w].matches : Row(r) /\ r.to = job[w].to
    /\ \A r \in match : Row(r)
    /\ DOMAIN job = Worker /\ job = [w \in Worker |-> job[w]]
    /\ state = [x \in Expense |-> state[x]]

\* _record_match leaves the rows of other expenses and a row as asked for.
LEMMA RecordedRows ==
    ASSUME Knows, NEW w \in Worker, job[w].pc = "looking", NEW key, NEW status,
           NEW m, m \in Recorded(job[w], key, status)
    PROVE  /\ \A r \in m : Row(r)
           /\ \E r \in m : r.to = job[w].to /\ r.status = status
           /\ \A r \in match : r.to # job[w].to => r \in m
<1>1. PICK row : row = [to |-> job[w].to, key |-> key, windmill |-> FALSE, status |-> status]
    OBVIOUS
<1>2. PICK known : known = {r \in job[w].matches : r.key = key}
    OBVIOUS
<1>3. Row(row) /\ row.to = job[w].to /\ row.status = status
    BY <1>1 DEF Row
<1>4. CASE known = {}
    <2>1. m = match \cup {row}
        BY <1>1, <1>2, <1>4 DEF Recorded
    <2> QED
        BY <2>1, <1>3 DEF Knows
<1>5. CASE known # {}
    <2>1. PICK r \in known : m = (match \ {r}) \cup {[r EXCEPT !.status = status]}
        BY <1>1, <1>2, <1>5 DEF Recorded
    <2>2. Row(r) /\ r.to = job[w].to
        BY <1>2 DEF Knows
    <2>3. PICK s : s = [r EXCEPT !.status = status]
        OBVIOUS
    <2>4. s = [to |-> r.to, key |-> r.key, windmill |-> r.windmill, status |-> status]
        BY <2>2, <2>3 DEF Row
    <2>5. Row(s) /\ s.to = job[w].to /\ s.status = status
        BY <2>2, <2>4 DEF Row
    <2>6. m = (match \ {r}) \cup {s}
        BY <2>1, <2>3
    <2> QED
        BY <2>2, <2>5, <2>6 DEF Knows
<1> QED
    BY <1>4, <1>5

LEMMA IdleKnows ==
    ASSUME NEW w \in Worker, Knows, job' = [job EXCEPT ![w] = IdleJob]
    PROVE  /\ \A v \in Worker :
                job'[v].pc = "looking" => job[v].pc = "looking" /\ job'[v] = job[v]
           /\ DOMAIN job' = Worker /\ job' = [v \in Worker |-> job'[v]]
<1>1. IdleJob.pc = "idle"
    BY DEF IdleJob
<1> QED
    BY <1>1 DEF Knows

LEMMA FinishKnows ==
    ASSUME Knows, HeldIsRecorded, NEW w \in Worker, job[w].pc = "looking", NEW added, NEW key,
           NEW outcome, Finish(w, added, key, outcome)
    PROVE  Knows' /\ HeldIsRecorded'
<1>1. PICK x \in Expense : x = job[w].to
    BY DEF Knows
<1>2. PICK status : status = IF outcome = "attached" THEN "Attached" ELSE "Held"
    OBVIOUS
<1>3. match' \in Recorded(job[w], key, status)
    BY <1>2 DEF Finish
<1>4. /\ \A r \in match' : Row(r)
      /\ \E r \in match' : r.to = x /\ r.status = status
      /\ \A r \in match : r.to # x => r \in match'
    <2>1. PICK m : m = match'
        OBVIOUS
    <2>2. m \in Recorded(job[w], key, status)
        BY <2>1, <1>3
    <2>3. /\ \A r \in m : Row(r)
          /\ \E r \in m : r.to = job[w].to /\ r.status = status
          /\ \A r \in match : r.to # job[w].to => r \in m
        BY <2>2, RecordedRows
    <2> QED
        BY <1>1, <2>1, <2>3
<1>5. state' = [state EXCEPT ![x] = outcome] /\ job' = [job EXCEPT ![w] = IdleJob]
    BY <1>1 DEF Finish
<1>6. /\ state'[x] = outcome /\ \A y \in Expense \ {x} : state'[y] = state[y]
      /\ state' = [y \in Expense |-> state'[y]]
    BY <1>5 DEF Knows
<1>7. Knows'
    BY <1>4, <1>5, <1>6, IdleKnows DEF Knows, Row
<1>8. HeldIsRecorded'
    <2> SUFFICES ASSUME NEW y \in Expense, state'[y] \in {"missing", "ambiguous", "error"}
                 PROVE  \E r \in match' : r.to = y /\ r.status = "Held"
        BY DEF HeldIsRecorded
    <2>1. CASE y = x
        <3>1. status = "Held"
            BY <2>1, <1>2, <1>6
        <3> QED
            BY <2>1, <3>1, <1>4
    <2>2. CASE y # x
        <3>1. PICK r \in match : r.to = y /\ r.status = "Held"
            BY <2>2, <1>6 DEF HeldIsRecorded
        <3> QED
            BY <2>2, <3>1, <1>4
    <2> QED
        BY <2>1, <2>2
<1> QED
    BY <1>7, <1>8

LEMMA KnowsStep ==
    ASSUME Knows, HeldIsRecorded, [Next]_vars
    PROVE  Knows' /\ HeldIsRecorded'
<1>1. ASSUME NEW w \in Worker, NEW x \in Expense, NEW v, Begin(w, x, v)
      PROVE  Knows' /\ HeldIsRecorded'
    <2>1. PICK j : j = [pc |-> "looking", to |-> x, version |-> v, fresh |-> state[x] = "none",
                        files |-> {f \in BagToSet(files) : Relevant(f, x)},
                        matches |-> MatchesOf(x),
                        native |-> {a \in native : OwnerOf[a] = x},
                        mail |-> mailbox]
        OBVIOUS
    <2>2. j.pc = "looking" /\ j.to = x /\ j.matches = MatchesOf(x)
        BY <2>1
    <2>3. job' = [job EXCEPT ![w] = j]
        BY <1>1, <2>1 DEF Begin
    <2>4. \A r \in MatchesOf(x) : Row(r) /\ r.to = x
        BY DEF MatchesOf, Knows
    <2>5. UNCHANGED <<state, match>>
        BY <1>1 DEF Begin
    <2>6. \A u \in Worker : job'[u] = IF u = w THEN j ELSE job[u]
        BY <2>3 DEF Knows
    <2>7. DOMAIN job' = Worker /\ job' = [u \in Worker |-> job'[u]]
        BY <2>3 DEF Knows
    <2>8. Knows'
        BY <2>2, <2>4, <2>5, <2>6, <2>7 DEF Knows, Row
    <2> QED
        BY <2>5, <2>8 DEF HeldIsRecorded
<1>2. ASSUME NEW w \in Worker, Advance(w) \/ ProviderError(w)
      PROVE  Knows' /\ HeldIsRecorded'
    <2>1. CASE Leave(w)
        <3>1. /\ job' = [job EXCEPT ![w] = IdleJob] /\ match' = match
              /\ state' = [state EXCEPT ![job[w].to] =
                            IF state[job[w].to] = "none" THEN "pending" ELSE state[job[w].to]]
            BY <2>1 DEF Leave
        <3>2. \A y \in Expense : state'[y] \in {state[y], "pending"}
            BY <3>1 DEF Knows
        <3> QED
            <4>1. Knows'
                BY <3>1, IdleKnows DEF Knows, Row
            <4>2. HeldIsRecorded'
                BY <3>1, <3>2 DEF HeldIsRecorded
            <4> QED
                BY <4>1, <4>2
    <2>2. CASE FindNothing(w) \/ HoldCompeting(w) \/ Attach(w) \/ ProviderError(w)
        <3>1. job[w].pc = "looking"
            BY <2>2 DEF FindNothing, HoldCompeting, Attach, ProviderError, Reading
        <3>2. PICK added, key, outcome : Finish(w, added, key, outcome)
            <4>1. CASE FindNothing(w) \/ HoldCompeting(w) \/ ProviderError(w)
                BY <4>1, Zenon DEF FindNothing, HoldCompeting, ProviderError
            <4>2. CASE Attach(w)
                <5> DEFINE chosen == Selected(Candidates(job[w]))
                           new == Unattached(job[w], chosen)
                <5>1. PICK failed \in SUBSET new :
                        \E added \in OneEach(new \ failed) :
                            Finish(w, added, (CHOOSE c \in chosen : TRUE).msg,
                                   IF failed = chosen THEN "error" ELSE "attached")
                    BY <4>2, Zenon DEF Attach
                <5>2. PICK key : key = (CHOOSE c \in chosen : TRUE).msg
                    OBVIOUS
                <5>3. PICK outcome : outcome = IF failed = chosen THEN "error" ELSE "attached"
                    OBVIOUS
                <5>4. PICK added : Finish(w, added, (CHOOSE c \in chosen : TRUE).msg,
                                          IF failed = chosen THEN "error" ELSE "attached")
                    BY <5>1
                <5>5. Finish(w, added, key, outcome)
                    BY <5>2, <5>3, <5>4
                <5> QED
                    BY <5>5
            <4> QED
                BY <2>2, <4>1, <4>2
        <3> QED
            BY <3>1, <3>2, FinishKnows
    <2> QED
        BY <1>2, <2>1, <2>2 DEF Advance
<1>3. ASSUME NEW w \in Worker, Rollback(w)
      PROVE  Knows' /\ HeldIsRecorded'
    <2>1. job' = [job EXCEPT ![w] = IdleJob] /\ match' = match /\ state' = state
        BY <1>3 DEF Rollback
    <2> QED
        BY <2>1, IdleKnows DEF Knows, Row, HeldIsRecorded
<1>4. ASSUME NEW x \in Expense, NEW S, Ingest(x, S)
      PROVE  Knows' /\ HeldIsRecorded'
    <2>1. PICK r : r = [to |-> x, key |-> NoMessage, windmill |-> TRUE,
                        status |-> IF S = {} THEN "Held" ELSE "Attached"]
        OBVIOUS
    <2>2. match' = match \cup {r} /\ job' = job
        BY <1>4, <2>1 DEF Ingest
    <2>3. Row(r) /\ r.to = x /\ (S = {} => r.status = "Held")
        BY <2>1 DEF Row
    <2>4. state' = [state EXCEPT ![x] = IF S = {} THEN "missing" ELSE "attached"]
        BY <1>4 DEF Ingest
    <2>5. Knows'
        BY <2>2, <2>3, <2>4 DEF Knows
    <2>6. HeldIsRecorded'
        BY <2>2, <2>3, <2>4 DEF Knows, HeldIsRecorded
    <2> QED
        BY <2>5, <2>6
<1>5. CASE UNCHANGED <<state, match, job>>
    BY <1>5 DEF Knows, Row, HeldIsRecorded
<1> QED
    BY <1>1, <1>2, <1>3, <1>4, <1>5 DEF Next, Deduplicate, Change, Upload, MailArrives, Expunge, vars

\* An expense whose receipt is missing, ambiguous or failed always has a Held
\* match: no other import, endpoint or provider takes it away.
THEOREM HeldStaysRecorded == Spec => []HeldIsRecorded
<1>1. Init => Knows /\ HeldIsRecorded
    BY DEF Init, Knows, HeldIsRecorded, IdleJob
<1> QED
    BY <1>1, KnowsStep, PTL DEF Spec

-----------------------------------------------------------------------------
(* Competing mail *)

\* The mail m can be evidence of the version v of x.
Candid(m, x, v) == MailScore(Likeness[m][x][v]) >= 750 /\ PartsOf[m] # {}

\* Among the mail of box that is listed, m is evidence of that version and
\* nothing competes with it.
Clear(m, x, v, box) ==
    /\ m \in Message /\ Candid(m, x, v)
    /\ m \in Listed(x, v, Range(box))
    /\ \A k \in Listed(x, v, Range(box)) : k # m /\ Candid(k, x, v) =>
            MailScore(Likeness[m][x][v]) - MailScore(Likeness[k][x][v]) > 51

\* The mail that came first, the rest of which is not known yet.
Beginning(a, b) ==
    /\ a \in Seq(Message) /\ Len(a) <= Len(b)
    /\ \A i \in 1..Len(a) : a[i] = b[i]

LEMMA ScoreType ==
    ASSUME NEW m \in Message, NEW x \in Expense, NEW v \in 1..LastVersion[x]
    PROVE  MailScore(Likeness[m][x][v]) \in Int
<1>1. PICK f \in Features : f = Likeness[m][x][v]
    BY Constants
<1>2. f.merchant \in Int /\ f.age \in Int
    BY DEF Features
<1> QED
    BY <1>1, <1>2 DEF MailScore, Points, Rounding

LEMMA BeginningGrows ==
    ASSUME NEW a, NEW b \in Seq(Message), Beginning(a, b), NEW m \in Message
    PROVE  Beginning(a, Append(b, m))
    BY DEF Beginning

LEMMA BeginningHas ==
    ASSUME NEW a, NEW b \in Seq(Message), Beginning(a, b)
    PROVE  Range(a) \subseteq Range(b) /\ Range(b) \subseteq Message
<1>1. DOMAIN a = 1..Len(a) /\ Len(a) \in Nat /\ DOMAIN b = 1..Len(b) /\ Len(b) \in Nat
    BY LenProperties DEF Beginning
<1>2. \A i \in DOMAIN a : i \in DOMAIN b /\ a[i] = b[i]
    BY <1>1 DEF Beginning
<1> QED
    BY <1>2 DEF Range

\* What is listed of more mail is listed of less.
LEMMA ListedOfLess ==
    ASSUME NEW x, NEW v, NEW S, NEW T \in SUBSET Message, S \subseteq T, NEW m \in S,
           m \in Listed(x, v, T)
    PROVE  m \in Listed(x, v, S)
<1>1. PICK s : s = {k \in S : Likeness[k][x][v].recent}
    OBVIOUS
<1>2. PICK t : t = {k \in T : Likeness[k][x][v].recent}
    OBVIOUS
<1>3. PICK p : p = {k \in s : DateOf[k] > DateOf[m]}
    OBVIOUS
<1>4. PICK q : q = {k \in t : DateOf[k] > DateOf[m]}
    OBVIOUS
<1>5. m \in t /\ Cardinality(q) < MaxMessages
    BY <1>2, <1>4, Zenon DEF Listed, Newest
<1>6. p \subseteq q /\ q \subseteq Message
    BY <1>1, <1>2, <1>3, <1>4
<1>7. IsFiniteSet(q)
    BY <1>6, Constants, FS_Subset
<1>8. PICK k \in Nat, l \in Nat : k = Cardinality(p) /\ l = Cardinality(q) /\ k <= l
    BY <1>6, <1>7, FS_Subset, FS_CardinalityType
<1>9. PICK n \in Nat : n = MaxMessages
    BY ReceiptsAssumption
<1>10. k < n
    BY <1>5, <1>8, <1>9
<1>11. m \in s
    BY <1>1, <1>2, <1>5
<1> QED
    BY <1>1, <1>3, <1>8, <1>9, <1>10, <1>11, Zenon DEF Listed, Newest

\* What is attached from mail was clear among the mail the job saw.
LEMMA AttachedClear ==
    ASSUME NEW j, j.to \in Expense, j.version \in 1..LastVersion[j.to],
           j.mail \in Seq(Message), j.native \subseteq Attachment,
           provider \in Providers \ {"IMAP", "Manual"},
           ~Ambiguous(Candidates(j)), NEW c \in Selected(Candidates(j)), c.id \in MailId
    PROVE  Clear(c.id[1], j.to, j.version, j.mail)
<1>1. PICK x \in Expense : x = j.to
    OBVIOUS
<1>2. PICK v \in 1..LastVersion[x] : v = j.version
    BY <1>1
<1>3. PICK S : S = Candidates(j)
    OBVIOUS
<1>4. c.id \notin Attachment
    BY ReceiptsAssumption DEF MailId
<1>5. c \in S
    BY <1>3 DEF Selected
<1>6. S = FromAirwallex(x, j.native) \/ S = FromEmail(x, v, j.mail)
    BY <1>1, <1>2, <1>3 DEF Candidates, Providers
<1>7. S = FromEmail(x, v, j.mail)
    <2>1. ASSUME c \in FromAirwallex(x, j.native)
          PROVE  FALSE
        <3>1. PICK a \in j.native : OwnerOf[a] = x /\
                c = [id |-> a, content |-> ContentOf[a], msg |-> NoMessage, score |-> 1000]
            BY <2>1 DEF FromAirwallex
        <3>2. c.id = a
            BY <3>1
        <3> QED
            BY <3>2, <1>4
    <2> QED
        BY <2>1, <1>5, <1>6
<1>8. PICK L : L = Listed(x, v, Range(j.mail))
    OBVIOUS
<1>9. L \subseteq Message
    <2>1. Range(j.mail) \subseteq Message
        BY DEF Range
    <2> QED
        BY <1>8, <2>1 DEF Listed, Newest
<1>10. S = UNION {Parts(m, m, m, MailScore(Likeness[m][x][v])) : m \in L}
    BY <1>7, <1>8 DEF FromEmail
<1>11. ASSUME NEW d \in S
       PROVE  \E m \in L : \E q \in PartsOf[m] :
                /\ Candid(m, x, v)
                /\ d = [id |-> <<m, q[1]>>, content |-> q[2], msg |-> m,
                        score |-> MailScore(Likeness[m][x][v])]
    <2>1. PICK m \in L : d \in Parts(m, m, m, MailScore(Likeness[m][x][v]))
        BY <1>10, <1>11
    <2>2. PICK s \in Int : s = MailScore(Likeness[m][x][v])
        BY <1>9, ScoreType
    <2>3. d \in Parts(m, m, m, s)
        BY <2>1, <2>2
    <2>4. s >= 750 /\ \E q \in PartsOf[m] : d = [id |-> <<m, q[1]>>, content |-> q[2], msg |-> m, score |-> s]
        BY <2>3 DEF Parts
    <2>5. PICK q \in PartsOf[m] : d = [id |-> <<m, q[1]>>, content |-> q[2], msg |-> m, score |-> s]
        BY <2>4
    <2>6. Candid(m, x, v)
        BY <2>2, <2>4, <2>5 DEF Candid
    <2> QED
        BY <2>2, <2>5, <2>6
<1>12. ASSUME NEW m \in L, Candid(m, x, v)
       PROVE  \E d \in S : d.msg = m /\ d.score = MailScore(Likeness[m][x][v])
    <2>1. PICK q \in PartsOf[m] : TRUE
        BY <1>12 DEF Candid
    <2>2. PICK s \in Int : s = MailScore(Likeness[m][x][v])
        BY <1>9, ScoreType
    <2>3. PICK d : d = [id |-> <<m, q[1]>>, content |-> q[2], msg |-> m, score |-> s]
        OBVIOUS
    <2>4. ~(s < 750)
        BY <1>12, <2>2 DEF Candid
    <2>5. d \in Parts(m, m, m, s)
        BY <2>1, <2>3, <2>4 DEF Parts
    <2>6. d \in S
        BY <1>10, <2>2, <2>5
    <2> QED
        BY <2>2, <2>3, <2>6
<1>13. \A d \in S : d.msg \in Message /\ Group(d) = d.msg
    <2> SUFFICES ASSUME NEW d \in S PROVE d.msg \in Message /\ d.msg # NoMessage
        BY DEF Group
    <2>1. PICK m \in L : d.msg = m
        BY <1>11
    <2> QED
        BY <2>1, <1>9, ReceiptsAssumption
<1>14. PICK m \in L : \E q \in PartsOf[m] :
                /\ Candid(m, x, v)
                /\ c = [id |-> <<m, q[1]>>, content |-> q[2], msg |-> m,
                        score |-> MailScore(Likeness[m][x][v])]
    BY <1>5, <1>11
<1>15. c.id[1] = m /\ c.msg = m /\ Candid(m, x, v) /\ m \in Message
    BY <1>9, <1>14
<1>16. PICK b \in Best(S) : Group(c) = Group(b)
    BY <1>3, <1>4, <1>5 DEF Selected
<1>17. b \in S /\ b.msg = m
    BY <1>5, <1>13, <1>15, <1>16 DEF Best
<1>18. b.score = MailScore(Likeness[m][x][v])
    BY <1>11, <1>17
<1>19. ASSUME NEW k \in L, k # m, Candid(k, x, v)
       PROVE  MailScore(Likeness[m][x][v]) - MailScore(Likeness[k][x][v]) > 51
    <2>1. PICK d \in S : d.msg = k /\ d.score = MailScore(Likeness[k][x][v])
        BY <1>12, <1>19
    <2>2. Group(d) # Group(b)
        BY <2>1, <1>13, <1>17, <1>19
    <2>3. ~Near(b.score, d.score)
        BY <2>2, <1>3, <1>4, <1>5 DEF Ambiguous
    <2>4. PICK s \in Int, t \in Int : s = MailScore(Likeness[m][x][v]) /\ t = MailScore(Likeness[k][x][v])
        BY <1>9, ScoreType
    <2>5. s - t > 51
        BY <2>1, <2>3, <2>4, <1>18 DEF Near
    <2> QED
        BY <2>4, <2>5
<1> QED
    BY <1>1, <1>2, <1>8, <1>15, <1>19 DEF Clear

\* What files hold of mail was clear in the mailbox of some time, for a version
\* of the expense.
Sifted ==
    /\ provider \in Providers \ {"IMAP"}
    /\ version \in [Expense -> Nat] /\ \A x \in Expense : version[x] <= LastVersion[x]
    /\ mailbox \in Seq(Message) /\ native \subseteq Attachment
    /\ job = [w \in Worker |-> job[w]]
    /\ \A w \in Worker : job[w].pc = "looking" =>
            /\ job[w].to \in Expense /\ job[w].native \subseteq Attachment
            /\ job[w].version \in 1..version[job[w].to]
            /\ Beginning(job[w].mail, mailbox)
    /\ \A f \in BagToSet(files) : f.id \in MailId =>
            /\ f.to \in Expense
            /\ \E v \in 1..version[f.to] : \E box :
                    Beginning(box, mailbox) /\ Clear(f.id[1], f.to, v, box)

\* Mail that is clear leaves out what came before and competes with it.
LEMMA LaterSees ==
    ASSUME Sifted, NEW x \in Expense, NEW a, NEW b, Beginning(a, mailbox), Beginning(b, mailbox),
           Len(a) <= Len(b), NEW m \in Range(a), PartsOf[m] # {}, NEW n, n # m,
           NEW v \in 1..version[x], Clear(n, x, v, b)
    PROVE  ~Competing(m, n, x) /\ ~Competing(n, m, x)
<1>1. SUFFICES ASSUME Competing(m, n, x) \/ Competing(n, m, x)
               PROVE  FALSE
    OBVIOUS
<1>2. Beginning(a, b) /\ b \in Seq(Message) /\ mailbox \in Seq(Message)
    <2>1. Len(a) \in Nat /\ Len(b) \in Nat
        BY LenProperties DEF Beginning
    <2>2. \A i \in 1..Len(a) : a[i] = mailbox[i] /\ i \in 1..Len(b)
        BY <2>1 DEF Beginning
    <2> QED
        BY <2>2 DEF Beginning, Sifted
<1>3. m \in Range(b) /\ Range(b) \subseteq Range(mailbox) /\ Range(mailbox) \subseteq Message
    BY <1>2, BeginningHas
<1>4. v \in 1..LastVersion[x]
    <2>1. PICK k \in Nat, l \in Nat : k = version[x] /\ l = LastVersion[x] /\ k <= l
        BY Constants DEF Sifted
    <2>2. v \in 1..k
        BY <2>1
    <2> QED
        BY <2>1, <2>2
<1>5. m \in Message /\ n \in Message
    BY <1>3 DEF Clear
<1>6. PICK s \in Int, t \in Int : s = MailScore(Likeness[m][x][v]) /\ t = MailScore(Likeness[n][x][v])
    BY <1>4, <1>5, ScoreType
<1>11. s \in Int /\ t \in Int
    OBVIOUS
<1>7. m \in Listed(x, v, Range(mailbox)) /\ s >= 750 /\ t - s <= 51
    <2>1. CASE Competing(m, n, x)
        <3>1. Rivals(m, n, x, v)
            BY <2>1 DEF Competing
        <3>2. m \in Listed(x, v, Range(mailbox)) /\ s >= 750
            BY <3>1, <1>6 DEF Rivals
        <3>3. s - t \in -51..51
            BY <3>1, <1>6 DEF Rivals
        <3>4. t - s <= 51
            BY ONLY <3>3, <1>11
        <3> QED
            BY <3>2, <3>4
    <2>2. CASE Competing(n, m, x)
        <3>1. Rivals(n, m, x, v)
            BY <2>2 DEF Competing
        <3>2. m \in Listed(x, v, Range(mailbox)) /\ s >= 750
            BY <3>1, <1>6 DEF Rivals
        <3>3. t - s \in -51..51
            BY <3>1, <1>6 DEF Rivals
        <3>4. t - s <= 51
            BY ONLY <3>3, <1>11
        <3> QED
            BY <3>2, <3>4
    <2> QED
        BY <1>1, <2>1, <2>2
<1>8. m \in Listed(x, v, Range(b))
    BY <1>3, <1>7, ListedOfLess
<1>9. Candid(m, x, v)
    BY <1>6, <1>7 DEF Candid
<1>10. t - s > 51
    BY <1>6, <1>8, <1>9 DEF Clear
<1> QED
    BY <1>7, <1>10

LEMMA SiftedSuffices ==
    ASSUME Sifted
    PROVE  CompetitorsNotBoth
<1> SUFFICES ASSUME NEW f \in BagToSet(files), NEW g \in BagToSet(files), f.to = g.to,
                    f.id \in MailId, g.id \in MailId, f.id[1] # g.id[1]
             PROVE  ~Competing(f.id[1], g.id[1], f.to)
    BY DEF CompetitorsNotBoth
<1>1. PICK x \in Expense : x = f.to /\ x = g.to
    BY DEF Sifted
<1>9. PICK v \in 1..version[x] : \E a : Beginning(a, mailbox) /\ Clear(f.id[1], x, v, a)
    BY <1>1 DEF Sifted
<1>2. PICK a : Beginning(a, mailbox) /\ Clear(f.id[1], x, v, a)
    BY <1>9
<1>10. PICK u \in 1..version[x] : \E b : Beginning(b, mailbox) /\ Clear(g.id[1], x, u, b)
    BY <1>1 DEF Sifted
<1>3. PICK b : Beginning(b, mailbox) /\ Clear(g.id[1], x, u, b)
    BY <1>10
<1>4. PICK m, n : m = f.id[1] /\ n = g.id[1] /\ m # n
    OBVIOUS
<1>5. m \in Range(a) /\ PartsOf[m] # {}
    BY <1>2, <1>4 DEF Clear, Candid, Listed, Newest
<1>6. n \in Range(b) /\ PartsOf[n] # {}
    BY <1>3, <1>4 DEF Clear, Candid, Listed, Newest
<1>7. Len(a) <= Len(b) \/ Len(b) <= Len(a)
    <2>1. Len(a) \in Nat /\ Len(b) \in Nat
        BY <1>2, <1>3, LenProperties DEF Beginning
    <2> QED
        BY <2>1
<1>8. ~Competing(m, n, x)
    <2>1. CASE Len(a) <= Len(b)
        BY <1>2, <1>3, <1>4, <1>5, <2>1, LaterSees
    <2>2. CASE Len(b) <= Len(a)
        BY <1>2, <1>3, <1>4, <1>6, <2>2, LaterSees
    <2> QED
        BY <1>7, <2>1, <2>2
<1> QED
    BY <1>1, <1>4, <1>8

\* A finished import attaches what was clear to it.
LEMMA FinishSifts ==
    ASSUME Sifted, NEW w \in Worker, job[w].pc = "looking", NEW added, NEW key, NEW outcome,
           Finish(w, added, key, outcome),
           \A c \in added : c.id \in MailId =>
                Clear(c.id[1], job[w].to, job[w].version, job[w].mail)
    PROVE  Sifted'
<1>1. PICK x \in Expense : x = job[w].to
    BY DEF Sifted
<1>2. PICK box : box = job[w].mail
    OBVIOUS
<1>10. PICK v \in 1..version[x] : v = job[w].version
    BY <1>1 DEF Sifted
<1>3. Beginning(box, mailbox)
    BY <1>2 DEF Sifted
<1>4. UNCHANGED <<provider, version, mailbox, native>> /\ job' = [job EXCEPT ![w] = IdleJob]
    BY DEF Finish
<1>5. BagToSet(files)' = BagToSet(files) \cup {[to |-> x, id |-> c.id, content |-> c.content] : c \in added}
    BY <1>1 DEF Finish, AsFiles, BagToSet, SetToBag, (+)
<1>6. ASSUME NEW f \in BagToSet(files)', f.id \in MailId
      PROVE  /\ f.to \in Expense
             /\ \E u \in 1..version[f.to] : \E b : Beginning(b, mailbox) /\ Clear(f.id[1], f.to, u, b)
    <2>1. CASE f \in BagToSet(files)
        BY <1>6, <2>1 DEF Sifted
    <2>2. CASE f \in {[to |-> x, id |-> c.id, content |-> c.content] : c \in added}
        <3>1. PICK c \in added : f = [to |-> x, id |-> c.id, content |-> c.content]
            BY <2>2
        <3>2. f.to = x /\ f.id = c.id
            BY <3>1
        <3>3. Clear(f.id[1], f.to, v, box)
            BY <3>2, <1>1, <1>2, <1>6, <1>10
        <3> QED
            BY <3>2, <3>3, <1>3
    <2> QED
        BY <2>1, <2>2, <1>5
<1>7. IdleJob.pc = "idle"
    BY DEF IdleJob
<1>8. \A u \in Worker : job'[u].pc = "looking" => job'[u] = job[u]
    BY <1>4, <1>7 DEF Sifted
<1>9. job' = [u \in Worker |-> job'[u]]
    BY <1>4 DEF Sifted
<1> QED
    BY <1>4, <1>6, <1>8, <1>9 DEF Sifted

LEMMA SiftedStep ==
    ASSUME Sifted, [Next]_vars
    PROVE  Sifted'
<1>1. ASSUME NEW w \in Worker, NEW x \in Expense, NEW v \in 1..version[x], Begin(w, x, v)
      PROVE  Sifted'
    <2>1. PICK j : j = [pc |-> "looking", to |-> x, version |-> v, fresh |-> state[x] = "none",
                        files |-> {f \in BagToSet(files) : Relevant(f, x)},
                        matches |-> MatchesOf(x),
                        native |-> {a \in native : OwnerOf[a] = x},
                        mail |-> mailbox]
        OBVIOUS
    <2>2. j.to = x /\ j.version = v /\ j.mail = mailbox /\ j.native \subseteq native
        BY <2>1
    <2>3. job' = [job EXCEPT ![w] = j] /\ UNCHANGED <<provider, version, native, mailbox, files>>
        BY <1>1, <2>1 DEF Begin
    <2>4. Beginning(mailbox, mailbox)
        BY LenProperties DEF Beginning, Sifted
    <2>5. \A u \in Worker : job'[u] = IF u = w THEN j ELSE job[u]
        BY <2>3 DEF Sifted
    <2>6. job' = [u \in Worker |-> job'[u]]
        BY <2>3 DEF Sifted
    <2> QED
        BY <2>2, <2>3, <2>4, <2>5, <2>6 DEF Sifted, BagToSet
<1>2. ASSUME NEW w \in Worker, FindNothing(w) \/ HoldCompeting(w) \/ ProviderError(w)
      PROVE  Sifted'
    <2>1. job[w].pc = "looking"
        BY <1>2 DEF FindNothing, HoldCompeting, ProviderError, Reading
    <2>2. PICK key, outcome : Finish(w, {}, key, outcome)
        BY <1>2, Zenon DEF FindNothing, HoldCompeting, ProviderError
    <2> QED
        BY <2>1, <2>2, FinishSifts
<1>3. ASSUME NEW w \in Worker, Attach(w)
      PROVE  Sifted'
    <2> DEFINE S == Candidates(job[w])
               chosen == Selected(S)
               new == Unattached(job[w], chosen)
    <2>1. /\ job[w].pc = "looking" /\ provider # "Manual" /\ ~Ambiguous(S)
          /\ \E failed \in SUBSET new : \E added \in OneEach(new \ failed) :
                Finish(w, added, (CHOOSE c \in chosen : TRUE).msg,
                       IF failed = chosen THEN "error" ELSE "attached")
        BY <1>3, Zenon DEF Attach, Reading
    <2>2. PICK failed \in SUBSET new : \E added \in OneEach(new \ failed) :
                Finish(w, added, (CHOOSE c \in chosen : TRUE).msg,
                       IF failed = chosen THEN "error" ELSE "attached")
        BY <2>1
    <2>3. PICK added \in OneEach(new \ failed) :
                Finish(w, added, (CHOOSE c \in chosen : TRUE).msg,
                       IF failed = chosen THEN "error" ELSE "attached")
        BY <2>2
    <2>4. PICK key : key = (CHOOSE c \in chosen : TRUE).msg
        OBVIOUS
    <2>5. PICK outcome : outcome = IF failed = chosen THEN "error" ELSE "attached"
        OBVIOUS
    <2>6. Finish(w, added, key, outcome)
        BY <2>3, <2>4, <2>5
    <2>7. added \subseteq chosen
        BY DEF OneEach, Unattached
    <2>8. ASSUME NEW c \in added, c.id \in MailId
          PROVE  Clear(c.id[1], job[w].to, job[w].version, job[w].mail)
        <3>1. PICK j : j = job[w]
            OBVIOUS
        <3>2. /\ j.to \in Expense /\ j.mail \in Seq(Message) /\ j.native \subseteq Attachment
              /\ provider \in Providers \ {"IMAP", "Manual"}
            BY <2>1, <3>1 DEF Sifted, Beginning
        <3>4. j.version \in 1..LastVersion[j.to]
            <4>1. PICK k \in Nat, l \in Nat :
                        k = version[j.to] /\ l = LastVersion[j.to] /\ k <= l
                BY <3>2, Constants DEF Sifted
            <4>2. j.version \in 1..k
                BY <2>1, <3>1, <4>1 DEF Sifted
            <4> QED
                BY <4>1, <4>2
        <3>3. ~Ambiguous(Candidates(j)) /\ c \in Selected(Candidates(j))
            BY <2>1, <2>7, <3>1
        <3> QED
            BY <2>8, <3>1, <3>2, <3>3, <3>4, AttachedClear
    <2> QED
        BY <2>1, <2>6, <2>8, FinishSifts
<1>4. ASSUME NEW w \in Worker, Leave(w) \/ Rollback(w)
      PROVE  Sifted'
    <2>1. job' = [job EXCEPT ![w] = IdleJob] /\ UNCHANGED <<provider, version, native, mailbox, files>>
        BY <1>4 DEF Leave, Rollback
    <2>2. IdleJob.pc = "idle"
        BY DEF IdleJob
    <2>3. \A v \in Worker : job'[v].pc = "looking" => job'[v] = job[v]
        BY <2>1, <2>2 DEF Sifted
    <2>4. job' = [v \in Worker |-> job'[v]]
        BY <2>1 DEF Sifted
    <2> QED
        BY <2>1, <2>3, <2>4 DEF Sifted, BagToSet
<1>5. ASSUME BagToSet(files)' \subseteq BagToSet(files) \cup {f \in BagToSet(files)' : f.id \notin MailId},
             UNCHANGED <<provider, version, mailbox, job>>, native' \subseteq Attachment
      PROVE  Sifted'
    BY <1>5 DEF Sifted
<1>6. ASSUME NEW x \in Expense, NEW T, Ingest(x, T)
      PROVE  Sifted'
    <2>1. PICK new : new = {c \in T : Copies(x, c) = 0}
        OBVIOUS
    <2>6. \E id \in {NoId} \cup {a \in Attachment : OwnerOf[a] = x /\ T = {ContentOf[a]}} :
            files' = files (+) SetToBag({[to |-> x, id |-> id, content |-> c] : c \in new})
        BY <1>6, <2>1, Zenon DEF Ingest
    <2>2. PICK id \in {NoId} \cup {a \in Attachment : OwnerOf[a] = x /\ T = {ContentOf[a]}} :
            files' = files (+) SetToBag({[to |-> x, id |-> id, content |-> c] : c \in new})
        BY <2>6, Zenon
    <2>3. BagToSet(files)' = BagToSet(files) \cup {[to |-> x, id |-> id, content |-> c] : c \in new}
        BY <2>2 DEF BagToSet, SetToBag, (+)
    <2>4. id \notin MailId
        BY <2>2, ReceiptsAssumption DEF MailId
    <2>5. ASSUME NEW f \in {[to |-> x, id |-> id, content |-> c] : c \in new}
          PROVE  f.id = id
        BY <2>5
    <2> QED
        BY <1>5, <1>6, <2>3, <2>4, <2>5 DEF Ingest, Sifted
<1>7. CASE Deduplicate
    <2>1. PICK kept \in SUBSET BagToSet(files) : DOMAIN files' = kept
        BY <1>7 DEF Deduplicate
    <2>2. BagToSet(files)' = kept
        BY <2>1 DEF BagToSet
    <2> QED
        BY <1>5, <1>7, <2>2 DEF Deduplicate, Sifted
<1>8. ASSUME NEW a \in Attachment, Upload(a)
      PROVE  Sifted'
    BY <1>5, <1>8 DEF Upload, Sifted, BagToSet
<1>9. ASSUME NEW m \in Message, MailArrives(m)
      PROVE  Sifted'
    <2>1. mailbox' = Append(mailbox, m) /\ UNCHANGED <<provider, version, native, files, job>>
        BY <1>9 DEF MailArrives
    <2>2. \A a : Beginning(a, mailbox) => Beginning(a, mailbox')
        BY <2>1, BeginningGrows DEF Sifted
    <2> QED
        BY <2>1, <2>2, AppendProperties DEF Sifted, BagToSet
<1>10. ASSUME NEW i, Expunge(i)
       PROVE  FALSE
    BY <1>10 DEF Expunge, Sifted
<1>12. ASSUME NEW x \in Expense, Change(x)
       PROVE  Sifted'
    <2>1. /\ version' = [version EXCEPT ![x] = @ + 1] /\ version[x] < LastVersion[x]
          /\ UNCHANGED <<provider, native, mailbox, files, job>>
        BY <1>12 DEF Change
    <2>2. ASSUME NEW y \in Expense
          PROVE  /\ version'[y] \in Nat /\ version'[y] <= LastVersion[y]
                 /\ 1..version[y] \subseteq 1..version'[y]
        <3>1. PICK k \in Nat, l \in Nat : k = version[y] /\ l = LastVersion[y] /\ k <= l
            BY Constants DEF Sifted
        <3>2. PICK i \in {k, k + 1} : i = version'[y] /\ (y # x => i = k)
            BY <2>1, <3>1 DEF Sifted
        <3>3. i <= l
            BY <2>1, <3>1, <3>2
        <3>4. 1..k \subseteq 1..i
            BY <3>2
        <3> QED
            BY <3>1, <3>2, <3>3, <3>4
    <2>3. version' \in [Expense -> Nat]
        BY <2>1 DEF Sifted
    <2> QED
        BY <2>1, <2>2, <2>3 DEF Sifted, BagToSet
<1>11. CASE UNCHANGED vars
    BY <1>5, <1>11 DEF vars, Sifted, BagToSet
<1> QED
    BY <1>1, <1>2, <1>3, <1>4, <1>6, <1>7, <1>8, <1>9, <1>10, <1>11, <1>12 DEF Next, Advance

\* While mail is not removed, no expense ever holds evidence of two messages
\* that compete for it in each of its versions, in whatever order mail, jobs,
\* their snapshots and the versions came.
THEOREM CompetitorsApart == Spec => []CompetitorsNotBoth
<1>1. Init => Sifted \/ provider = "IMAP"
    <2>1. Init => BagToSet(files) = {}
        BY DEF Init, BagToSet, EmptyBag, SetToBag
    <2>2. IdleJob.pc = "idle"
        BY DEF IdleJob
    <2> QED
        BY <2>1, <2>2, EmptySeq, Constants DEF Init, Sifted
<1>2. (Sifted \/ provider = "IMAP") /\ [Next]_vars => (Sifted \/ provider = "IMAP")'
    <2>1. provider = "IMAP" /\ [Next]_vars => provider' = "IMAP"
        BY DEF Next, vars, Begin, Advance, Leave, FindNothing, HoldCompeting, Attach, Finish,
               ProviderError, Rollback, Ingest, Deduplicate, Change, Upload, MailArrives, Expunge
    <2> QED
        BY <2>1, SiftedStep
<1>3. Sifted \/ provider = "IMAP" => CompetitorsNotBoth
    BY SiftedSuffices DEF CompetitorsNotBoth
<1> QED
    BY <1>1, <1>2, <1>3, PTL DEF Spec
=============================================================================
