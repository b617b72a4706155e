-------------------------- MODULE SyncWindowProofs --------------------------
(***************************************************************************)
(* TLAPS proofs about SyncWindow, for every number of items, runners and   *)
(* hours.  NothingSkipped is not inductive: what a run has listed is       *)
(* committed later, so its invariant speaks of the running runs as well.   *)
(***************************************************************************)
EXTENDS SyncWindow, TLAPS

USE DEF InScope, Settled, Prompt

(* ---- Types ---- *)

LEMMA TypeInit == Init => TypeOK
  BY WindowAssumption DEF Init, TypeOK, IdleRun, Run

LEMMA StartTimeTyped ==
  ASSUME TypeOK, NEW scope
  PROVE  StartTime(scope) \in Int
  <1>1. clock \in Int /\ cursor \in Int /\ Overlap \in Int /\ Lookback \in Int
    BY WindowAssumption DEF TypeOK
  <1> QED BY <1>1, WindowAssumption DEF StartTime

LEMMA TypeStep == TypeOK /\ [Next]_vars => TypeOK'
  <1> SUFFICES ASSUME TypeOK, [Next]_vars PROVE TypeOK'
    OBVIOUS
  <1> USE WindowAssumption
  <1>1. ASSUME NEW i \in Item, Create(i) PROVE TypeOK'
    BY <1>1 DEF TypeOK, Create
  <1>2. ASSUME NEW i \in Item, Settle(i) PROVE TypeOK'
    BY <1>2 DEF TypeOK, Settle
  <1>3. CASE Tick
    BY <1>3 DEF TypeOK, Tick
  <1>4. ASSUME NEW r \in Runner, NEW scope \in Scope, Start(r, scope) PROVE TypeOK'
    <2>1. Modules(scope) \in SUBSET Module
      BY DEF Modules, Scope
    <2>2. [pc |-> "running", todo |-> Modules(scope), from |-> StartTime(scope),
           started |-> clock, took |-> {}] \in Run
      BY <2>1, StartTimeTyped DEF Run, TypeOK
    <2> QED BY <1>4, <2>2 DEF TypeOK, Start
  <1>5. ASSUME NEW r \in Runner, NEW m \in Module, SyncModule(r, m) PROVE TypeOK'
    <2>1. PICK T \in Taken(Listed(m, run[r].from)) :
            run' = [run EXCEPT ![r].todo = @ \ {m}, ![r].took = @ \cup {i \in T : settled[i] > 0}]
      BY <1>5 DEF SyncModule
    <2>2. run[r] \in Run /\ T \subseteq Item
      BY DEF TypeOK, Taken, Listed
    <2> DEFINE took == run[r].took \cup {i \in T : settled[i] > 0}
               next == [run[r] EXCEPT !.todo = run[r].todo \ {m}, !.took = took]
    <2>3. took \in SUBSET Item /\ run[r].todo \ {m} \in SUBSET Module
      BY <2>2 DEF Run
    <2>4. next \in Run
      <3> HIDE DEF took
      <3> QED BY <2>2, <2>3 DEF Run
    <2>5. run' = [run EXCEPT ![r] = next]
      BY <2>1
    <2>6. run' \in [Runner -> Run]
      <3> HIDE DEF next
      <3> QED BY <2>4, <2>5 DEF TypeOK
    <2> QED BY <1>5, <2>6 DEF TypeOK, SyncModule
  <1>6. ASSUME NEW r \in Runner, Finish(r) PROVE TypeOK'
    <2>1. IdleRun \in Run
      BY DEF IdleRun, Run
    <2>2. run[r].took \in SUBSET Item
      BY DEF TypeOK, Run
    <2> QED BY <1>6, <2>1, <2>2 DEF TypeOK, Finish
  <1>7. ASSUME NEW r \in Runner, Fail(r) PROVE TypeOK'
    <2>1. IdleRun \in Run
      BY DEF IdleRun, Run
    <2> QED BY <1>7, <2>1 DEF TypeOK, Fail
  <1>8. CASE UNCHANGED vars
    BY <1>8 DEF TypeOK, vars
  <1> QED BY <1>1, <1>2, <1>3, <1>4, <1>5, <1>6, <1>7, <1>8 DEF Next, Continue

\* Every variable keeps its type: run_sync only ever asks for known modules
\* and a start time that is a time.
THEOREM TypeCorrect == Spec => []TypeOK
  BY TypeInit, TypeStep, PTL DEF Spec

(* ---- Nothing is skipped ---- *)

Unseen(i) == Prompt(i) /\ i \notin imported

\* What a running run guarantees: it began within its timeout, and asks for the
\* overlap before that; everything unseen is in its window; what it has not
\* taken from the modules it is done with settled after it began.
RunsCover ==
    \A r \in Runner : run[r].pc = "running" =>
        /\ run[r].started <= clock /\ clock <= run[r].started + RunLimit
        /\ run[r].from <= run[r].started - Overlap \/ run[r].from = StartDate \/ StartDate = NoDate
        /\ \A i \in Item : Unseen(i) => created[i] >= run[r].from
        /\ \A i \in Item : Unseen(i) /\ ModuleOf[i] \notin run[r].todo =>
                              i \in run[r].took \/ settled[i] >= run[r].started

SettlesLater == \A i \in Item : settled[i] > 0 => created[i] > 0

IInv == TypeOK /\ cursor <= clock /\ SettlesLater /\ NothingSkipped /\ RunsCover

\* Only incremental and full runs, and no list is longer than max_items.
Unrestricted == OnDemand = {} /\ \A S \in SUBSET Item : Cardinality(S) <= MaxItems

LEMMA InitIInv == Init => IInv
  <1> SUFFICES ASSUME Init PROVE IInv
    OBVIOUS
  <1>1. TypeOK
    BY TypeInit
  <1>2. \A r \in Runner : run[r].pc = "idle"
    BY DEF Init, IdleRun
  <1> QED BY <1>1, <1>2 DEF Init, IInv, NothingSkipped, RunsCover, SettlesLater

LEMMA Inductive ==
  ASSUME Unrestricted, IInv, [Next]_vars
  PROVE  IInv'
  <1> USE WindowAssumption
  <1>0. TypeOK /\ TypeOK'
    BY TypeStep DEF IInv
  <1>t. /\ clock \in Int /\ cursor \in Int /\ Overlap \in Int /\ RunLimit \in Int
        /\ \A i \in Item : created[i] \in Int /\ settled[i] \in Int
        /\ \A r \in Runner : /\ run[r] \in Run /\ run[r].from \in Int
                             /\ run[r].started \in Int
    BY <1>0 DEF TypeOK, Run
  <1>1. ASSUME NEW i \in Item, Create(i) PROVE IInv'
    <2>1. /\ UNCHANGED <<clock, settled, imported, cursor, run>>
          /\ \A j \in Item \ {i} : created'[j] = created[j]
          /\ created'[i] = clock
      BY <1>1, <1>0 DEF Create, TypeOK
    <2>2. \A j \in Item \ {i} : Unseen(j)' <=> Unseen(j)
      BY <2>1 DEF Unseen
    <2>3. ~ Unseen(i)' /\ settled[i] <= 0
      BY <1>1, <1>t, <2>1 DEF Create, IInv, SettlesLater, Unseen
    <2>4. (cursor <= clock)' /\ SettlesLater'
      BY <2>1, <2>3, <1>t DEF IInv, SettlesLater
    <2>5. NothingSkipped'
      BY <1>t, <2>1, <2>2, <2>3 DEF IInv, NothingSkipped, Unseen
    <2>6. RunsCover'
      BY <2>1, <2>2, <2>3 DEF IInv, RunsCover
    <2> QED BY <1>0, <2>4, <2>5, <2>6 DEF IInv
  <1>2. ASSUME NEW i \in Item, Settle(i) PROVE IInv'
    <2>1. /\ UNCHANGED <<clock, created, imported, cursor, run>>
          /\ \A j \in Item \ {i} : settled'[j] = settled[j]
          /\ settled'[i] = clock /\ created[i] > 0
      BY <1>2, <1>0 DEF Settle, TypeOK
    <2>2. \A j \in Item \ {i} : Unseen(j)' <=> Unseen(j)
      BY <2>1 DEF Unseen
    <2>3. ASSUME Unseen(i)'
          PROVE  created[i] >= clock - Overlap /\ StartDate # NoDate /\ created[i] >= StartDate
      BY <1>t, <2>1, <2>3 DEF Unseen
    <2>4. (cursor <= clock)' /\ SettlesLater'
      BY <2>1 DEF IInv, SettlesLater
    <2>5. NothingSkipped'
      BY <1>t, <2>1, <2>2, <2>3 DEF IInv, NothingSkipped, Unseen
    <2>6. ASSUME NEW r \in Runner, run[r].pc = "running", Unseen(i)'
          PROVE  created[i] >= run[r].from /\ settled'[i] >= run[r].started
      <3>1. run[r].started <= clock
            /\ (run[r].from <= run[r].started - Overlap \/ run[r].from = StartDate)
        BY <2>3, <2>6 DEF IInv, RunsCover
      <3> QED BY <1>t, <2>1, <2>3, <2>6, <3>1
    <2>7. RunsCover'
      BY <2>1, <2>2, <2>6 DEF IInv, RunsCover
    <2> QED BY <1>0, <2>4, <2>5, <2>7 DEF IInv
  <1>3. CASE Tick
    <2>1. /\ UNCHANGED <<created, settled, imported, cursor, run>> /\ clock' = clock + 1
          /\ \A r \in Runner : run[r].pc = "running" => clock < run[r].started + RunLimit
      BY <1>3 DEF Tick
    <2>2. \A j \in Item : Unseen(j)' <=> Unseen(j)
      BY <2>1 DEF Unseen
    <2>3. NothingSkipped'
      BY <2>1, <2>2 DEF IInv, NothingSkipped, Unseen
    <2>4. \A r \in Runner : run[r].pc = "running" =>
            run[r].started <= clock' /\ clock' <= run[r].started + RunLimit
      BY <1>t, <2>1 DEF IInv, RunsCover
    <2>5. RunsCover'
      BY <2>1, <2>2, <2>4 DEF IInv, RunsCover
    <2>6. (cursor <= clock)' /\ SettlesLater'
      BY <1>t, <2>1 DEF IInv, SettlesLater
    <2> QED BY <1>0, <2>3, <2>5, <2>6 DEF IInv
  <1>4. ASSUME NEW r \in Runner, NEW scope \in Scope, Start(r, scope) PROVE IInv'
    <2>1. scope = "incremental"
      BY DEF Scope, Unrestricted
    <2>2. /\ UNCHANGED <<clock, created, settled, imported, cursor>>
          /\ \A s \in Runner \ {r} : run'[s] = run[s]
          /\ run'[r].todo = Module /\ run'[r].from = StartTime(scope)
          /\ run'[r].started = clock
      BY <1>4, <1>0, <2>1 DEF Start, Modules, TypeOK
    <2>3. \A j \in Item : Unseen(j)' <=> Unseen(j)
      BY <2>2 DEF Unseen
    <2>4. NothingSkipped'
      BY <2>2, <2>3 DEF IInv, NothingSkipped, Unseen
    <2>5. run'[r].from <= clock - Overlap \/ run'[r].from = StartDate \/ StartDate = NoDate
      <3>1. cursor > 0 => run'[r].from = cursor - Overlap
        BY <2>1, <2>2 DEF StartTime
      <3>2. ~(cursor > 0) => run'[r].from = StartDate \/ StartDate = NoDate
        BY <2>1, <2>2 DEF StartTime
      <3>3. cursor > 0 => run'[r].from <= clock - Overlap
        BY <3>1, <1>t DEF IInv
      <3> QED BY <3>2, <3>3
    <2>6. \A i \in Item : Unseen(i) => created[i] >= run'[r].from
      BY <1>t, <2>1, <2>2 DEF StartTime, IInv, NothingSkipped, Unseen
    <2>7. clock <= clock + RunLimit /\ \A i \in Item : ModuleOf[i] \in Module
      BY <1>t
    <2>8. RunsCover'
      BY <1>t, <2>2, <2>3, <2>5, <2>6, <2>7 DEF IInv, RunsCover
    <2> QED BY <1>0, <2>2, <2>4, <2>8 DEF IInv, SettlesLater
  <1>5. ASSUME NEW r \in Runner, NEW m \in Module, SyncModule(r, m) PROVE IInv'
    <2> DEFINE L == Listed(m, run[r].from)
    <2>1. Taken(L) = {L}
      BY DEF Taken, Listed, Unrestricted
    <2>2. run' = [run EXCEPT ![r].todo = @ \ {m}, ![r].took = @ \cup {i \in L : settled[i] > 0}]
      BY <1>5, <2>1 DEF SyncModule
    <2> DEFINE took == run[r].took \cup {i \in L : settled[i] > 0}
               next == [run[r] EXCEPT !.todo = run[r].todo \ {m}, !.took = took]
    <2>n. /\ next.pc = run[r].pc /\ next.todo = run[r].todo \ {m}
          /\ next.from = run[r].from /\ next.started = run[r].started /\ next.took = took
      <3> HIDE DEF took
      <3> QED BY <1>t DEF Run
    <2>e. run' = [run EXCEPT ![r] = next]
      BY <2>2
    <2>r. run'[r] = next /\ \A s \in Runner \ {r} : run'[s] = run[s]
      <3> HIDE DEF next
      <3> QED BY <2>e, <1>0 DEF TypeOK
    <2> HIDE DEF next
    <2>3. /\ UNCHANGED <<clock, created, settled, imported, cursor>>
          /\ \A s \in Runner \ {r} : run'[s] = run[s]
          /\ run[r].pc = "running" /\ run'[r].todo = run[r].todo \ {m}
          /\ run'[r].from = run[r].from /\ run'[r].started = run[r].started
          /\ run'[r].took = took
      BY <1>5, <2>n, <2>r DEF SyncModule
    <2>4. \A j \in Item : Unseen(j)' <=> Unseen(j)
      BY <2>3 DEF Unseen
    <2>5. NothingSkipped'
      BY <2>3, <2>4 DEF IInv, NothingSkipped, Unseen
    <2>6. \A i \in Item : Unseen(i) => created[i] >= run[r].from /\ created[i] > 0 /\ settled[i] > 0
      BY <2>3 DEF IInv, RunsCover, Unseen
    <2>8. \A i \in Item : Unseen(i) /\ ModuleOf[i] = m => i \in took
      BY <2>6 DEF Listed
    <2>9. \A i \in Item : Unseen(i) /\ ModuleOf[i] \notin run'[r].todo =>
                            i \in run'[r].took \/ settled[i] >= run[r].started
      <3>1. run[r].took \subseteq took
        OBVIOUS
      <3> HIDE DEF took
      <3> QED BY <2>3, <2>8, <3>1 DEF IInv, RunsCover
    <2> HIDE DEF L, took
    <2>10. RunsCover'
      BY <2>3, <2>4, <2>9 DEF IInv, RunsCover
    <2> QED BY <1>0, <2>3, <2>5, <2>10 DEF IInv, SettlesLater
  <1>6. ASSUME NEW r \in Runner, Finish(r) PROVE IInv'
    <2>1. /\ UNCHANGED <<clock, created, settled>> /\ cursor' = clock
          /\ run[r].pc = "running" /\ run[r].todo = {}
          /\ \A s \in Runner \ {r} : run'[s] = run[s]
          /\ run'[r].pc = "idle"
          /\ imported' = imported \cup run[r].took
      BY <1>6, <1>0 DEF Finish, TypeOK, IdleRun
    <2>2. \A j \in Item : Unseen(j)' => Unseen(j) /\ j \notin run[r].took
      BY <1>t, <2>1 DEF Unseen
    <2>3. \A j \in Item : Unseen(j)' => settled[j] >= run[r].started
      BY <2>1, <2>2 DEF IInv, RunsCover
    <2>4. clock <= run[r].started + RunLimit
      BY <2>1 DEF IInv, RunsCover
    <2>5. \A j \in Item : Unseen(j)' => created'[j] >= cursor' - Overlap
      BY <1>t, <2>1, <2>2, <2>3, <2>4 DEF Unseen
    <2>6. NothingSkipped'
      BY <2>5 DEF NothingSkipped, Unseen
    <2>7. RunsCover'
      BY <2>1, <2>2 DEF IInv, RunsCover
    <2>8. (cursor <= clock)' /\ SettlesLater'
      BY <1>t, <2>1 DEF IInv, SettlesLater
    <2> QED BY <1>0, <2>6, <2>7, <2>8 DEF IInv
  <1>7. ASSUME NEW r \in Runner, Fail(r) PROVE IInv'
    <2>1. /\ UNCHANGED <<clock, created, settled, imported, cursor>>
          /\ \A s \in Runner \ {r} : run'[s] = run[s]
          /\ run'[r].pc = "idle"
      BY <1>7, <1>0 DEF Fail, TypeOK, IdleRun
    <2>2. \A j \in Item : Unseen(j)' <=> Unseen(j)
      BY <2>1 DEF Unseen
    <2>3. NothingSkipped' /\ RunsCover'
      BY <2>1, <2>2 DEF IInv, NothingSkipped, RunsCover, Unseen
    <2> QED BY <1>0, <2>1, <2>3 DEF IInv, SettlesLater
  <1>8. CASE UNCHANGED vars
    <2>1. \A j \in Item : Unseen(j)' <=> Unseen(j)
      BY <1>8 DEF vars, Unseen
    <2> QED BY <1>0, <1>8, <2>1 DEF vars, IInv, NothingSkipped, RunsCover, SettlesLater, Unseen
  <1> QED BY <1>1, <1>2, <1>3, <1>4, <1>5, <1>6, <1>7, <1>8 DEF Next, Continue

\* The window of the next incremental run holds every item that settled within
\* the overlap and that no committed run has imported, however many runs
\* overlap or fail, as long as single modules are not synced on their own and
\* no list is cut at max_items.
THEOREM WindowCovers ==
  ASSUME Unrestricted
  PROVE  Spec => []NothingSkipped
  <1>1. IInv /\ [Next]_vars => IInv'
    BY Inductive
  <1>2. IInv => NothingSkipped
    BY DEF IInv
  <1> QED BY <1>1, <1>2, InitIInv, PTL DEF Spec
=============================================================================
