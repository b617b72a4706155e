------------------------- MODULE SubscriptionsProofs -------------------------
(***************************************************************************)
(* TLAPS proofs about Subscriptions, for any number of administrators,     *)
(* edits and faults.  An operation decides once, on its first listing, and *)
(* acts on it later; the invariants say what it carries along meanwhile.   *)
(***************************************************************************)
EXTENDS Subscriptions, WellFoundedInduction, TLAPS

USE SubscriptionsAssumption

(* ---- The latest subscription ---- *)

\* A bounded set of positive numbers has a greatest: the least upper bound.
LEMMA Latest ==
  ASSUME NEW n \in Nat, NEW S \in SUBSET (1 .. n), S # {}
  PROVE  \E i \in S : \A j \in S : j <= i
  <1> DEFINE B == {m \in Nat : \A j \in S : j <= m}
             R == OpToRel(<, Nat)
  <1>1. n \in B
    OBVIOUS
  <1>2. PICK m \in B : \A k \in B : ~ (<<k, m>> \in R)
    <2>1. IsWellFoundedOn(R, Nat)
      BY NatLessThanWellFounded
    <2>2. B \subseteq Nat /\ B # {}
      BY <1>1
    <2> HIDE DEF B, R
    <2> QED BY <2>1, <2>2, WFMin
  <1>3. \A k \in B : ~ (k < m)
    BY <1>2 DEF OpToRel
  <1>4. m \in S
    <2> SUFFICES ASSUME m \notin S PROVE FALSE
      OBVIOUS
    <2>1. \A j \in S : j <= m - 1 /\ 1 <= j
      OBVIOUS
    <2>2. PICK j \in S : TRUE
      OBVIOUS
    <2>3. m - 1 \in Nat
      BY <2>1, <2>2
    <2> QED BY <1>3, <2>1, <2>3
  <1> QED BY <1>4

\* _choose_subscription returns one of the listed subscriptions, or none.
LEMMA PreferredListed ==
  ASSUME TypeOK, NEW row, NEW S \in SUBSET remote
  PROVE  /\ Preferred(row, S) \in S \cup {0}
         /\ S # {} => Preferred(row, S) \in S
  <1>1. /\ Len(asked) \in Nat /\ DOMAIN asked = 1 .. Len(asked)
        /\ S \in SUBSET (1 .. Len(asked))
    BY DEF TypeOK
  <1>2. S # {} => \E i \in S : \A j \in S : j <= i
    BY <1>1, Latest
  <1> QED BY <1>2 DEF Preferred

(* ---- Types ---- *)

\* Every id anybody holds is that of a subscription that was created.
Created(i) == i = 0 \/ i \in DOMAIN asked

\* Only ensure_subscription creates, and it was given events to ask for.
Sound(j) ==
    /\ Created(j.keep) /\ Created(j.settings.id)
    /\ j.op = "ensure" => j.settings.wanted # NoEvents
    /\ j.pc = "creating" => j.op = "ensure"
    /\ j.pc = "deleting" => j.op # "inspect"

JobsSound == Created(settings.id) /\ \A p \in Process : Sound(job[p])

TypeInv == TypeOK /\ JobsSound

LEMMA IdleJobTyped ==
  /\ IdleJob \in Job
  /\ IdleJob.pc = "idle" /\ IdleJob.op = "inspect" /\ IdleJob.keep = 0
  /\ IdleJob.doomed = {} /\ IdleJob.settings.id = 0
  BY DEF IdleJob, Loaded, Job, Settings, Operation

\* One process moves on and the others do not.
LEMMA JobUpdate ==
  ASSUME TypeOK, NEW p \in Process, NEW j \in Job, job' = [job EXCEPT ![p] = j]
  PROVE  /\ job' \in [Process -> Job] /\ job'[p] = j
         /\ \A q \in Process \ {p} : job'[q] = job[q]
  BY DEF TypeOK

\* A save outdates the others and changes nothing else of them.
LEMMA OutdatedTyped ==
  ASSUME TypeOK
  PROVE  /\ Outdated \in [Process -> Job]
         /\ \A q \in Process : /\ Outdated[q].keep = job[q].keep
                               /\ Outdated[q].settings = job[q].settings
                               /\ Outdated[q].doomed = job[q].doomed
                               /\ Outdated[q].pc = job[q].pc
                               /\ Outdated[q].op = job[q].op
                               /\ Outdated[q].status = job[q].status
                               /\ Outdated[q].secret = job[q].secret
  <1>1. \A q \in Process : job[q] \in Job
    BY DEF TypeOK
  <1> QED BY <1>1, ZenonT(40) DEF Outdated, Job

LEMMA SavedJobs ==
  ASSUME TypeOK, NEW p \in Process, NEW row, Saved(p, row)
  PROVE  /\ settings' = row /\ job' \in [Process -> Job] /\ job'[p] = IdleJob
         /\ \A q \in Process \ {p} : job'[q] = Outdated[q]
  <1>1. Outdated \in [Process -> Job]
    BY OutdatedTyped
  <1> QED BY <1>1, IdleJobTyped DEF Saved

LEMMA TypeInit == Init => TypeInv
  <1> SUFFICES ASSUME Init PROVE TypeInv
    OBVIOUS
  <1>0. PICK on \in BOOLEAN, w \in Config \cup {NoEvents} :
          settings = [enabled |-> on, wanted |-> w, id |-> 0, secret |-> 0, status |-> ""]
    BY DEF Init
  <1>1. settings \in Settings /\ settings.id = 0
    BY <1>0 DEF Settings
  <1>2. /\ job \in [Process -> Job]
        /\ \A p \in Process : job[p] = IdleJob
    BY IdleJobTyped DEF Init
  <1>3. shown \in BOOLEAN /\ asked \in Seq(Config) /\ remote \subseteq DOMAIN asked
    <2>1. shown \in BOOLEAN /\ asked = <<>> /\ remote = {}
      BY DEF Init
    <2> QED BY <2>1
  <1>4. edits \in Nat /\ faults \in Nat
    BY DEF Init
  <1> QED BY <1>1, <1>2, <1>3, <1>4, IdleJobTyped DEF TypeInv, TypeOK, JobsSound, Sound, Created

\* A step of one process within its operation.
LEMMA OwnStep ==
  ASSUME TypeInv, NEW p \in Process, NEW j \in Job, job' = [job EXCEPT ![p] = j],
         UNCHANGED <<shown, asked, settings>>, remote' \subseteq DOMAIN asked,
         edits' \in Nat, faults' \in Nat,
         Sound(j), j.doomed \subseteq DOMAIN asked
  PROVE  TypeInv'
  <1>1. TypeOK
    BY DEF TypeInv
  <1>2. /\ job' \in [Process -> Job] /\ job'[p] = j
        /\ \A q \in Process \ {p} : job'[q] = job[q]
    BY <1>1, JobUpdate
  <1> QED BY <1>2 DEF TypeInv, TypeOK, JobsSound, Sound, Created

\* Somebody saves a row, whatever happens to subscriptions meanwhile.
LEMMA SaveStep ==
  ASSUME TypeInv, NEW p \in Process, NEW row \in Settings, Saved(p, row), UNCHANGED shown,
         DOMAIN asked \subseteq DOMAIN asked', asked' \in Seq(Config),
         remote' \subseteq DOMAIN asked', edits' \in Nat, faults' \in Nat, Created(row.id)
  PROVE  TypeInv'
  <1>1. TypeOK
    BY DEF TypeInv
  <1>2. /\ settings' = row /\ job' \in [Process -> Job] /\ job'[p] = IdleJob
        /\ \A q \in Process \ {p} : job'[q] = Outdated[q]
    BY <1>1, SavedJobs
  <1>3. \A q \in Process : Sound(job[q]) /\ job[q].doomed \subseteq DOMAIN asked
    BY DEF TypeInv, TypeOK, JobsSound
  <1>4. \A q \in Process : Sound(job[q])' /\ job'[q].doomed \subseteq DOMAIN asked
    BY <1>1, <1>2, <1>3, OutdatedTyped, IdleJobTyped DEF Created, Sound
  <1> QED BY <1>2, <1>4 DEF TypeInv, TypeOK, JobsSound, Sound, Created

LEMMA StatusTyped ==
  ASSUME NEW row, NEW S
  PROVE  Status(row, S) \in {"Configured", "Needs Repair", "Missing"}
  BY DEF Status

LEMMA SecretTyped ==
  ASSUME NEW row \in Settings, NEW i \in Nat
  PROVE  Secret(row, i) \in Nat
  BY DEF Secret, Settings

LEMMA UsableListed ==
  ASSUME NEW row, NEW S
  PROVE  Usable(row, S) \subseteq S
  BY DEF Usable, Matching

LEMMA TypeStep == TypeInv /\ [Next]_vars => TypeInv'
  <1> SUFFICES ASSUME TypeInv, [Next]_vars PROVE TypeInv'
    OBVIOUS
  <1>0. /\ TypeOK /\ remote \subseteq DOMAIN asked /\ asked \in Seq(Config)
        /\ DOMAIN asked = 1 .. Len(asked) /\ Len(asked) \in Nat
        /\ settings \in Settings /\ edits \in Nat /\ faults \in Nat
        /\ Created(settings.id)
    BY DEF TypeInv, TypeOK, JobsSound
  <1>j. \A p \in Process :
          /\ job[p] \in Job /\ job[p].settings \in Settings /\ job[p].keep \in Nat
          /\ job[p].doomed \subseteq DOMAIN asked
          /\ Sound(job[p]) /\ Created(job[p].keep) /\ Created(job[p].settings.id)
    BY DEF TypeInv, TypeOK, JobsSound, Sound, Job
  <1>p. ASSUME NEW row, NEW S \in SUBSET remote
        PROVE  Preferred(row, S) \in Nat /\ Created(Preferred(row, S))
    BY <1>0, PreferredListed DEF Created
  <1>f. Fault => faults' \in Nat
    BY <1>0 DEF Fault
  <1>e. Edit => edits' \in Nat
    BY <1>0 DEF Edit
  <1>1. ASSUME NEW p \in Process, NEW op \in Operation, Begin(p, op), edits' \in Nat
        PROVE  TypeInv'
    <2> DEFINE j == Loaded(op, settings)
    <2>1. /\ j \in Job /\ j.keep = 0 /\ j.settings = settings /\ j.doomed = {}
          /\ j.pc = "loaded" /\ j.op = op
      BY <1>0 DEF Loaded, Job
    <2>2. job' = [job EXCEPT ![p] = j]
      BY <1>1 DEF Begin
    <2>3. UNCHANGED <<shown, asked, remote, settings, faults>>
          /\ (op = "ensure" => settings.wanted # NoEvents)
      BY <1>1 DEF Begin
    <2> HIDE DEF j
    <2>4. Sound(j)
      BY <1>0, <2>1, <2>3 DEF Sound, Created
    <2> QED BY <1>0, <1>1, <2>1, <2>2, <2>3, <2>4, OwnStep
  <1>2. ASSUME NEW p \in Process, ListToInspect(p) PROVE TypeInv'
    <2> DEFINE row == job[p].settings
               keep == Preferred(row, remote)
               status == Status(row, remote)
               secret == Secret(row, keep)
               j == [job[p] EXCEPT !.pc = "saving", !.keep = keep, !.status = status,
                                   !.secret = secret]
    <2>1. keep \in Nat /\ Created(keep)
      BY <1>p
    <2>2. status \in {"Configured", "Needs Repair", "Missing"}
      BY StatusTyped
    <2>3. secret \in Nat
      BY <2>1, <1>j, SecretTyped
    <2>4. job' = [job EXCEPT ![p] = j] /\ UNCHANGED <<shown, asked, remote, settings, edits, faults>>
      BY <1>2 DEF ListToInspect
    <2>5. /\ j \in Job /\ j.keep = keep /\ j.settings = job[p].settings
          /\ j.doomed = job[p].doomed /\ j.pc = "saving" /\ j.op = job[p].op
      <3> HIDE DEF keep, status, secret
      <3> QED BY <1>j, <2>1, <2>2, <2>3 DEF Job
    <2> HIDE DEF keep, j
    <2>6. Sound(j)
      BY <1>j, <2>1, <2>5 DEF Sound
    <2> QED BY <1>0, <1>j, <2>4, <2>5, <2>6, OwnStep
  <1>3. ASSUME NEW p \in Process, ListToEnsure(p) PROVE TypeInv'
    <2> DEFINE row == job[p].settings
               keep == Preferred(row, Usable(row, remote))
               secret == Secret(row, keep)
               j == [job[p] EXCEPT !.pc = "deleting", !.keep = keep, !.status = "Configured",
                                   !.secret = secret, !.doomed = remote \ {keep}]
    <2>1. keep \in Nat /\ Created(keep)
      BY <1>p, UsableListed
    <2>3. secret \in Nat
      BY <2>1, <1>j, SecretTyped
    <2>4. job' = [job EXCEPT ![p] = j] /\ UNCHANGED <<shown, asked, remote, settings, edits, faults>>
      BY <1>3 DEF ListToEnsure
    <2>5. /\ j \in Job /\ j.keep = keep /\ j.settings = job[p].settings
          /\ j.doomed \subseteq DOMAIN asked /\ j.pc = "deleting" /\ j.op = job[p].op
      <3>1. remote \ {keep} \subseteq DOMAIN asked /\ DOMAIN asked \subseteq Nat
        BY <1>0
      <3> HIDE DEF keep, secret
      <3> QED BY <1>j, <2>1, <2>3, <3>1 DEF Job
    <2> HIDE DEF keep, j
    <2>6. Sound(j)
      BY <1>3, <1>j, <2>1, <2>5 DEF Sound, ListToEnsure
    <2> QED BY <1>0, <1>j, <2>4, <2>5, <2>6, OwnStep
  <1>4. ASSUME NEW p \in Process, ListToRemove(p) PROVE TypeInv'
    <2> DEFINE doomed == remote \cup ({job[p].settings.id} \ {0})
               j == [job[p] EXCEPT !.pc = "deleting", !.status = "Removed", !.doomed = doomed]
    <2>1. doomed \subseteq DOMAIN asked /\ doomed \in SUBSET Nat
      BY <1>0, <1>j DEF Created
    <2>4. job' = [job EXCEPT ![p] = j] /\ UNCHANGED <<shown, asked, remote, settings, edits, faults>>
      BY <1>4 DEF ListToRemove
    <2>5. /\ j \in Job /\ j.keep = job[p].keep /\ j.settings = job[p].settings
          /\ j.doomed = doomed /\ j.pc = "deleting" /\ j.op = job[p].op
      <3> HIDE DEF doomed
      <3> QED BY <1>j, <2>1 DEF Job
    <2> HIDE DEF doomed, j
    <2>6. Sound(j)
      BY <1>4, <1>j, <2>5 DEF Sound, ListToRemove
    <2> QED BY <1>0, <1>j, <2>1, <2>4, <2>5, <2>6, OwnStep
  <1>5. ASSUME NEW p \in Process, NEW i \in DOMAIN asked, Delete(p, i) PROVE TypeInv'
    <2> DEFINE j == [job[p] EXCEPT !.doomed = job[p].doomed \ {i}]
    <2>4. /\ job' = [job EXCEPT ![p] = j] /\ UNCHANGED <<shown, asked, settings, edits, faults>>
          /\ remote' = remote \ {i}
      BY <1>5 DEF Delete
    <2>5. /\ j \in Job /\ j.keep = job[p].keep /\ j.settings = job[p].settings
          /\ j.doomed \subseteq DOMAIN asked /\ j.pc = job[p].pc /\ j.op = job[p].op
      BY <1>j DEF Job
    <2> HIDE DEF j
    <2>6. Sound(j)
      BY <1>j, <2>5 DEF Sound
    <2> QED BY <1>0, <1>j, <2>4, <2>5, <2>6, OwnStep
  <1>6. ASSUME NEW p \in Process, Recheck(p) PROVE TypeInv'
    <2> DEFINE pc == CASE job[p].op = "remove" -> "saving"
                       [] job[p].keep # 0 -> "verifying"
                       [] OTHER -> "creating"
    <2>1. pc \in {"saving", "verifying", "creating"}
      OBVIOUS
    <2> DEFINE j == [job[p] EXCEPT !.pc = pc]
    <2>4. job' = [job EXCEPT ![p] = j] /\ UNCHANGED <<shown, asked, remote, settings, edits, faults>>
      BY <1>6 DEF Recheck
    <2>5. /\ j \in Job /\ j.keep = job[p].keep /\ j.settings = job[p].settings
          /\ j.doomed = job[p].doomed /\ j.pc = pc /\ j.op = job[p].op
      <3> HIDE DEF pc
      <3> QED BY <1>j, <2>1 DEF Job
    <2>6. /\ j.op \in Operation /\ j.op # "inspect"
          /\ (pc = "creating" => j.op # "remove")
      BY <1>6, <1>j, <2>5 DEF Job, Sound, Recheck
    <2> HIDE DEF j, pc
    <2>7. Sound(j)
      BY <1>j, <2>1, <2>5, <2>6 DEF Sound, Operation
    <2> QED BY <1>0, <1>j, <2>4, <2>5, <2>7, OwnStep
  <1>7. ASSUME NEW p \in Process, Create(p) PROVE TypeInv'
    <2> DEFINE new == Len(asked) + 1
               j == [job[p] EXCEPT !.pc = "verifying", !.keep = new, !.secret = new]
    <2>1. /\ job' = [job EXCEPT ![p] = j] /\ UNCHANGED <<shown, settings, edits, faults>>
          /\ remote' = remote \cup {new} /\ asked' = Append(asked, job[p].settings.wanted)
      BY <1>7 DEF Create
    <2>2. job[p].settings.wanted \in Config
      BY <1>7, <1>j DEF Create, Sound, Settings
    <2>3. /\ asked' \in Seq(Config) /\ DOMAIN asked' = 1 .. new /\ new \in Nat
          /\ DOMAIN asked \subseteq DOMAIN asked' /\ new \in DOMAIN asked'
      BY <1>0, <2>1, <2>2
    <2>4. /\ j \in Job /\ j.keep = new /\ j.settings = job[p].settings
          /\ j.doomed = job[p].doomed /\ j.pc = "verifying" /\ j.op = job[p].op
      <3> HIDE DEF new
      <3> QED BY <1>j, <2>3 DEF Job
    <2>5. /\ job' \in [Process -> Job] /\ job'[p] = j
          /\ \A q \in Process \ {p} : job'[q] = job[q]
      <3> HIDE DEF j
      <3> QED BY <1>0, <2>1, <2>4, JobUpdate
    <2> HIDE DEF new, j
    <2>6. remote' \subseteq DOMAIN asked'
      BY <1>0, <2>1, <2>3
    <2>7. \A q \in Process : Sound(job[q])' /\ job'[q].doomed \subseteq DOMAIN asked'
      BY <1>j, <2>3, <2>4, <2>5 DEF Created, Sound
    <2>8. Created(settings.id)'
      BY <1>0, <2>1, <2>3 DEF Created
    <2> QED BY <1>0, <2>1, <2>3, <2>5, <2>6, <2>7, <2>8 DEF TypeInv, TypeOK, JobsSound
  <1>8. ASSUME NEW p \in Process, Verify(p) PROVE TypeInv'
    <2> DEFINE j == [job[p] EXCEPT !.pc = "saving"]
    <2>4. job' = [job EXCEPT ![p] = j] /\ UNCHANGED <<shown, asked, remote, settings, edits, faults>>
      BY <1>8 DEF Verify
    <2>5. /\ j \in Job /\ j.keep = job[p].keep /\ j.settings = job[p].settings
          /\ j.doomed = job[p].doomed /\ j.pc = "saving" /\ j.op = job[p].op
      BY <1>j DEF Job
    <2> HIDE DEF j
    <2>6. Sound(j)
      BY <1>j, <2>5 DEF Sound
    <2> QED BY <1>0, <1>j, <2>4, <2>5, <2>6, OwnStep
  <1>9. ASSUME NEW p \in Process, Save(p) PROVE TypeInv'
    <2> DEFINE row == [job[p].settings EXCEPT !.id = job[p].keep, !.status = job[p].status,
                                              !.secret = job[p].secret]
    <2>1. row \in Settings /\ row.id = job[p].keep
      BY <1>j, ZenonT(40) DEF Job, Settings
    <2>2. Saved(p, row) /\ UNCHANGED <<shown, asked, remote, edits, faults>>
      BY <1>9 DEF Save
    <2> HIDE DEF row
    <2> QED BY <1>0, <1>j, <2>1, <2>2, SaveStep
  <1>10. ASSUME NEW p \in Process, Raise(p), UNCHANGED shown, edits' \in Nat, faults' \in Nat,
                DOMAIN asked \subseteq DOMAIN asked', asked' \in Seq(Config),
                remote' \subseteq DOMAIN asked'
         PROVE  TypeInv'
    <2>1. CASE job' = [job EXCEPT ![p] = IdleJob] /\ UNCHANGED settings
      <3>1. /\ job' \in [Process -> Job] /\ job'[p] = IdleJob
            /\ \A q \in Process \ {p} : job'[q] = job[q]
        BY <1>0, <2>1, IdleJobTyped, JobUpdate
      <3>2. \A q \in Process : Sound(job[q])' /\ job'[q].doomed \subseteq DOMAIN asked'
        BY <1>j, <1>10, <3>1, IdleJobTyped DEF Sound, Created
      <3>3. Created(settings.id)'
        BY <1>0, <1>10, <2>1 DEF Created
      <3> QED BY <1>0, <1>10, <2>1, <3>1, <3>2, <3>3 DEF TypeInv, TypeOK, JobsSound
    <2>2. CASE Saved(p, [settings EXCEPT !.status = "Error"])
      <3> DEFINE row == [settings EXCEPT !.status = "Error"]
      <3>1. row \in Settings /\ row.id = settings.id
        BY <1>0 DEF Settings
      <3>2. Saved(p, row)
        BY <2>2
      <3> HIDE DEF row
      <3> QED BY <1>0, <1>10, <3>1, <3>2, SaveStep
    <2> QED BY <1>10, <2>1, <2>2 DEF Raise
  <1>11. ASSUME NEW p \in Process, Conflict(p) PROVE TypeInv'
    BY <1>0, <1>10, <1>11 DEF Conflict
  <1>12. ASSUME NEW p \in Process, Fail(p) PROVE TypeInv'
    <2>1. Raise(p) /\ Fault /\ UNCHANGED <<shown, edits>>
      BY <1>12 DEF Fail
    <2>2. CASE UNCHANGED <<asked, remote>>
      BY <1>0, <1>f, <1>10, <2>1, <2>2
    <2>3. CASE /\ job[p].pc = "creating"
               /\ asked' = Append(asked, job[p].settings.wanted)
               /\ remote' = remote \cup {Len(asked) + 1}
      <3>1. job[p].settings.wanted \in Config
        BY <1>j, <2>3 DEF Sound, Settings
      <3>2. /\ asked' \in Seq(Config) /\ DOMAIN asked' = 1 .. (Len(asked) + 1)
            /\ DOMAIN asked \subseteq DOMAIN asked' /\ remote' \subseteq DOMAIN asked'
        BY <1>0, <2>3, <3>1
      <3> QED BY <1>0, <1>f, <1>10, <2>1, <3>2
    <2> QED BY <1>12, <2>2, <2>3 DEF Fail
  <1>13. ASSUME NEW on \in BOOLEAN, NEW w \in Config \cup {NoEvents}, EditSettings(on, w)
         PROVE  TypeInv'
    <2>1. /\ settings' = [settings EXCEPT !.enabled = on, !.wanted = w]
          /\ job' = Outdated /\ Edit /\ UNCHANGED <<shown, asked, remote, faults>>
      BY <1>13 DEF EditSettings
    <2>2. settings' \in Settings /\ settings'.id = settings.id
      BY <1>0, <2>1 DEF Settings
    <2>3. \A q \in Process : Sound(job[q])' /\ job'[q].doomed \subseteq DOMAIN asked
      BY <1>0, <1>j, <2>1, OutdatedTyped DEF Sound, Created
    <2>4. job' \in [Process -> Job]
      BY <1>0, <2>1, OutdatedTyped
    <2> QED BY <1>0, <1>e, <2>1, <2>2, <2>3, <2>4 DEF TypeInv, TypeOK, JobsSound, Created
  <1>14. ASSUME NEW i \in DOMAIN asked, DeleteElsewhere(i) PROVE TypeInv'
    BY <1>0, <1>f, <1>14 DEF DeleteElsewhere, TypeInv, TypeOK, JobsSound, Sound, Created
  <1>15. CASE UNCHANGED vars
    BY <1>15 DEF vars, TypeInv, TypeOK, JobsSound, Sound, Created
  <1>16. ASSUME NEW p \in Process, Continue(p) PROVE TypeInv'
    BY <1>2, <1>3, <1>4, <1>5, <1>6, <1>7, <1>8, <1>9, <1>11, <1>16 DEF Continue
  <1>17. CASE BeginHourly
    BY <1>0, <1>1, <1>17 DEF BeginHourly, Operation, Process
  <1>18. ASSUME NEW p \in Administrator, NEW op \in Operation, BeginByHand(p, op)
         PROVE  TypeInv'
    BY <1>1, <1>e, <1>18 DEF BeginByHand, Process
  <1> QED BY <1>12, <1>13, <1>14, <1>15, <1>16, <1>17, <1>18 DEF Next, PassOver

\* Every variable keeps its type: no interleaving makes an operation ask for a
\* subscription that was never created, or subscribe to no events.
THEOREM TypeCorrect == Spec => []TypeOK
  <1>1. TypeInv => TypeOK
    BY DEF TypeInv
  <1> QED BY <1>1, TypeInit, TypeStep, PTL DEF Spec

(* ---- What is shown as Configured verifies ---- *)

\* Whoever holds an id and a secret: if they do not belong together, the
\* answers show no secrets and the subscription of the secret is gone.
Kept(id, secret) == Created(secret) /\ (shown \/ Fits(id, secret))

\* What is going to be shown as Configured.
Good(id, secret) == id # 0 /\ secret # 0 /\ Fits(id, secret)

\* The secret an operation carries, from the listing to the save.  A repair
\* that keeps a subscription holds another's secret at most until the second
\* listing: it shows that the other is gone.
Secured(j) ==
    /\ Created(j.secret)
    /\ Kept(j.settings.id, j.settings.secret)
    /\ j.pc = "loaded" => j.keep = 0 /\ j.secret = 0
    /\ j.pc = "deleting" /\ j.keep # 0 => j.secret # 0 /\ (shown => j.secret = j.keep)
    /\ j.pc = "deleting" /\ j.op = "remove" =>
          j.status = "Removed" /\ j.keep = 0 /\ j.secret = 0
    /\ j.pc = "verifying" => Good(j.keep, j.secret)
    /\ j.pc = "saving" => Kept(j.keep, j.secret)
    /\ j.pc = "saving" /\ j.status = "Configured" => Good(j.keep, j.secret)

JobsSecured == \A p \in Process : Secured(job[p])

IInv == TypeInv /\ ConfiguredVerifies /\ Kept(settings.id, settings.secret) /\ JobsSecured

LEMMA IdleJobSecured == Secured(IdleJob)
  <1>1. /\ IdleJob.settings.id = 0 /\ IdleJob.settings.secret = 0 /\ IdleJob.secret = 0
        /\ IdleJob.pc = "idle"
    BY DEF IdleJob, Loaded
  <1> QED BY <1>1 DEF Secured, Kept, Fits, Created

LEMMA InitIInv == Init => IInv
  <1> SUFFICES ASSUME Init PROVE IInv
    OBVIOUS
  <1>1. JobsSecured
    BY IdleJobSecured DEF Init, JobsSecured
  <1>2. settings.status # "Configured" /\ settings.id = 0 /\ settings.secret = 0
    <2>1. PICK on \in BOOLEAN, w \in Config \cup {NoEvents} :
            settings = [enabled |-> on, wanted |-> w, id |-> 0, secret |-> 0, status |-> ""]
      BY DEF Init
    <2> QED BY <2>1
  <1> QED BY <1>1, <1>2, TypeInit DEF IInv, ConfiguredVerifies, Kept, Fits, Created

\* A subscription comes only as a new one, and the answers are what they are.
Grows ==
    /\ shown' = shown
    /\ DOMAIN asked \subseteq DOMAIN asked'
    /\ remote' \subseteq remote \cup {Len(asked) + 1}

LEMMA NextGrows == TypeInv /\ [Next]_vars => Grows
  <1> SUFFICES ASSUME TypeInv, [Next]_vars PROVE Grows
    OBVIOUS
  <1>0. asked \in Seq(Config) /\ \A p \in Process : job[p] \in Job
    BY DEF TypeInv, TypeOK
  <1>1. ASSUME NEW p \in Process, job[p].pc = "creating",
               asked' = Append(asked, job[p].settings.wanted)
        PROVE  DOMAIN asked \subseteq DOMAIN asked'
    <2>1. job[p].settings.wanted \in Config
      <3>1. Sound(job[p]) /\ job[p].settings \in Settings
        BY <1>0 DEF TypeInv, JobsSound, Job
      <3> QED BY <1>1, <3>1 DEF Sound, Settings
    <2> QED BY <1>0, <1>1, <2>1
  <1>2. ASSUME UNCHANGED <<shown, asked>>, remote' \subseteq remote
        PROVE  Grows
    BY <1>2 DEF Grows
  <1>3. ASSUME NEW p \in Process, Continue(p) PROVE Grows
    <2>1. CASE Create(p)
      BY <1>1, <2>1 DEF Create, Grows
    <2>2. CASE \E i \in DOMAIN asked : Delete(p, i)
      BY <1>2, <2>2 DEF Delete
    <2>3. CASE ListToInspect(p) \/ ListToEnsure(p) \/ ListToRemove(p)
      BY <1>2, <2>3 DEF ListToInspect, ListToEnsure, ListToRemove
    <2>4. CASE Recheck(p) \/ Verify(p) \/ Save(p) \/ Conflict(p)
      BY <1>2, <2>4 DEF Recheck, Verify, Save, Conflict
    <2> QED BY <1>3, <2>1, <2>2, <2>3, <2>4 DEF Continue
  <1>4. ASSUME NEW p \in Process, Fail(p) PROVE Grows
    BY <1>1, <1>4 DEF Fail, Grows
  <1>5. CASE UNCHANGED vars
    BY <1>2, <1>5 DEF vars
  <1>6. CASE BeginHourly \/ PassOver
    BY <1>2, <1>6 DEF BeginHourly, Begin, PassOver, vars
  <1>7. ASSUME NEW p \in Administrator, NEW op \in Operation, BeginByHand(p, op)
        PROVE  Grows
    BY <1>2, <1>7 DEF BeginByHand, Begin
  <1>8. ASSUME NEW on \in BOOLEAN, NEW w \in Config \cup {NoEvents}, EditSettings(on, w)
        PROVE  Grows
    BY <1>2, <1>8 DEF EditSettings
  <1>9. ASSUME NEW i \in DOMAIN asked, DeleteElsewhere(i) PROVE Grows
    BY <1>2, <1>9 DEF DeleteElsewhere
  <1> QED BY <1>3, <1>4, <1>5, <1>6, <1>7, <1>8, <1>9 DEF Next

\* What is known of an id and a secret outlasts whatever others do: a new
\* subscription has a new secret.
LEMMA Stays ==
  ASSUME TypeOK, Grows, NEW id, NEW secret, Created(secret)
  PROVE  /\ Created(secret)'
         /\ Fits(id, secret) => Fits(id, secret)'
         /\ Kept(id, secret) => Kept(id, secret)'
         /\ Good(id, secret) => Good(id, secret)'
  <1>1. secret # Len(asked) + 1 \/ secret = 0
    BY DEF TypeOK, Created
  <1>2. Len(asked) + 1 # 0 /\ 0 \notin remote
    BY DEF TypeOK
  <1>3. Created(secret)'
    BY DEF Grows, Created
  <1>4. Fits(id, secret) => Fits(id, secret)'
    BY <1>1, <1>2 DEF Grows, Fits
  <1>5. Kept(id, secret) => Kept(id, secret)'
    BY <1>3, <1>4 DEF Grows, Kept
  <1> QED BY <1>3, <1>4, <1>5 DEF Good

LEMMA SecuredStays ==
  ASSUME TypeOK, Grows, NEW j, Secured(j)
  PROVE  Secured(j)'
  <1>1. Created(j.secret) /\ Created(j.settings.secret) /\ shown' = shown
    BY DEF Secured, Kept, Grows
  <1>2. /\ Created(j.secret)'
        /\ Kept(j.settings.id, j.settings.secret)'
        /\ Kept(j.keep, j.secret) => Kept(j.keep, j.secret)'
        /\ Good(j.keep, j.secret) => Good(j.keep, j.secret)'
    BY <1>1, Stays DEF Secured
  <1> QED BY <1>1, <1>2 DEF Secured

LEMMA Inductive ==
  ASSUME IInv, [Next]_vars
  PROVE  IInv'
  <1>0. /\ TypeInv /\ TypeInv' /\ TypeOK /\ ConfiguredVerifies /\ Grows
        /\ Kept(settings.id, settings.secret)
    BY TypeStep, NextGrows DEF IInv, TypeInv
  <1>j. \A p \in Process : job[p] \in Job /\ Secured(job[p])
    BY <1>0 DEF IInv, JobsSecured, TypeOK
  <1>z. 0 \notin remote
    BY <1>0 DEF TypeOK
  <1>s. \A p \in Process : Secured(job[p]) /\ \A j : Secured(j) => Secured(j)'
    BY <1>0, <1>j, SecuredStays
  <1>k. Kept(settings.id, settings.secret)' \/ settings' # settings
    BY <1>0, Stays DEF Kept
  <1>c. ConfiguredVerifies' \/ settings' # settings
    <2>1. Good(settings.id, settings.secret) => Good(settings.id, settings.secret)'
            \/ settings' # settings
      BY <1>0, Stays DEF Kept
    <2> QED BY <1>0, <2>1 DEF ConfiguredVerifies, Good
  <1>1. ASSUME NEW p \in Process, NEW j \in Job, job' = [job EXCEPT ![p] = j],
               Secured(j)', UNCHANGED settings
        PROVE  IInv'
    <2>1. job'[p] = j /\ \A q \in Process \ {p} : job'[q] = job[q]
      BY <1>0, <1>1, JobUpdate
    <2>2. \A q \in Process : Secured(job[q])'
      <3>1. Secured(job[p])'
        BY <1>1, <2>1 DEF Secured
      <3>2. ASSUME NEW q \in Process \ {p} PROVE Secured(job[q])'
        <4>1. PICK m : m = job[q]
          OBVIOUS
        <4>2. Secured(m)'
          BY <1>s, <4>1
        <4>3. job'[q] = m
          BY <2>1, <4>1
        <4> QED BY <4>2, <4>3 DEF Secured
      <3> QED BY <3>1, <3>2
    <2> QED BY <1>0, <1>1, <1>k, <1>c, <2>2 DEF IInv, JobsSecured
  <1>2. ASSUME NEW p \in Process, NEW row, Saved(p, row), Kept(row.id, row.secret)',
               row.status = "Configured" => Good(row.id, row.secret)'
        PROVE  IInv'
    <2>1. /\ settings' = row /\ job'[p] = IdleJob
          /\ \A q \in Process \ {p} : job'[q] = Outdated[q]
      BY <1>0, <1>2, SavedJobs
    <2>2. \A q \in Process : Secured(job[q])'
      <3>1. Secured(IdleJob)'
        BY <1>s, IdleJobSecured, <1>0, SecuredStays
      <3>2. Secured(job[p])'
        BY <2>1, <3>1 DEF Secured
      <3>3. ASSUME NEW q \in Process \ {p} PROVE Secured(job[q])'
        <4>1. PICK m : m = job[q]
          OBVIOUS
        <4>2. Secured(m)'
          BY <1>s, <4>1
        <4>3. /\ job'[q].pc = m.pc /\ job'[q].op = m.op /\ job'[q].settings = m.settings
              /\ job'[q].keep = m.keep /\ job'[q].status = m.status
              /\ job'[q].secret = m.secret
          BY <1>0, <2>1, <4>1, OutdatedTyped
        <4> QED BY <4>2, <4>3 DEF Secured
      <3> QED BY <3>2, <3>3
    <2>3. Kept(settings.id, settings.secret)' /\ ConfiguredVerifies'
      BY <1>2, <2>1 DEF Kept, Good, Fits, Created, ConfiguredVerifies
    <2> QED BY <1>0, <2>2, <2>3 DEF IInv, JobsSecured
  <1>3. ASSUME NEW p \in Process, NEW op \in Operation, Begin(p, op) PROVE IInv'
    <2> DEFINE j == Loaded(op, settings)
    <2>1. /\ j \in Job /\ j.pc = "loaded" /\ j.keep = 0 /\ j.secret = 0
          /\ j.settings = settings
      BY <1>0 DEF Loaded, Job, TypeOK
    <2>2. job' = [job EXCEPT ![p] = j] /\ UNCHANGED settings
      BY <1>3 DEF Begin
    <2> HIDE DEF j
    <2>3. Secured(j)
      BY <1>0, <2>1 DEF Secured, Created
    <2> QED BY <1>1, <1>s, <2>1, <2>2, <2>3
  <1>4. ASSUME NEW p \in Process, ListToInspect(p) PROVE IInv'
    <2> DEFINE row == job[p].settings
               keep == Preferred(row, remote)
               status == Status(row, remote)
               secret == Secret(row, keep)
               j == [job[p] EXCEPT !.pc = "saving", !.keep = keep, !.status = status,
                                   !.secret = secret]
    <2>1. job' = [job EXCEPT ![p] = j] /\ UNCHANGED settings
      BY <1>4 DEF ListToInspect
    <2>2. j \in Job
      <3> HIDE DEF j
      <3> QED BY <1>0, <2>1 DEF TypeInv, TypeOK
    <2>3. Kept(row.id, row.secret)
      BY <1>j DEF Secured
    <2>4. Created(keep) /\ (row.id \in remote => keep = row.id)
      BY <1>0, PreferredListed DEF Preferred, Created, TypeOK
    <2>5. Kept(keep, secret)
      <3>1. Created(secret)
        BY <2>3, <2>4 DEF Kept, Secret
      <3>2. ~shown => Fits(keep, secret)
        <4>1. ~shown => secret = row.secret
          BY DEF Secret
        <4> HIDE DEF keep, secret
        <4> QED BY <2>3, <2>4, <4>1 DEF Kept, Fits
      <3> QED BY <3>1, <3>2 DEF Kept
    <2>6. status = "Configured" => Good(keep, secret)
      <3>1. status = "Configured" => keep \in remote /\ secret # 0
        BY DEF Status, Matching
      <3>2. shown /\ keep # 0 => secret = keep
        BY DEF Secret
      <3> HIDE DEF keep, status, secret
      <3> QED BY <1>z, <2>5, <3>1, <3>2 DEF Good, Kept, Fits
    <2>7. /\ j.pc = "saving" /\ j.keep = keep /\ j.status = status /\ j.secret = secret
          /\ j.settings = row
      <3> HIDE DEF keep, status, secret
      <3> QED BY <1>j DEF Job
    <2> HIDE DEF j, keep, status, secret
    <2>8. Secured(j)
      BY <2>3, <2>5, <2>6, <2>7 DEF Secured, Kept
    <2> QED BY <1>1, <1>s, <2>1, <2>2, <2>8
  <1>5. ASSUME NEW p \in Process, ListToEnsure(p) PROVE IInv'
    <2> DEFINE row == job[p].settings
               usable == Usable(row, remote)
               keep == Preferred(row, usable)
               secret == Secret(row, keep)
               j == [job[p] EXCEPT !.pc = "deleting", !.keep = keep, !.status = "Configured",
                                   !.secret = secret, !.doomed = remote \ {keep}]
    <2>1. job' = [job EXCEPT ![p] = j] /\ UNCHANGED settings /\ job[p].op = "ensure"
      BY <1>5 DEF ListToEnsure
    <2>2. j \in Job
      <3> HIDE DEF j
      <3> QED BY <1>0, <2>1 DEF TypeInv, TypeOK
    <2>3. Kept(row.id, row.secret)
      BY <1>j DEF Secured
    <2>4. Created(keep) /\ (keep # 0 => usable # {})
      <3>1. usable \subseteq remote
        BY UsableListed
      <3> QED BY <1>0, <3>1, PreferredListed DEF Preferred, Created, TypeOK
    <2>5. Created(secret)
      BY <2>3, <2>4 DEF Kept, Secret
    <2>6. keep # 0 => secret # 0 /\ (shown => secret = keep)
      BY <2>4 DEF Usable, Secret
    <2>7. /\ j.pc = "deleting" /\ j.keep = keep /\ j.op = job[p].op /\ j.secret = secret
          /\ j.settings = row
      <3> HIDE DEF keep, secret
      <3> QED BY <1>j DEF Job
    <2> HIDE DEF j, keep, secret
    <2>8. Secured(j)
      BY <2>1, <2>3, <2>5, <2>6, <2>7 DEF Secured
    <2> QED BY <1>1, <1>s, <2>1, <2>2, <2>8
  <1>6. ASSUME NEW p \in Process, ListToRemove(p) PROVE IInv'
    <2> DEFINE j == [job[p] EXCEPT !.pc = "deleting", !.status = "Removed",
                          !.doomed = remote \cup ({job[p].settings.id} \ {0})]
    <2>1. job' = [job EXCEPT ![p] = j] /\ UNCHANGED settings
      BY <1>6 DEF ListToRemove
    <2>2. j \in Job
      <3> HIDE DEF j
      <3> QED BY <1>0, <2>1 DEF TypeInv, TypeOK
    <2>3. Secured(j)
      <3>1. job[p].pc = "loaded" /\ job[p].op = "remove"
        BY <1>6 DEF ListToRemove
      <3>2. /\ j.pc = "deleting" /\ j.status = "Removed" /\ j.keep = job[p].keep
            /\ j.secret = job[p].secret /\ j.settings = job[p].settings
        BY <1>j DEF Job
      <3> HIDE DEF j
      <3> QED BY <1>j, <3>1, <3>2 DEF Secured
    <2> HIDE DEF j
    <2> QED BY <1>1, <1>s, <2>1, <2>2, <2>3
  <1>7. ASSUME NEW p \in Process, Verify(p) PROVE IInv'
    <2> DEFINE j == [job[p] EXCEPT !.pc = "saving"]
    <2>1. job' = [job EXCEPT ![p] = j] /\ UNCHANGED settings
      BY <1>7 DEF Verify
    <2>2. j \in Job
      <3> HIDE DEF j
      <3> QED BY <1>0, <2>1 DEF TypeInv, TypeOK
    <2>3. Secured(j)
      <3>1. job[p].pc = "verifying"
        BY <1>7 DEF Verify
      <3>2. /\ j.pc = "saving" /\ j.keep = job[p].keep
            /\ j.secret = job[p].secret /\ j.settings = job[p].settings
        BY <1>j DEF Job
      <3> HIDE DEF j
      <3> QED BY <1>j, <3>1, <3>2 DEF Secured, Good, Kept
    <2> HIDE DEF j
    <2> QED BY <1>1, <1>s, <2>1, <2>2, <2>3
  <1>8. ASSUME NEW p \in Process, Create(p) PROVE IInv'
    <2> DEFINE new == Len(asked) + 1
               j == [job[p] EXCEPT !.pc = "verifying", !.keep = new, !.secret = new]
    <2>1. job' = [job EXCEPT ![p] = j] /\ UNCHANGED settings
      BY <1>8 DEF Create
    <2>2. j \in Job /\ job'[p] = j
      <3> HIDE DEF j
      <3> QED BY <1>0, <2>1 DEF TypeInv, TypeOK
    <2>3. new # 0
      BY <1>0 DEF TypeOK
    <2>4. /\ j.pc = "verifying" /\ j.keep = new /\ j.secret = new
          /\ j.settings = job[p].settings
      <3> HIDE DEF new
      <3> QED BY <1>j, <2>3 DEF Job
    <2> HIDE DEF j, new
    <2>5. PICK k \in Job : k = j
      BY <2>2
    <2>6. job' = [job EXCEPT ![p] = k] /\ job'[p] = k
      BY <2>1, <2>2, <2>5
    <2>7. /\ k.pc = "verifying" /\ k.keep # 0 /\ k.secret = k.keep
          /\ k.settings = job[p].settings
      BY <2>3, <2>4, <2>5
    <2>8. Created(k.keep)'
      <3>1. Sound(job[p])'
        BY <1>0 DEF TypeInv, JobsSound
      <3> QED BY <2>6, <3>1 DEF Sound, Created
    <2>9. Kept(k.settings.id, k.settings.secret)'
      <3>1. Kept(k.settings.id, k.settings.secret)
        BY <1>j, <2>7 DEF Secured
      <3> QED BY <1>0, <3>1, Stays DEF Kept
    <2>10. Secured(k)'
      BY <2>7, <2>8, <2>9 DEF Secured, Good, Fits, Created
    <2> QED BY <1>1, <2>1, <2>6, <2>10
  <1>9. ASSUME NEW p \in Process, NEW i, Delete(p, i) PROVE IInv'
    <2> DEFINE j == [job[p] EXCEPT !.doomed = job[p].doomed \ {i}]
    <2>1. job' = [job EXCEPT ![p] = j] /\ UNCHANGED settings
      BY <1>9 DEF Delete
    <2>2. j \in Job
      <3> HIDE DEF j
      <3> QED BY <1>0, <2>1 DEF TypeInv, TypeOK
    <2>3. Secured(j)
      <3>1. /\ j.pc = job[p].pc /\ j.op = job[p].op /\ j.status = job[p].status
            /\ j.keep = job[p].keep /\ j.secret = job[p].secret
            /\ j.settings = job[p].settings
        BY <1>j DEF Job
      <3> HIDE DEF j
      <3> QED BY <1>j, <3>1 DEF Secured
    <2> HIDE DEF j
    <2> QED BY <1>1, <1>s, <2>1, <2>2, <2>3
  <1>10. ASSUME NEW p \in Process, Recheck(p) PROVE IInv'
    <2> DEFINE pc == CASE job[p].op = "remove" -> "saving"
                       [] job[p].keep # 0 -> "verifying"
                       [] OTHER -> "creating"
               j == [job[p] EXCEPT !.pc = pc]
    <2>1. /\ job' = [job EXCEPT ![p] = j] /\ UNCHANGED settings
          /\ job[p].pc = "deleting" /\ remote = {job[p].keep} \ {0}
      BY <1>10 DEF Recheck
    <2>2. j \in Job
      <3> HIDE DEF j
      <3> QED BY <1>0, <2>1 DEF TypeInv, TypeOK
    <2>3. /\ j.pc = pc /\ j.keep = job[p].keep /\ j.secret = job[p].secret
          /\ j.status = job[p].status /\ j.op = job[p].op /\ j.settings = job[p].settings
      <3> HIDE DEF pc
      <3> QED BY <1>j DEF Job
    <2>4. \/ pc = "saving" /\ job[p].op = "remove"
          \/ pc = "verifying" /\ job[p].keep # 0
          \/ pc = "creating"
      OBVIOUS
    <2>5. Secured(job[p])
      BY <1>j
    <2>6. Fits(job[p].keep, job[p].secret) \/ job[p].keep = 0
      BY <2>1, <2>5 DEF Secured, Fits
    <2> HIDE DEF j, pc
    <2>7. Secured(j)
      <3>1. CASE pc = "saving" /\ job[p].op = "remove"
        BY <2>1, <2>3, <2>5, <3>1 DEF Secured, Kept, Fits
      <3>2. CASE pc = "verifying" /\ job[p].keep # 0
        BY <2>1, <2>3, <2>5, <2>6, <3>2 DEF Secured, Good
      <3>3. CASE pc = "creating"
        BY <2>3, <2>5, <3>3 DEF Secured
      <3> QED BY <2>4, <3>1, <3>2, <3>3
    <2> QED BY <1>1, <1>s, <2>1, <2>2, <2>7
  <1>11. ASSUME NEW p \in Process, Save(p) PROVE IInv'
    <2> DEFINE row == [job[p].settings EXCEPT !.id = job[p].keep, !.status = job[p].status,
                                              !.secret = job[p].secret]
    <2>1. Saved(p, row) /\ job[p].pc = "saving"
      BY <1>11 DEF Save
    <2>2. row.id = job[p].keep /\ row.status = job[p].status /\ row.secret = job[p].secret
      BY <1>j, ZenonT(40) DEF Job, Settings
    <2> HIDE DEF row
    <2>3. PICK m : m = row
      OBVIOUS
    <2>4. Kept(m.id, m.secret) /\ (m.status = "Configured" => Good(m.id, m.secret))
      BY <1>j, <2>1, <2>2, <2>3 DEF Secured
    <2>5. /\ Kept(m.id, m.secret)'
          /\ Good(m.id, m.secret) => Good(m.id, m.secret)'
      BY <1>0, <2>4, Stays DEF Kept
    <2>6. Saved(p, m)
      BY <2>1, <2>3
    <2> QED BY <1>2, <2>4, <2>5, <2>6
  <1>12. ASSUME NEW p \in Process, Raise(p) PROVE IInv'
    <2>1. CASE job' = [job EXCEPT ![p] = IdleJob] /\ UNCHANGED settings
      BY <1>1, <1>s, <2>1, IdleJobTyped, IdleJobSecured
    <2>2. CASE Saved(p, [settings EXCEPT !.status = "Error"])
      <3> DEFINE row == [settings EXCEPT !.status = "Error"]
      <3>1. row.status = "Error" /\ row.id = settings.id /\ row.secret = settings.secret
        BY <1>0 DEF TypeOK, Settings
      <3>2. Saved(p, row)
        BY <2>2
      <3> HIDE DEF row
      <3>3. PICK m : m = row
        OBVIOUS
      <3>4. Kept(m.id, m.secret) /\ m.status = "Error"
        BY <1>0, <3>1, <3>3
      <3>5. Kept(m.id, m.secret)'
        BY <1>0, <3>4, Stays DEF Kept
      <3>6. Saved(p, m)
        BY <3>2, <3>3
      <3> QED BY <1>2, <3>4, <3>5, <3>6
    <2> QED BY <1>12, <2>1, <2>2 DEF Raise
  <1>13. ASSUME NEW on \in BOOLEAN, NEW w \in Config \cup {NoEvents}, EditSettings(on, w)
         PROVE  IInv'
    <2>1. settings' = [settings EXCEPT !.enabled = on, !.wanted = w] /\ job' = Outdated
      BY <1>13 DEF EditSettings
    <2>2. /\ settings'.status = settings.status /\ settings'.id = settings.id
          /\ settings'.secret = settings.secret
      BY <1>0, <2>1 DEF TypeOK, Settings
    <2>3. ASSUME NEW q \in Process PROVE Secured(job[q])'
      <3>1. PICK m : m = job[q]
        OBVIOUS
      <3>2. Secured(m)'
        BY <1>s, <3>1
      <3>3. /\ job'[q].pc = m.pc /\ job'[q].op = m.op /\ job'[q].settings = m.settings
            /\ job'[q].keep = m.keep /\ job'[q].status = m.status
            /\ job'[q].secret = m.secret
        BY <1>0, <2>1, <3>1, OutdatedTyped
      <3> QED BY <3>2, <3>3 DEF Secured
    <2>4. Kept(settings.id, settings.secret)' /\ ConfiguredVerifies'
      <3>1. PICK m : m = settings
        OBVIOUS
      <3>2. /\ Kept(m.id, m.secret)'
            /\ m.status = "Configured" => Good(m.id, m.secret)'
        BY <1>0, <3>1, Stays DEF Kept, ConfiguredVerifies, Good
      <3>3. /\ settings'.status = m.status /\ settings'.id = m.id
            /\ settings'.secret = m.secret
        BY <2>2, <3>1
      <3> QED BY <3>2, <3>3 DEF Kept, Good, Fits, Created, ConfiguredVerifies
    <2> QED BY <1>0, <2>3, <2>4 DEF IInv, JobsSecured
  <1>14. CASE UNCHANGED <<settings, job>>
    <2>1. ASSUME NEW q \in Process PROVE Secured(job[q])'
      <3>1. PICK m : m = job[q]
        OBVIOUS
      <3>2. Secured(m)' /\ job'[q] = m
        BY <1>s, <1>14, <3>1
      <3> QED BY <3>2
    <2> QED BY <1>0, <1>k, <1>c, <1>14, <2>1 DEF IInv, JobsSecured
  <1>15. ASSUME NEW p \in Process, Continue(p) PROVE IInv'
    BY <1>4, <1>5, <1>6, <1>7, <1>8, <1>9, <1>10, <1>11, <1>12, <1>15 DEF Continue, Conflict
  <1>16. CASE BeginHourly
    BY <1>3, <1>16 DEF BeginHourly, Operation, Process
  <1>17. ASSUME NEW p \in Administrator, NEW op \in Operation, BeginByHand(p, op)
         PROVE  IInv'
    BY <1>3, <1>17 DEF BeginByHand, Process
  <1>18. ASSUME NEW p \in Process, Fail(p) PROVE IInv'
    BY <1>12, <1>18 DEF Fail
  <1>19. ASSUME NEW i \in DOMAIN asked, DeleteElsewhere(i) PROVE IInv'
    BY <1>14, <1>19 DEF DeleteElsewhere
  <1>20. CASE UNCHANGED vars
    BY <1>14, <1>20 DEF vars
  <1> QED BY <1>13, <1>15, <1>16, <1>17, <1>18, <1>19, <1>20 DEF Next, PassOver, vars

\* Settings that say Configured hold a subscription and a secret, whatever
\* repairs, removals, edits and crashes interleave: the secret of that
\* subscription, or, if Airwallex' answers show none, possibly that of one
\* that is gone, which ensure_subscription adopts as if it were the right one.
THEOREM ConfiguredIsVerified == Spec => []ConfiguredVerifies
  <1>1. IInv /\ [Next]_vars => IInv'
    BY Inductive
  <1>2. IInv => ConfiguredVerifies
    BY DEF IInv
  <1> QED BY <1>1, <1>2, InitIInv, PTL DEF Spec
=============================================================================
