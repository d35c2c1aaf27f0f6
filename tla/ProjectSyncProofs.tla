------------------------- MODULE ProjectSyncProofs -------------------------
(***************************************************************************)
(* The web client's projects for any number of tabs, browsers and edits:   *)
(* their types; that what waits to be saved is scheduled; that the copies  *)
(* a client holds carry only what the server kept; that no edit is lost;   *)
(* that where tabs only save nothing is overwritten in silence, and what   *)
(* was forgotten is not brought back.                                      *)
(***************************************************************************)
EXTENDS ProjectSync, TLAPS

\* The stages a request of its kind goes through; an answer comes with a copy.
Answered(r, stages) ==
  /\ r.stage \in stages
  /\ r.stage = "none" => r = Idle
  /\ r.stage \in {"served", "stale"} => r.answer \in Copies

\* What the types do not say: a project kept has a version, a save has a project.
Shapes ==
  /\ server.project # None => server.v # 0
  /\ \A t \in Tabs :
       /\ Answered(push[t], {"none", "sent", "served", "stale", "missing", "refused"})
       /\ Answered(get[t], {"none", "sent", "served", "missing"})
       /\ Answered(resolve[t], {"none", "sent", "served"})
       /\ Answered(act[t], {"none", "sent", "served"})
       /\ push[t] # Idle => push[t].project # None
       /\ resolve[t] # Idle => resolve[t].project # None

ProjectTypes == TypeOK /\ Shapes

(* What the proofs take from the assumptions. *)
LEMMA Bounds ==
  /\ MaxEdits \in Nat /\ MaxDataVersion \in Nat /\ MaxRev \in Nat
  /\ MaxDataVersion >= 1 /\ MaxRev >= 1
  /\ Account \in BOOLEAN /\ Home \in [Tabs -> Browsers]
  BY ProjectSyncAssumption

-----------------------------------------------------------------------------
(* The values. *)

LEMMA StatesKnown ==
  /\ "none" \in SyncStates /\ "saved" \in SyncStates /\ "saving" \in SyncStates
  /\ "offline" \in SyncStates /\ "conflict" \in SyncStates /\ "local" \in SyncStates
  BY DEF SyncStates

(* The values Init and the requests begin with are of their types. *)
LEMMA FirstValues ==
  Blank \in Records /\ Idle \in Requests /\ Fresh \in Memories /\ NewProject \in Projects
  BY Bounds DEF Blank, Records, Idle, Requests, Fresh, Memories, NewProject, Projects,
                SyncStates, Stages

LEMMA SyncIsRecord ==
  ASSUME NEW d \in Caches
  PROVE  SyncOf(d) \in Records
  BY FirstValues DEF SyncOf, Caches

(* Whatever a record is written over with, it stays one. *)
LEMMA PatchedIsRecord ==
  ASSUME NEW m \in Records, NEW x \in SyncStates, NEW y \in BOOLEAN, NEW s \in Copies
  PROVE  /\ [m EXCEPT !.state = x] \in Records
         /\ [m EXCEPT !.v = 0, !.state = x] \in Records
         /\ [m EXCEPT !.state = x, !.gone = y] \in Records
         /\ [m EXCEPT !.v = s.v, !.base = s.project] \in Records
         /\ [m EXCEPT !.v = s.v, !.base = s.project, !.dirty = FALSE, !.state = x] \in Records
         /\ [m EXCEPT !.v = s.v, !.base = s.project, !.dirty = TRUE, !.state = x, !.gone = FALSE] \in Records
         /\ [m EXCEPT !.dirty = y, !.gone = FALSE, !.state = x] \in Records
         /\ [m EXCEPT !.gone = FALSE] \in Records
  <1>1. s.v \in 0..MaxDataVersion /\ s.project \in Projects /\ 0 \in 0..MaxDataVersion
    BY Bounds DEF Copies
  <1>2. /\ [m EXCEPT !.state = x] \in Records
        /\ [m EXCEPT !.v = 0, !.state = x] \in Records
        /\ [m EXCEPT !.state = x, !.gone = y] \in Records
    BY <1>1 DEF Records
  <1>3. [m EXCEPT !.v = s.v, !.base = s.project] \in Records
    BY <1>1 DEF Records
  <1>4. [m EXCEPT !.v = s.v, !.base = s.project, !.dirty = FALSE, !.state = x] \in Records
    BY <1>1 DEF Records
  <1>5. [m EXCEPT !.v = s.v, !.base = s.project, !.dirty = TRUE, !.state = x, !.gone = FALSE] \in Records
    BY <1>1 DEF Records
  <1>6. [m EXCEPT !.dirty = y, !.gone = FALSE, !.state = x] \in Records /\ [m EXCEPT !.gone = FALSE] \in Records
    BY DEF Records
  <1> QED
    BY <1>2, <1>3, <1>4, <1>5, <1>6

(* A revision below the bound leaves a record one more. *)
LEMMA RevisedIsRecord ==
  ASSUME NEW m \in Records, m.rev < MaxRev
  PROVE  Dirtied(m) \in Records /\ Offered(m) \in Records
  <1>1. m.rev + 1 \in 0..MaxRev
    BY Bounds DEF Records
  <1>2. \A x \in SyncStates : [m EXCEPT !.dirty = TRUE, !.rev = @ + 1, !.state = x] \in Records
    BY <1>1 DEF Records
  <1>3. (IF m.state \in {"conflict", "local"} THEN m.state ELSE "saving") \in SyncStates
    BY StatesKnown DEF Records
  <1>4. Dirtied(m) \in Records
    BY <1>2, <1>3 DEF Dirtied
  <1>5. \A x \in SyncStates :
          [m EXCEPT !.state = x, !.gone = FALSE, !.dirty = TRUE, !.rev = @ + 1] \in Records
    BY <1>1 DEF Records
  <1>6. Offered(m) \in Records
    BY <1>5, StatesKnown DEF Offered
  <1> QED
    BY <1>4, <1>6

(* A copy both sides agree on is recorded. *)
LEMMA AgreedIsRecord ==
  ASSUME NEW m \in Records, NEW s \in Copies
  PROVE  Agreed(m, s) \in Records
  <1>1. \A x \in SyncStates :
          [m EXCEPT !.v = s.v, !.base = s.project, !.dirty = FALSE, !.state = x] \in Records
    BY PatchedIsRecord
  <1> QED
    BY <1>1, StatesKnown DEF Agreed

(* The pure parts return caches and projects. *)
LEMMA MergedIsProject ==
  ASSUME NEW p \in Projects \cup {None}, NEW s \in Copies
  PROVE  Merge(p, s) \in Projects
  BY DEF Merge, Projects, Copies

LEMMA AdoptedIsCache ==
  ASSUME NEW d \in Caches, NEW s \in Copies, NEW rev
  PROVE  Adopted(d, s, rev) \in Caches
  <1> DEFINE m == SyncOf(d)
  <1>1. m \in Records /\ Agreed(m, s) \in Records
    BY SyncIsRecord, AgreedIsRecord
  <1>2. Merge(d.project, s) \in Projects
    BY MergedIsProject DEF Caches
  <1>3. PICK x \in SyncStates : x = IF m.rev = rev THEN "saved" ELSE "saving"
    BY StatesKnown
  <1>4. PICK y \in BOOLEAN : y = ~(m.rev = rev)
    OBVIOUS
  <1>5. [Agreed(m, s) EXCEPT !.dirty = y, !.gone = FALSE, !.state = x] \in Records
    BY <1>1, PatchedIsRecord
  <1> QED
    BY <1>2, <1>3, <1>4, <1>5, Bounds DEF Adopted, Caches

LEMMA RebasedIsProject ==
  ASSUME NEW d, d.project \in Projects, NEW s \in Copies
  PROVE  Rebased(d, s) \in Projects
  <1> DEFINE q == [field    |-> [f \in Fields |-> IF f \in Mine(d) THEN d.project.field[f] ELSE s.project.field[f]],
                   versions |-> IF "versions" \in Mine(d) THEN d.project.versions ELSE s.project.versions]
  <1>1. q \in Projects
    BY DEF Projects, Copies
  <1>2. Rebased(d, s) = Merge(q, s)
    BY DEF Rebased
  <1> QED
    BY <1>1, <1>2, MergedIsProject

LEMMA ReconciledIsCache ==
  ASSUME NEW d \in Caches, NEW s \in Copies, Reconcilable(d, s)
  PROVE  Reconciled(d, s) \in Caches
  <1>1. d.project \in Projects /\ d.meta \in Records /\ d.meta.base \in Projects /\ s.project \in Projects
    BY DEF Reconcilable, SyncOf, Caches, Blank, Records, Copies
  <1>2. Rebased(d, s) \in Projects
    BY <1>1, RebasedIsProject
  <1>3. [Agreed(d.meta, s) EXCEPT !.gone = FALSE] \in Records
    BY <1>1, AgreedIsRecord, PatchedIsRecord, StatesKnown
  <1>4. [d.meta EXCEPT !.v = s.v, !.base = s.project, !.dirty = TRUE, !.state = "saving", !.gone = FALSE] \in Records
    <2>1. \A x \in SyncStates : [d.meta EXCEPT !.v = s.v, !.base = s.project, !.dirty = TRUE, !.state = x, !.gone = FALSE] \in Records
      BY <1>1, PatchedIsRecord
    <2> QED
      BY <2>1, StatesKnown
  <1>5. CASE Mine(d) = {}
    BY <1>1, <1>3, <1>5, Bounds DEF Reconciled, Caches
  <1>6. CASE Mine(d) # {}
    BY <1>2, <1>4, <1>6, Bounds DEF Reconciled, Caches
  <1> QED
    BY <1>5, <1>6

(* What is read of the records the helpers write. *)
LEMMA AdoptedMeta ==
  ASSUME NEW d \in Caches, NEW s \in Copies, NEW rev
  PROVE  /\ Adopted(d, s, rev).meta \in Records /\ Adopted(d, s, rev).meta # None
         /\ Adopted(d, s, rev).project = Merge(d.project, s)
         /\ Adopted(d, s, rev).meta.dirty = (SyncOf(d).rev # rev)
         /\ Adopted(d, s, rev).meta.rev = SyncOf(d).rev
         /\ Adopted(d, s, rev).meta.v = s.v
         /\ Adopted(d, s, rev).meta.base = s.project
         /\ Adopted(d, s, rev).meta.state \in {"saved", "saving"}
  <1> DEFINE m == SyncOf(d)
  <1>1. m \in Records /\ Agreed(m, s) \in Records
    BY SyncIsRecord, AgreedIsRecord
  <1>2. Agreed(m, s).v = s.v /\ Agreed(m, s).rev = m.rev /\ Agreed(m, s).base = s.project
    BY <1>1 DEF Agreed, Records
  <1>3. PICK x \in SyncStates : x = IF m.rev = rev THEN "saved" ELSE "saving"
    BY StatesKnown
  <1>4. PICK y \in BOOLEAN : y = ~(m.rev = rev)
    OBVIOUS
  <1>5. [Agreed(m, s) EXCEPT !.dirty = y, !.gone = FALSE, !.state = x] \in Records
    BY <1>1, PatchedIsRecord
  <1>6. Adopted(d, s, rev).meta = [Agreed(m, s) EXCEPT !.dirty = y, !.gone = FALSE, !.state = x]
    BY <1>3, <1>4 DEF Adopted
  <1>7. Adopted(d, s, rev).project = Merge(d.project, s)
    BY DEF Adopted
  <1> HIDE DEF m
  <1>8. /\ Adopted(d, s, rev).meta.dirty = y /\ Adopted(d, s, rev).meta.rev = m.rev
        /\ Adopted(d, s, rev).meta.v = s.v /\ Adopted(d, s, rev).meta.base = s.project
        /\ Adopted(d, s, rev).meta.state = x
    BY <1>1, <1>2, <1>6 DEF Records
  <1>9. x \in {"saved", "saving"}
    BY <1>3
  <1> QED
    BY <1>3, <1>4, <1>5, <1>6, <1>7, <1>8, <1>9, NoneIsNoValue DEF m

(* What the end of a save and a removal leave of the tab's memory. *)
LEMMA FinishedMemory ==
  ASSUME NEW m \in Memories
  PROVE  /\ Finished(m).timer = (m.timer \/ m.again) /\ Finished(m).conflict = m.conflict
         /\ Finished(m).removed = m.removed /\ Finished(m).forgotten = m.forgotten
         /\ Finished(m) \in Memories
  BY DEF Finished, Memories

LEMMA DroppedMemory ==
  ASSUME NEW m \in Memories, NEW d
  PROVE  /\ Dropped(m, d).timer = m.timer /\ Dropped(m, d).again = m.again
         /\ Dropped(m, d).removed = m.removed /\ Dropped(m, d).forgotten = m.forgotten
         /\ Dropped(m, d).conflict \in {m.conflict, None} /\ Dropped(m, d) \in Memories
  BY DEF Dropped, Memories

(* What reconcile leaves in the cache. *)
LEMMA ReconciledMeta ==
  ASSUME NEW d \in Caches, NEW s \in Copies, Reconcilable(d, s)
  PROVE  /\ d.meta \in Records /\ d.project \in Projects /\ d.meta.base \in Projects
         /\ Reconciled(d, s).meta \in Records /\ Reconciled(d, s).meta # None
         /\ Reconciled(d, s).meta.dirty = (Mine(d) # {})
         /\ Reconciled(d, s).meta.v = s.v /\ Reconciled(d, s).meta.base = s.project
         /\ Reconciled(d, s).meta.rev = d.meta.rev
         /\ Reconciled(d, s).meta.state \in {"saved", "saving"}
         /\ Reconciled(d, s).project \in Projects
  <1>1. d.meta \in Records /\ d.project \in Projects /\ d.meta.base \in Projects
    BY DEF Reconcilable, SyncOf, Caches, Blank, Records
  <1>2. /\ Agreed(d.meta, s) \in Records /\ Agreed(d.meta, s).v = s.v /\ Agreed(d.meta, s).dirty = FALSE
        /\ Agreed(d.meta, s).base = s.project /\ Agreed(d.meta, s).rev = d.meta.rev
        /\ Agreed(d.meta, s).state = "saved"
    BY <1>1, AgreedIsRecord DEF Agreed, Records
  <1>3. CASE Mine(d) = {}
    <2>1. /\ Reconciled(d, s).meta = [Agreed(d.meta, s) EXCEPT !.gone = FALSE]
          /\ Reconciled(d, s).project = s.project
      BY <1>3 DEF Reconciled
    <2>2. /\ Reconciled(d, s).meta.v = s.v /\ Reconciled(d, s).meta.dirty = FALSE
          /\ Reconciled(d, s).meta.base = s.project /\ Reconciled(d, s).meta.rev = d.meta.rev
          /\ Reconciled(d, s).meta.state = "saved"
      BY <1>2, <2>1 DEF Records
    <2>3. Reconciled(d, s).meta \in Records /\ Reconciled(d, s).project \in Projects
      BY <1>2, <2>1 DEF Records, Copies
    <2> QED
      BY <1>1, <1>3, <2>2, <2>3, NoneIsNoValue
  <1>4. CASE Mine(d) # {}
    <2>1. /\ Reconciled(d, s).meta = [d.meta EXCEPT !.v = s.v, !.base = s.project, !.dirty = TRUE,
                                                    !.state = "saving", !.gone = FALSE]
          /\ Reconciled(d, s).project = Rebased(d, s)
      BY <1>4 DEF Reconciled
    <2>2. /\ Reconciled(d, s).meta.v = s.v /\ Reconciled(d, s).meta.dirty = TRUE
          /\ Reconciled(d, s).meta.base = s.project /\ Reconciled(d, s).meta.rev = d.meta.rev
          /\ Reconciled(d, s).meta.state = "saving"
      BY <1>1, <2>1 DEF Records
    <2>3. /\ Reconciled(d, s) \in Caches /\ Reconciled(d, s).project # None
      <3>1. Rebased(d, s) \in Projects
        BY <1>1, RebasedIsProject
      <3> QED
        BY <2>1, <3>1, ReconciledIsCache, NoneIsNoValue
    <2>4. \A x \in SyncStates : [d.meta EXCEPT !.v = s.v, !.base = s.project, !.dirty = TRUE,
                                               !.state = x, !.gone = FALSE] \in Records
      BY <1>1, PatchedIsRecord
    <2>5. Reconciled(d, s).meta \in Records
      BY <2>1, <2>4, StatesKnown
    <2>6. Reconciled(d, s).project \in Projects
      BY <2>3 DEF Caches
    <2> QED
      BY <1>1, <1>4, <2>2, <2>5, <2>6, NoneIsNoValue
  <1> QED
    BY <1>3, <1>4

(* What an agreement leaves in the record. *)
LEMMA AgreedMeta ==
  ASSUME NEW m \in Records, NEW s \in Copies
  PROVE  /\ Agreed(m, s) \in Records /\ Agreed(m, s) # None
         /\ Agreed(m, s).v = s.v /\ Agreed(m, s).dirty = FALSE
         /\ Agreed(m, s).base = s.project /\ Agreed(m, s).rev = m.rev /\ Agreed(m, s).state = "saved"
  <1>1. Agreed(m, s) \in Records /\ Agreed(m, s) # None
    BY AgreedIsRecord, NoneIsNoValue
  <1>2. /\ Agreed(m, s).v = s.v /\ Agreed(m, s).dirty = FALSE
        /\ Agreed(m, s).base = s.project /\ Agreed(m, s).rev = m.rev /\ Agreed(m, s).state = "saved"
    BY DEF Agreed, Records
  <1> QED
    BY <1>1, <1>2

(* What the provers are told of the types of a state. *)
LEMMA TypesOpened ==
  ASSUME ProjectTypes, NEW t \in Tabs
  PROVE  /\ Home[t] \in Browsers /\ disk[Home[t]] \in Caches /\ SyncOf(disk[Home[t]]) \in Records
         /\ mem[t] \in Memories
         /\ push[t] \in Requests /\ get[t] \in Requests /\ resolve[t] \in Requests
         /\ list[t] \in Requests /\ act[t] \in Requests
         /\ push \in [Tabs -> Requests] /\ get \in [Tabs -> Requests]
         /\ resolve \in [Tabs -> Requests] /\ list \in [Tabs -> Requests] /\ act \in [Tabs -> Requests]
         /\ disk \in [Browsers -> Caches] /\ mem \in [Tabs -> Memories]
  BY Bounds, SyncIsRecord DEF ProjectTypes, TypeOK

(* Removals keep the types. *)
LEMMA DroppedIsMemory ==
  ASSUME NEW m \in Memories, NEW d \in Caches, NEW x \in BOOLEAN
  PROVE  /\ Dropped(m, d) \in Memories /\ Finished(m) \in Memories
         /\ [m EXCEPT !.timer = x] \in Memories /\ [m EXCEPT !.removed = x] \in Memories
         /\ [m EXCEPT !.again = TRUE] \in Memories /\ [m EXCEPT !.forgotten = x] \in Memories
         /\ [m EXCEPT !.forgotten = TRUE, !.timer = FALSE, !.again = FALSE] \in Memories
         /\ [m EXCEPT !.conflict = None] \in Memories
         /\ \A s \in Copies : [m EXCEPT !.conflict = s] \in Memories
  BY DEF Memories, Dropped, Finished

LEMMA ForgottenIsCache == \A d : Forgotten(d) \in Caches
  BY DEF Forgotten, Caches

(* A write to the storage, and the timer with it. *)
LEMMA WrittenTypes ==
  ASSUME ProjectTypes, NEW t \in Tabs, NEW p \in Projects, Written(t, p)
  PROVE  disk' \in [Browsers -> Caches] /\ mem' \in [Tabs -> Memories]
  <1>1. Dirtied(SyncOf(disk[Home[t]])) \in Records
    BY TypesOpened, RevisedIsRecord DEF Written
  <1>2. disk' \in [Browsers -> Caches]
    BY <1>1, TypesOpened DEF Written, Caches
  <1>3. mem' \in [Tabs -> Memories]
    <2>1. (mem[t].timer \/ Schedules(SyncOf(disk[Home[t]]))) \in BOOLEAN
      BY DEF Schedules
    <2> QED
      BY <2>1, TypesOpened DEF Written, Memories
  <1> QED
    BY <1>2, <1>3

(* The person's writes, then everything else a person does. *)
LEMMA WritesKeepTypes ==
  ASSUME ProjectTypes, NEW t \in Tabs,
         \/ \E f \in Fields : Edit(t, f)
         \/ \E x \in Versions : AddVersion(t, x) \/ Withdraw(t, x)
  PROVE  ProjectTypes'
  <1> DEFINE p == disk[Home[t]].project
  <1>1. ASSUME p # None PROVE p \in Projects
    BY <1>1, TypesOpened DEF Caches
  <1>2. ASSUME NEW f \in Fields, Edit(t, f) PROVE ProjectTypes'
    <2> DEFINE e == <<Home[t], edits[Home[t]] + 1>>
    <2>0. /\ edits \in [Browsers -> 0..MaxEdits] /\ Home[t] \in Browsers
          /\ edits[Home[t]] < MaxEdits /\ edits' = [edits EXCEPT ![Home[t]] = @ + 1]
      BY <1>2, TypesOpened DEF Edit, ProjectTypes, TypeOK
    <2>1. e \in Edits /\ edits' \in [Browsers -> 0..MaxEdits]
      <3>1. edits[Home[t]] + 1 \in 1..MaxEdits
        BY <2>0, Bounds
      <3> QED
        BY <2>0, <3>1, Bounds DEF Edits
    <2>2. [p EXCEPT !.field[f] = @ \cup {e}] \in Projects
      BY <1>1, <1>2, <2>1 DEF Edit, Projects
    <2>3. disk' \in [Browsers -> Caches] /\ mem' \in [Tabs -> Memories]
      BY <1>2, <2>2, WrittenTypes DEF Edit
    <2>4. TypeOK'
      BY <1>2, <2>1, <2>3 DEF Edit, netVars, ProjectTypes, TypeOK
    <2>5. Shapes'
      BY <1>2 DEF Edit, netVars, ProjectTypes, Shapes, Answered
    <2> QED
      BY <2>4, <2>5 DEF ProjectTypes
  <1>3. ASSUME NEW x \in Versions, AddVersion(t, x) PROVE ProjectTypes'
    <2>1. [p EXCEPT !.versions = @ \cup {x}] \in Projects
      BY <1>1, <1>3 DEF AddVersion, Projects
    <2>2. disk' \in [Browsers -> Caches] /\ mem' \in [Tabs -> Memories]
      BY <1>3, <2>1, WrittenTypes DEF AddVersion
    <2>3. TypeOK'
      BY <1>3, <2>2 DEF AddVersion, netVars, ProjectTypes, TypeOK
    <2>4. Shapes'
      BY <1>3 DEF AddVersion, netVars, ProjectTypes, Shapes, Answered
    <2> QED
      BY <2>3, <2>4 DEF ProjectTypes
  <1>4. ASSUME NEW x \in Versions, Withdraw(t, x) PROVE ProjectTypes'
    <2>1. [p EXCEPT !.versions = @ \ {x}] \in Projects
      BY <1>1, <1>4 DEF Withdraw, Projects
    <2>2. disk' \in [Browsers -> Caches] /\ mem' \in [Tabs -> Memories]
      BY <1>4, <2>1, WrittenTypes DEF Withdraw
    <2>3. TypeOK'
      BY <1>4, <2>2 DEF Withdraw, netVars, ProjectTypes, TypeOK
    <2>4. Shapes'
      BY <1>4 DEF Withdraw, netVars, ProjectTypes, Shapes, Answered
    <2> QED
      BY <2>3, <2>4 DEF ProjectTypes
  <1> QED
    BY <1>2, <1>3, <1>4

LEMMA EditsInType ==
  ASSUME NEW p \in Projects
  PROVE  EditsIn(p) \subseteq Edits
  BY DEF EditsIn, Projects

LEMMA PersonKeepsTypes ==
  ASSUME ProjectTypes, NEW t \in Tabs, Create(t) \/ Remove(t) \/ RetryLocal(t) \/ Reload(t)
  PROVE  ProjectTypes'
  <1> DEFINE d == disk[Home[t]]
  <1>1. CASE Create(t)
    <2>1. Dirtied(Blank) \in Records
      BY Bounds, FirstValues, RevisedIsRecord DEF Blank
    <2>2. disk' \in [Browsers -> Caches]
      BY <1>1, <2>1, TypesOpened, FirstValues DEF Create, Caches
    <2>3. mem' \in [Tabs -> Memories]
      BY <1>1, TypesOpened DEF Create, Memories
    <2>4. TypeOK' /\ Shapes'
      BY <1>1, <2>2, <2>3 DEF Create, netVars, auxVars, ProjectTypes, TypeOK, Shapes, Answered
    <2> QED
      BY <2>4 DEF ProjectTypes
  <1>2. CASE Remove(t)
    <2>1. d.project \in Projects
      BY <1>2, TypesOpened DEF Remove, Caches
    <2>2. disk' \in [Browsers -> Caches]
      BY <1>2, TypesOpened, ForgottenIsCache DEF Remove
    <2>3. mem' \in [Tabs -> Memories]
      BY <1>2, TypesOpened, DroppedIsMemory DEF Remove
    <2>4. TypeOK'
      BY <1>2, <2>1, <2>2, <2>3, EditsInType DEF Remove, ProjectTypes, TypeOK
    <2>5. Shapes'
      BY <1>2 DEF Remove, ProjectTypes, Shapes, Answered
    <2> QED
      BY <2>4, <2>5 DEF ProjectTypes
  <1>3. CASE RetryLocal(t)
    <2>1. d.meta \in Records
      BY <1>3, TypesOpened DEF RetryLocal, SyncOf, Blank, Caches
    <2>2. disk' \in [Browsers -> Caches]
      BY <1>3, <2>1, TypesOpened, RevisedIsRecord DEF RetryLocal, Caches
    <2>3. mem' \in [Tabs -> Memories]
      BY <1>3, TypesOpened DEF RetryLocal, Memories
    <2>4. TypeOK' /\ Shapes'
      BY <1>3, <2>2, <2>3 DEF RetryLocal, netVars, auxVars, ProjectTypes, TypeOK, Shapes, Answered
    <2> QED
      BY <2>4 DEF ProjectTypes
  <1>4. CASE Reload(t)
    <2>1. d.project \in Projects /\ mem[t].conflict \in Copies
      BY <1>4, TypesOpened DEF Reload, Caches, Memories
    <2>2. Agreed(SyncOf(d), mem[t].conflict) \in Records
      BY <2>1, TypesOpened, AgreedIsRecord
    <2>3. disk' \in [Browsers -> Caches]
      BY <1>4, <2>1, <2>2, TypesOpened, Bounds DEF Reload, Caches, Copies
    <2>4. mem' \in [Tabs -> Memories]
      BY <1>4, TypesOpened DEF Reload, Memories
    <2>5. TypeOK'
      BY <1>4, <2>1, <2>3, <2>4, EditsInType DEF Reload, netVars, ProjectTypes, TypeOK
    <2>6. Shapes'
      BY <1>4 DEF Reload, netVars, ProjectTypes, Shapes, Answered
    <2> QED
      BY <2>5, <2>6 DEF ProjectTypes
  <1> QED
    BY <1>1, <1>2, <1>3, <1>4

(* A save begun, or asked to begin again. *)
LEMMA StartPushTypes ==
  ASSUME ProjectTypes, NEW t \in Tabs, NEW m \in Memories, StartPush(t, m)
  PROVE  /\ disk' \in [Browsers -> Caches] /\ mem' \in [Tabs -> Memories]
         /\ push' \in [Tabs -> Requests]
         /\ \A u \in Tabs :
              /\ Answered(push'[u], {"none", "sent", "served", "stale", "missing", "refused"})
              /\ push'[u] # Idle => push'[u].project # None
  <1> DEFINE d == disk[Home[t]]
  <1>0. \A u \in Tabs :
          /\ Answered(push[u], {"none", "sent", "served", "stale", "missing", "refused"})
          /\ push[u] # Idle => push[u].project # None
    BY DEF ProjectTypes, Shapes
  <1>1. CASE push[t] # Idle
    BY <1>0, <1>1, TypesOpened, DroppedIsMemory DEF StartPush
  <1>2. CASE push[t] = Idle /\ (d.project = None \/ d.meta = None \/ ~Schedules(SyncOf(d)))
    BY <1>0, <1>2, TypesOpened, DroppedIsMemory DEF StartPush
  <1>3. CASE push[t] = Idle /\ d.project # None /\ d.meta # None /\ Schedules(SyncOf(d))
    <2> DEFINE r == [Idle EXCEPT !.stage = "sent", !.v = d.meta.v, !.rev = d.meta.rev, !.project = d.project]
    <2>1. /\ push' = [push EXCEPT ![t] = r]
          /\ disk' = [disk EXCEPT ![Home[t]].meta.state = "saving"]
          /\ mem' = [mem EXCEPT ![t] = m]
      BY <1>3 DEF StartPush
    <2>2. d.meta \in Records /\ d.project \in Projects
      BY <1>3, TypesOpened DEF Caches
    <2>3. r \in Requests /\ r.stage = "sent" /\ r.project = d.project
      BY <2>2, FirstValues DEF Idle, Requests, Records, Stages
    <2>4. \A x \in SyncStates : [disk EXCEPT ![Home[t]].meta.state = x] \in [Browsers -> Caches]
      BY <2>2, TypesOpened DEF Caches, Records
    <2>5. disk' \in [Browsers -> Caches]
      BY <2>1, <2>4, StatesKnown
    <2>6. mem' \in [Tabs -> Memories] /\ push' \in [Tabs -> Requests]
      BY <2>1, <2>3, TypesOpened
    <2>7. \A u \in Tabs : push'[u] = IF u = t THEN r ELSE push[u]
      BY <2>1, TypesOpened
    <2>8. Answered(r, {"none", "sent", "served", "stale", "missing", "refused"})
      BY <2>3 DEF Answered
    <2> HIDE DEF r
    <2> QED
      BY <1>0, <1>3, <2>3, <2>5, <2>6, <2>7, <2>8
  <1> QED
    BY <1>1, <1>2, <1>3

(* The timer and flushProject. *)
LEMMA StartsKeepTypes ==
  ASSUME ProjectTypes, NEW t \in Tabs, TimerFires(t) \/ PushNow(t)
  PROVE  ProjectTypes'
  <1>1. PICK m \in Memories : StartPush(t, m)
    <2>1. [mem[t] EXCEPT !.timer = FALSE] \in Memories
      BY TypesOpened, DroppedIsMemory
    <2>2. [mem[t] EXCEPT !.timer = @ /\ SyncOf(disk[Home[t]]).v # 0] \in Memories
      BY TypesOpened DEF Memories
    <2> QED
      BY <2>1, <2>2 DEF TimerFires, PushNow
  <1>2. UNCHANGED <<server, get, resolve, list, del, act, closed, edits, reached, discarded, fate>>
    BY DEF TimerFires, PushNow, auxVars
  <1>3. TypeOK' /\ Shapes'
    BY <1>1, <1>2, StartPushTypes DEF ProjectTypes, TypeOK, Shapes
  <1> QED
    BY <1>3 DEF ProjectTypes

LEMMA ServedKeepTypes ==
  ASSUME ProjectTypes, NEW t \in Tabs, NEW p \in Projects, Accept(p), p # None
  PROVE  /\ server' \in [v : 0..MaxDataVersion, project : Projects \cup {None}]
         /\ server' \in Copies /\ server'.project = p /\ server'.v = server.v + 1 /\ server'.v # 0
         /\ reached' \subseteq Edits
  <1>1. server.v + 1 \in 1..MaxDataVersion
    BY Bounds DEF Accept, ProjectTypes, TypeOK
  <1> QED
    BY <1>1, EditsInType, Bounds DEF Accept, ProjectTypes, TypeOK, Copies

(* What the server answers a save is a copy. *)
LEMMA ServerIsCopy ==
  ASSUME ProjectTypes, server.project # None
  PROVE  server \in Copies
  BY Bounds DEF ProjectTypes, TypeOK, Shapes, Copies

LEMMA RequestPatched ==
  ASSUME NEW q \in [Tabs -> Requests], NEW t \in Tabs, NEW x \in Stages
  PROVE  /\ [q EXCEPT ![t].stage = x] \in [Tabs -> Requests]
         /\ \A a \in Copies : [q EXCEPT ![t].stage = x, ![t].answer = a] \in [Tabs -> Requests]
  <1>1. [q EXCEPT ![t].stage = x] \in [Tabs -> Requests]
    BY DEF Requests
  <1>2. \A a \in Copies : \A p \in [Tabs -> Requests] : [p EXCEPT ![t].answer = a] \in [Tabs -> Requests]
    BY DEF Requests
  <1>3. \A a : [q EXCEPT ![t].stage = x, ![t].answer = a] = [[q EXCEPT ![t].stage = x] EXCEPT ![t].answer = a]
    OBVIOUS
  <1> QED
    BY <1>1, <1>2, <1>3

LEMMA SentIsNotIdle == \A r : r.stage # "none" => r # Idle
  BY DEF Idle

LEMMA ServePushKeepsTypes ==
  ASSUME ProjectTypes, NEW t \in Tabs, ServePush(t)
  PROVE  ProjectTypes'
  <1> DEFINE r == push[t]
  <1>1. r \in Requests /\ r.project \in Projects /\ r.project # None
    <2>1. r # Idle /\ r \in Requests
      BY SentIsNotIdle, TypesOpened DEF ServePush
    <2> QED
      BY <2>1 DEF ProjectTypes, Shapes, Requests
  <1>2. /\ server' \in [v : 0..MaxDataVersion, project : Projects \cup {None}]
        /\ reached' \subseteq Edits
        /\ server'.project # None => server'.v # 0
    BY <1>1, ServedKeepTypes DEF ServePush, Refuse, ProjectTypes, TypeOK, Shapes
  <1>3. \/ /\ server' \in Copies
           /\ \/ push' = [push EXCEPT ![t].stage = "served", ![t].answer = server']
              \/ push' = [push EXCEPT ![t].stage = "stale", ![t].answer = server']
        \/ push' = [push EXCEPT ![t].stage = "missing"]
        \/ push' = [push EXCEPT ![t].stage = "refused"]
    BY <1>1, ServedKeepTypes, ServerIsCopy DEF ServePush, Refuse
  <1>4. \A x \in Stages : [push EXCEPT ![t].stage = x] \in [Tabs -> Requests]
    BY TypesOpened, RequestPatched
  <1>5. push' \in [Tabs -> Requests]
    <2>1. "served" \in Stages /\ "stale" \in Stages /\ "missing" \in Stages /\ "refused" \in Stages
      BY DEF Stages
    <2>2. CASE push' = [push EXCEPT ![t].stage = "missing"] \/ push' = [push EXCEPT ![t].stage = "refused"]
      BY <1>4, <2>1, <2>2
    <2>3. ASSUME server' \in Copies PROVE \A x \in Stages : [push EXCEPT ![t].stage = x, ![t].answer = server'] \in [Tabs -> Requests]
      BY <2>3, TypesOpened, RequestPatched
    <2> QED
      BY <1>3, <2>1, <2>2, <2>3
  <1>6. /\ push'[t].stage \in {"served", "stale", "missing", "refused"}
        /\ push'[t].stage \in {"served", "stale"} => push'[t].answer \in Copies
        /\ push'[t].project = r.project
        /\ \A u \in Tabs \ {t} : push'[u] = push[u]
    BY <1>3, TypesOpened DEF Requests
  <1>7. TypeOK'
    BY <1>2, <1>5 DEF ServePush, ProjectTypes, TypeOK
  <1>8. Shapes'
    <2>1. Answered(push'[t], {"none", "sent", "served", "stale", "missing", "refused"}) /\ push'[t].project # None
      BY <1>1, <1>6 DEF Answered
    <2>2. get' = get /\ resolve' = resolve /\ act' = act
      BY DEF ServePush
    <2> QED
      BY <1>2, <1>6, <2>1, <2>2 DEF ProjectTypes, Shapes
  <1> QED
    BY <1>7, <1>8 DEF ProjectTypes

-----------------------------------------------------------------------------
(* The answers of a save, and of a choice that keeps this copy. *)
LEMMA AdoptTypes ==
  ASSUME ProjectTypes, NEW t \in Tabs, NEW s \in Copies, NEW rev, NEW m \in Memories, Adopt(t, s, rev, m)
  PROVE  /\ disk' \in [Browsers -> Caches] /\ mem' \in [Tabs -> Memories]
         /\ del' \in [Tabs -> BOOLEAN]
  <1>1. Adopted(disk[Home[t]], s, rev) \in Caches
    BY TypesOpened, AdoptedIsCache
  <1>2. \A x : [m EXCEPT !.timer = @ \/ x] \in Memories
    BY DEF Memories
  <1>3. disk' \in [Browsers -> Caches]
    BY <1>1, TypesOpened DEF Adopt
  <1>4. mem' \in [Tabs -> Memories]
    BY <1>2, TypesOpened DEF Adopt
  <1>5. del' \in [Tabs -> BOOLEAN]
    BY DEF Adopt, ProjectTypes, TypeOK
  <1> QED
    BY <1>3, <1>4, <1>5

(* A request that ended is one that goes through its stages. *)
LEMMA AnsweredToIdle ==
  ASSUME NEW q \in [Tabs -> Requests], NEW t \in Tabs
  PROVE  /\ [q EXCEPT ![t] = Idle] \in [Tabs -> Requests]
         /\ \A u \in Tabs : [q EXCEPT ![t] = Idle][u] = IF u = t THEN Idle ELSE q[u]
  BY FirstValues

LEMMA IdleIsAnswered ==
  ASSUME NEW S, "none" \in S
  PROVE  Answered(Idle, S)
  BY DEF Answered, Idle

LEMMA AdoptionsKeepTypes ==
  ASSUME ProjectTypes, NEW t \in Tabs, PushServed(t) \/ KeepServed(t)
  PROVE  ProjectTypes'
  <1>1. CASE PushServed(t)
    <2>1. push[t].answer \in Copies /\ Finished(mem[t]) \in Memories
      BY <1>1, TypesOpened, DroppedIsMemory DEF PushServed, ProjectTypes, Shapes, Answered
    <2>2. /\ disk' \in [Browsers -> Caches] /\ mem' \in [Tabs -> Memories]
          /\ del' \in [Tabs -> BOOLEAN]
      BY <1>1, <2>1, AdoptTypes DEF PushServed
    <2>3. /\ push' \in [Tabs -> Requests]
          /\ \A u \in Tabs : push'[u] = IF u = t THEN Idle ELSE push[u]
      BY <1>1, TypesOpened, AnsweredToIdle DEF PushServed
    <2>4. TypeOK'
      BY <1>1, <2>2, <2>3 DEF PushServed, auxVars, ProjectTypes, TypeOK
    <2>5. Shapes'
      BY <1>1, <2>3, IdleIsAnswered DEF PushServed, ProjectTypes, Shapes
    <2> QED
      BY <2>4, <2>5 DEF ProjectTypes
  <1>2. CASE KeepServed(t)
    <2>1. resolve[t].answer \in Copies /\ [mem[t] EXCEPT !.conflict = None] \in Memories
      BY <1>2, TypesOpened, DroppedIsMemory DEF KeepServed, ProjectTypes, Shapes, Answered
    <2>2. /\ disk' \in [Browsers -> Caches] /\ mem' \in [Tabs -> Memories]
          /\ del' \in [Tabs -> BOOLEAN]
      BY <1>2, <2>1, AdoptTypes DEF KeepServed
    <2>3. /\ resolve' \in [Tabs -> Requests]
          /\ \A u \in Tabs : resolve'[u] = IF u = t THEN Idle ELSE resolve[u]
      BY <1>2, TypesOpened, AnsweredToIdle DEF KeepServed
    <2>4. TypeOK'
      BY <1>2, <2>2, <2>3 DEF KeepServed, auxVars, ProjectTypes, TypeOK
    <2>5. Shapes'
      BY <1>2, <2>3, IdleIsAnswered DEF KeepServed, ProjectTypes, Shapes
    <2> QED
      BY <2>4, <2>5 DEF ProjectTypes
  <1> QED
    BY <1>1, <1>2

(* Every refusal ends in `failed`. *)
LEMMA FailedTypes ==
  ASSUME ProjectTypes, NEW t \in Tabs, NEW d \in Caches, NEW m \in Memories, Failed(t, d, m)
  PROVE  ProjectTypes'
  <1>1. disk' \in [Browsers -> Caches]
    BY TypesOpened DEF Failed, Caches
  <1>2. mem' \in [Tabs -> Memories]
    <2>1. mem[t] \in Memories /\ Dropped(mem[t], disk[Home[t]]) \in Memories
      BY TypesOpened, DroppedIsMemory
    <2>2. Finished(Dropped(mem[t], disk[Home[t]])) \in Memories /\ Finished(m) \in Memories
      BY <2>1, DroppedIsMemory, TypesOpened
    <2> QED
      BY <2>2, TypesOpened DEF Failed
  <1>3. /\ push' \in [Tabs -> Requests]
        /\ \A u \in Tabs : push'[u] = IF u = t THEN Idle ELSE push[u]
    BY TypesOpened, AnsweredToIdle DEF Failed
  <1>4. TypeOK'
    BY <1>1, <1>2, <1>3 DEF Failed, auxVars, ProjectTypes, TypeOK
  <1>5. Shapes'
    BY <1>3, IdleIsAnswered DEF Failed, ProjectTypes, Shapes
  <1> QED
    BY <1>4, <1>5 DEF ProjectTypes

LEMMA MetaIsCache ==
  ASSUME NEW d \in Caches, NEW x \in Records \cup {None}
  PROVE  [d EXCEPT !.meta = x] \in Caches
  BY DEF Caches

LEMMA FailuresKeepTypes ==
  ASSUME ProjectTypes, NEW t \in Tabs,
         PushStale(t) \/ PushMissing(t) \/ PushRefused(t) \/ PushLost(t)
  PROVE  ProjectTypes'
  <1> DEFINE d == disk[Home[t]]
             m == SyncOf(d)
  <1>1. d \in Caches /\ m \in Records /\ mem[t] \in Memories
    BY TypesOpened
  <1>2. /\ [m EXCEPT !.state = "conflict"] \in Records
        /\ [m EXCEPT !.state = "offline"] \in Records
    <2>1. \A x \in SyncStates : [m EXCEPT !.state = x] \in Records
      BY <1>1 DEF Records
    <2> QED
      BY <2>1, StatesKnown
  <1>3. /\ [m EXCEPT !.state = "local", !.gone = TRUE] \in Records
        /\ [m EXCEPT !.state = "local", !.gone = FALSE] \in Records
    <2>1. \A x \in SyncStates : /\ [m EXCEPT !.state = x, !.gone = TRUE] \in Records
                                /\ [m EXCEPT !.state = x, !.gone = FALSE] \in Records
      BY <1>1 DEF Records
    <2> QED
      BY <2>1, StatesKnown
  <1>4. [m EXCEPT !.v = 0, !.state = "saving"] \in Records
    <2>1. 0 \in 0..MaxDataVersion
      BY Bounds
    <2>2. \A x \in SyncStates : [m EXCEPT !.v = 0, !.state = x] \in Records
      BY <1>1, <2>1 DEF Records
    <2> QED
      BY <2>2, StatesKnown
  <1> HIDE DEF m
  <1>5. CASE PushStale(t)
    <2> DEFINE s == push[t].answer
    <2>1. s \in Copies
      BY <1>5 DEF PushStale, ProjectTypes, Shapes, Answered
    <2>2. CASE Reconcilable(d, s)
      <3>1. Reconciled(d, s) \in Caches /\ [mem[t] EXCEPT !.timer = Mine(d) # {}] \in Memories
        BY <1>1, <2>1, <2>2, ReconciledIsCache, DroppedIsMemory
      <3>2. Failed(t, Reconciled(d, s), [mem[t] EXCEPT !.timer = Mine(d) # {}])
        BY <1>5, <2>2 DEF PushStale
      <3> QED
        BY <3>1, <3>2, FailedTypes
    <2>3. CASE ~Reconcilable(d, s)
      <3>1. [d EXCEPT !.meta = [m EXCEPT !.state = "conflict"]] \in Caches
        BY <1>1, <1>2, MetaIsCache
      <3>2. [mem[t] EXCEPT !.conflict = s] \in Memories
        BY <1>1, <2>1, DroppedIsMemory
      <3>3. Failed(t, [d EXCEPT !.meta = [m EXCEPT !.state = "conflict"]], [mem[t] EXCEPT !.conflict = s])
        BY <1>5, <2>3 DEF PushStale, m
      <3> QED
        BY <3>1, <3>2, <3>3, FailedTypes
    <2> QED
      BY <2>2, <2>3
  <1>6. CASE PushMissing(t)
    <2>1. /\ [d EXCEPT !.meta = None] \in Caches
          /\ [d EXCEPT !.meta = [m EXCEPT !.state = "local", !.gone = TRUE]] \in Caches
          /\ [d EXCEPT !.meta = [m EXCEPT !.v = 0, !.state = "saving"]] \in Caches
      BY <1>1, <1>3, <1>4, MetaIsCache
    <2>2. Dropped(mem[t], d) \in Memories /\ [mem[t] EXCEPT !.timer = TRUE] \in Memories
      BY <1>1, DroppedIsMemory
    <2>3. \/ Failed(t, [d EXCEPT !.meta = None], Dropped(mem[t], d))
          \/ Failed(t, [d EXCEPT !.meta = [m EXCEPT !.state = "local", !.gone = TRUE]], mem[t])
          \/ Failed(t, [d EXCEPT !.meta = [m EXCEPT !.v = 0, !.state = "saving"]], [mem[t] EXCEPT !.timer = TRUE])
      BY <1>6 DEF PushMissing, m
    <2> QED
      BY <1>1, <2>1, <2>2, <2>3, FailedTypes
  <1>7. CASE PushRefused(t)
    <2>1. [d EXCEPT !.meta = [m EXCEPT !.state = "local", !.gone = FALSE]] \in Caches
      BY <1>1, <1>3, MetaIsCache
    <2>2. Failed(t, [d EXCEPT !.meta = [m EXCEPT !.state = "local", !.gone = FALSE]], mem[t])
      BY <1>7 DEF PushRefused, m
    <2> QED
      BY <1>1, <2>1, <2>2, FailedTypes
  <1>8. CASE PushLost(t)
    <2>1. [d EXCEPT !.meta = [m EXCEPT !.state = "offline"]] \in Caches /\ [mem[t] EXCEPT !.timer = TRUE] \in Memories
      BY <1>1, <1>2, MetaIsCache, DroppedIsMemory
    <2>2. Failed(t, [d EXCEPT !.meta = [m EXCEPT !.state = "offline"]], [mem[t] EXCEPT !.timer = TRUE])
      BY <1>8 DEF PushLost, m
    <2> QED
      BY <2>1, <2>2, FailedTypes
  <1> QED
    BY <1>5, <1>6, <1>7, <1>8

-----------------------------------------------------------------------------
(* Reads, the list, the server's own acts. *)
LEMMA RequestSent ==
  ASSUME ProjectTypes, NEW t \in Tabs
  PROVE  LET m == SyncOf(disk[Home[t]]) IN
           /\ [Idle EXCEPT !.stage = "sent", !.v = m.v, !.dirty = m.dirty] \in Requests
           /\ disk[Home[t]].project # None =>
                [Idle EXCEPT !.stage = "sent", !.project = disk[Home[t]].project, !.rev = m.rev] \in Requests
  <1> DEFINE m == SyncOf(disk[Home[t]])
  <1>1. m.v \in 0..MaxDataVersion /\ m.dirty \in BOOLEAN /\ m.rev \in 0..MaxRev
        /\ disk[Home[t]].project \in Projects \cup {None}
    BY TypesOpened DEF Records, Caches
  <1> HIDE DEF m
  <1>2. [Idle EXCEPT !.stage = "sent", !.v = m.v, !.dirty = m.dirty] \in Requests
    <2>1. \A x \in Stages : [Idle EXCEPT !.stage = x, !.v = m.v, !.dirty = m.dirty] \in Requests
      BY <1>1, FirstValues DEF Requests
    <2> QED
      BY <2>1 DEF Stages
  <1>3. [Idle EXCEPT !.stage = "sent", !.project = disk[Home[t]].project, !.rev = m.rev] \in Requests
    <2>1. \A x \in Stages :
            [Idle EXCEPT !.stage = x, !.project = disk[Home[t]].project, !.rev = m.rev] \in Requests
      BY <1>1, FirstValues DEF Requests
    <2> QED
      BY <2>1 DEF Stages
  <1> QED
    BY <1>2, <1>3 DEF m

LEMMA SendsKeepTypes ==
  ASSUME ProjectTypes, NEW t \in Tabs,
         Refresh(t) \/ ListServed(t) \/ Keep(t) \/ AskAct(t) \/ List(t) \/ ListMissing(t) \/ ServeList(t)
  PROVE  ProjectTypes'
  <1> DEFINE m == SyncOf(disk[Home[t]])
             asked == [Idle EXCEPT !.stage = "sent", !.v = m.v, !.dirty = m.dirty]
             kept == [Idle EXCEPT !.stage = "sent", !.project = disk[Home[t]].project, !.rev = m.rev]
  <1>1. asked \in Requests /\ asked.stage = "sent" /\ kept.stage = "sent"
    BY RequestSent DEF Idle
  <1>2. /\ disk[Home[t]].project # None => kept \in Requests
        /\ kept.project = disk[Home[t]].project
    BY RequestSent DEF Idle
  <1> HIDE DEF m, asked, kept
  <1>3. CASE Refresh(t)
    <2>1. /\ get' = [get EXCEPT ![t] = asked]
          /\ UNCHANGED <<server, disk, mem, push, resolve, list, del, act, closed, edits, reached, discarded, fate>>
      BY <1>3 DEF Refresh, diskVars, auxVars, asked, m
    <2>2. TypeOK'
      BY <1>1, <2>1, TypesOpened DEF ProjectTypes, TypeOK
    <2>3. Shapes'
      BY <1>1, <2>1, TypesOpened DEF ProjectTypes, Shapes, Answered
    <2> QED
      BY <2>2, <2>3 DEF ProjectTypes
  <1>4. CASE ListServed(t)
    <2>1. /\ get' = [get EXCEPT ![t] = asked] \/ get' = get
          /\ list' = [list EXCEPT ![t] = Idle]
          /\ UNCHANGED <<server, disk, mem, push, resolve, del, act, closed, edits, reached, discarded, fate>>
      BY <1>4 DEF ListServed, diskVars, auxVars, asked, m
    <2>2. TypeOK'
      BY <1>1, <2>1, TypesOpened, FirstValues DEF ProjectTypes, TypeOK
    <2>3. Shapes'
      BY <1>1, <2>1, TypesOpened DEF ProjectTypes, Shapes, Answered
    <2> QED
      BY <2>2, <2>3 DEF ProjectTypes
  <1>5. CASE Keep(t)
    <2>1. /\ resolve' = [resolve EXCEPT ![t] = kept] /\ disk[Home[t]].project # None
          /\ UNCHANGED <<server, disk, mem, push, get, list, del, act, closed, edits, reached, discarded, fate>>
      BY <1>5 DEF Keep, diskVars, auxVars, kept, m, SyncOf, Blank
    <2>2. TypeOK'
      BY <1>2, <2>1, TypesOpened DEF ProjectTypes, TypeOK
    <2>3. Shapes'
      BY <1>1, <1>2, <2>1, TypesOpened DEF ProjectTypes, Shapes, Answered
    <2> QED
      BY <2>2, <2>3 DEF ProjectTypes
  <1>6. CASE AskAct(t)
    <2>1. act' \in [Tabs -> Requests] /\ \A u \in Tabs : Answered(act'[u], {"none", "sent", "served"})
      <3>1. \A x \in Stages : [act EXCEPT ![t].stage = x] \in [Tabs -> Requests]
        BY TypesOpened, RequestPatched
      <3>2. act' \in [Tabs -> Requests]
        BY <1>6, <3>1 DEF AskAct, Stages
      <3> QED
        BY <1>6, <3>2, TypesOpened DEF AskAct, ProjectTypes, Shapes, Answered
    <2>2. TypeOK' /\ Shapes'
      BY <1>6, <2>1 DEF AskAct, diskVars, auxVars, ProjectTypes, TypeOK, Shapes
    <2> QED
      BY <2>2 DEF ProjectTypes
  <1>7. CASE List(t) \/ ListMissing(t) \/ ServeList(t)
    <2>1. list' \in [Tabs -> Requests]
      <3>1. \A x \in Stages : [list EXCEPT ![t].stage = x] \in [Tabs -> Requests]
        BY TypesOpened, RequestPatched
      <3>2. \A x \in Stages : [list EXCEPT ![t].stage = x, ![t].v = server.v] \in [Tabs -> Requests]
        <4>1. server.v \in 0..MaxDataVersion
          BY DEF ProjectTypes, TypeOK
        <4>2. \A q \in [Tabs -> Requests] : [q EXCEPT ![t].v = server.v] \in [Tabs -> Requests]
          BY <4>1 DEF Requests
        <4>3. \A x \in Stages : [list EXCEPT ![t].stage = x, ![t].v = server.v] = [[list EXCEPT ![t].stage = x] EXCEPT ![t].v = server.v]
          OBVIOUS
        <4> QED
          BY <3>1, <4>2, <4>3
      <3>3. \A x \in Stages : [Idle EXCEPT !.stage = x] \in Requests
        BY FirstValues DEF Requests
      <3>4. "sent" \in Stages /\ "served" \in Stages /\ "missing" \in Stages /\ "rows" \in Stages
        BY DEF Stages
      <3>5. CASE List(t)
        BY <3>1, <3>4, <3>5 DEF List
      <3>6. CASE ServeList(t)
        BY <3>1, <3>2, <3>4, <3>6 DEF ServeList
      <3>7. CASE ListMissing(t)
        <4>1. [Idle EXCEPT !.stage = "rows"] \in Requests
          BY <3>3, <3>4
        <4> QED
          BY <3>7, <4>1, FirstValues, TypesOpened DEF ListMissing
      <3> QED
        BY <1>7, <3>5, <3>6, <3>7
    <2>2. UNCHANGED <<server, disk, mem, push, get, resolve, del, act, closed, edits, reached, discarded, fate>>
      BY <1>7 DEF List, ServeList, ListMissing, diskVars, auxVars
    <2>3. TypeOK' /\ Shapes'
      BY <2>1, <2>2 DEF ProjectTypes, TypeOK, Shapes
    <2> QED
      BY <2>3 DEF ProjectTypes
  <1> QED
    BY <1>3, <1>4, <1>5, <1>6, <1>7

LEMMA ServesKeepTypes ==
  ASSUME ProjectTypes, NEW t \in Tabs,
         ServeGet(t) \/ ServeKeep(t) \/ ServeAct(t) \/ ServeRemoval(t)
  PROVE  ProjectTypes'
  <1>0. "sent" \in Stages /\ "served" \in Stages /\ "missing" \in Stages
    BY DEF Stages
  <1>1. CASE ServeGet(t)
    <2>1. get' \in [Tabs -> Requests]
      <3>1. CASE server.project = None
        BY <1>0, <1>1, <3>1, TypesOpened, RequestPatched DEF ServeGet
      <3>2. CASE server.project # None
        BY <1>0, <1>1, <3>2, TypesOpened, RequestPatched, ServerIsCopy DEF ServeGet
      <3> QED
        BY <3>1, <3>2
    <2>2. \A u \in Tabs : Answered(get'[u], {"none", "sent", "served", "missing"})
      BY <1>1, TypesOpened, ServerIsCopy DEF ServeGet, ProjectTypes, Shapes, Answered, Requests
    <2>3. TypeOK' /\ Shapes'
      BY <1>1, <2>1, <2>2 DEF ServeGet, diskVars, auxVars, ProjectTypes, TypeOK, Shapes
    <2> QED
      BY <2>3 DEF ProjectTypes
  <1>2. CASE ServeKeep(t)
    <2>1. resolve[t].project \in Projects /\ resolve[t].project # None
      BY <1>2, TypesOpened, SentIsNotIdle DEF ServeKeep, ProjectTypes, Shapes, Requests
    <2>2. CASE server.project # None
      <3>1. /\ Accept(resolve[t].project)
            /\ discarded' = discarded \cup (EditsIn(server.project) \ EditsIn(resolve[t].project))
            /\ resolve' = [resolve EXCEPT ![t].stage = "served", ![t].answer = server']
            /\ UNCHANGED <<disk, mem, push, get, list, del, act, closed, edits, fate>>
        BY <1>2, <2>2 DEF ServeKeep, diskVars
      <3>2. /\ server' \in [v : 0..MaxDataVersion, project : Projects \cup {None}] /\ server'.v # 0
            /\ server' \in Copies /\ reached' \subseteq Edits
        BY <2>1, <3>1, ServedKeepTypes
      <3>3. discarded' \subseteq Edits
        BY <2>2, <3>1, EditsInType DEF ProjectTypes, TypeOK
      <3>4. resolve' \in [Tabs -> Requests]
        BY <1>0, <3>1, <3>2, TypesOpened, RequestPatched
      <3>5. TypeOK'
        BY <3>1, <3>2, <3>3, <3>4 DEF ProjectTypes, TypeOK
      <3>6. \A u \in Tabs : Answered(resolve'[u], {"none", "sent", "served"}) /\ (resolve'[u] # Idle => resolve'[u].project # None)
        BY <2>1, <3>1, <3>2, TypesOpened DEF ProjectTypes, Shapes, Answered, Requests
      <3>7. Shapes'
        BY <3>1, <3>2, <3>6 DEF ProjectTypes, Shapes
      <3> QED
        BY <3>5, <3>7 DEF ProjectTypes
    <2>3. CASE server.project = None
      <3>1. /\ resolve' = [resolve EXCEPT ![t] = Idle]
            /\ UNCHANGED <<server, reached, disk, mem, push, get, list, del, act, closed, edits, fate, discarded>>
        BY <1>2, <2>3 DEF ServeKeep, diskVars, Refuse
      <3>2. TypeOK'
        BY <3>1, TypesOpened, FirstValues DEF ProjectTypes, TypeOK
      <3>3. Shapes'
        BY <3>1, TypesOpened, IdleIsAnswered DEF ProjectTypes, Shapes
      <3> QED
        BY <3>2, <3>3 DEF ProjectTypes
    <2> QED
      BY <2>2, <2>3
  <1>3. CASE ServeAct(t)
    <2>2. CASE server.project # None
      <3>0. server.project \in Projects
        BY <2>2 DEF ProjectTypes, TypeOK
      <3>1. /\ Accept(server.project)
            /\ act' = [act EXCEPT ![t].stage = "served", ![t].answer = server']
            /\ UNCHANGED <<disk, mem, push, get, resolve, list, del, closed, edits, discarded, fate>>
        BY <1>3, <2>2 DEF ServeAct, diskVars
      <3>2. /\ server' \in [v : 0..MaxDataVersion, project : Projects \cup {None}] /\ server'.v # 0
            /\ server' \in Copies /\ reached' \subseteq Edits
        BY <2>2, <3>0, <3>1, ServedKeepTypes
      <3>4. act' \in [Tabs -> Requests]
        BY <1>0, <3>1, <3>2, TypesOpened, RequestPatched
      <3>5. TypeOK'
        BY <3>1, <3>2, <3>4 DEF ProjectTypes, TypeOK
      <3>6. \A u \in Tabs : Answered(act'[u], {"none", "sent", "served"})
        BY <3>1, <3>2, TypesOpened DEF ProjectTypes, Shapes, Answered, Requests
      <3>7. Shapes'
        BY <3>1, <3>2, <3>6 DEF ProjectTypes, Shapes
      <3> QED
        BY <3>5, <3>7 DEF ProjectTypes
    <2>3. CASE server.project = None
      <3>1. /\ act' = [act EXCEPT ![t] = Idle]
            /\ UNCHANGED <<server, reached, disk, mem, push, get, resolve, list, del, closed, edits, discarded, fate>>
        BY <1>3, <2>3 DEF ServeAct, diskVars, Refuse
      <3>2. TypeOK'
        BY <3>1, TypesOpened, FirstValues DEF ProjectTypes, TypeOK
      <3>3. Shapes'
        BY <3>1, TypesOpened, IdleIsAnswered DEF ProjectTypes, Shapes
      <3> QED
        BY <3>2, <3>3 DEF ProjectTypes
    <2> QED
      BY <2>2, <2>3
  <1>4. CASE ServeRemoval(t)
    <2>1. server' \in [v : 0..MaxDataVersion, project : Projects \cup {None}] /\ server'.project = None
      BY <1>4 DEF ServeRemoval, ProjectTypes, TypeOK
    <2>2. TypeOK' /\ Shapes'
      BY <1>4, <2>1 DEF ServeRemoval, diskVars, auxVars, ProjectTypes, TypeOK, Shapes
    <2> QED
      BY <2>2 DEF ProjectTypes
  <1> QED
    BY <1>1, <1>2, <1>3, <1>4

(* What a read answered writes. *)
LEMMA RefreshedTypes ==
  ASSUME ProjectTypes, NEW t \in Tabs, NEW s \in Copies, NEW m \in Memories,
         Refreshed(t, disk[Home[t]], s, m)
  PROVE  disk' \in [Browsers -> Caches] /\ mem' \in [Tabs -> Memories]
  <1> DEFINE d == disk[Home[t]]
  <1>1. s.project \in Projects /\ Agreed(SyncOf(d), s) \in Records /\ d \in Caches
    BY TypesOpened, AgreedIsRecord DEF Copies
  <1>2. SyncOf(d).dirty => d.meta \in Records /\ SyncOf(d) = d.meta
    BY TypesOpened DEF SyncOf, Blank, Caches
  <1>3. CASE d.project = None \/ ~SyncOf(d).dirty
    <2>1. /\ disk' = [disk EXCEPT ![Home[t]] = [project |-> s.project, owned |-> Account, meta |-> Agreed(SyncOf(d), s)]]
          /\ mem' = [mem EXCEPT ![t] = m]
      BY <1>3 DEF Refreshed
    <2>2. [project |-> s.project, owned |-> Account, meta |-> Agreed(SyncOf(d), s)] \in Caches
      BY <1>1, Bounds DEF Caches
    <2> QED
      BY <2>1, <2>2, TypesOpened
  <1>4. CASE d.project # None /\ SyncOf(d).dirty /\ d.meta.v # 0 /\ s.v # d.meta.v
    <2>1. CASE Reconcilable(d, s)
      <3>1. Reconciled(d, s) \in Caches /\ [m EXCEPT !.timer = Mine(d) # {}] \in Memories
        BY <1>1, <2>1, ReconciledIsCache, DroppedIsMemory
      <3>2. /\ disk' = [disk EXCEPT ![Home[t]] = Reconciled(d, s)]
            /\ mem' = [mem EXCEPT ![t] = [m EXCEPT !.timer = Mine(d) # {}]]
        BY <1>4, <2>1 DEF Refreshed
      <3> QED
        BY <3>1, <3>2, TypesOpened
    <2>2. CASE ~Reconcilable(d, s)
      <3>1. /\ disk' = [disk EXCEPT ![Home[t]].meta.state = "conflict"]
            /\ mem' = [mem EXCEPT ![t] = [m EXCEPT !.conflict = s]]
        BY <1>4, <2>2 DEF Refreshed
      <3>2. \A x \in SyncStates : [disk EXCEPT ![Home[t]].meta.state = x] \in [Browsers -> Caches]
        BY <1>2, <1>4, TypesOpened DEF Caches, Records
      <3> QED
        BY <3>1, <3>2, StatesKnown, TypesOpened, DroppedIsMemory
    <2> QED
      BY <2>1, <2>2
  <1>5. CASE d.project # None /\ SyncOf(d).dirty /\ (d.meta.v = 0 \/ s.v = d.meta.v)
    <2> DEFINE q == IF d.meta.state = "local" /\ d.meta.gone
                      THEN [d.meta EXCEPT !.state = "saving", !.gone = FALSE] ELSE d.meta
    <2>1. q \in Records
      <3>1. \A x \in SyncStates : [d.meta EXCEPT !.state = x, !.gone = FALSE] \in Records
        BY <1>2, <1>5 DEF Records
      <3> QED
        BY <1>2, <1>5, <3>1, StatesKnown
    <2>2. Merge(d.project, s) \in Projects
      BY <1>1, MergedIsProject DEF Caches
    <2>3. /\ disk' = [disk EXCEPT ![Home[t]] = [project |-> Merge(d.project, s), owned |-> Account, meta |-> q]]
          /\ mem' = [mem EXCEPT ![t] = [m EXCEPT !.timer = TRUE]]
      BY <1>5 DEF Refreshed
    <2> HIDE DEF q
    <2>4. [project |-> Merge(d.project, s), owned |-> Account, meta |-> q] \in Caches
      BY <2>1, <2>2, Bounds DEF Caches
    <2> QED
      BY <2>3, <2>4, TypesOpened, DroppedIsMemory
  <1> QED
    BY <1>3, <1>4, <1>5 DEF Refreshed

LEMMA ReadsKeepTypes ==
  ASSUME ProjectTypes, NEW t \in Tabs,
         GetServed(t) \/ GetMissing(t) \/ ListForgets(t) \/ ActServed(t)
  PROVE  ProjectTypes'
  <1> DEFINE d == disk[Home[t]]
  <1>1. CASE GetServed(t)
    <2>1. get[t].answer \in Copies /\ [mem[t] EXCEPT !.forgotten = FALSE] \in Memories
      BY <1>1, TypesOpened, DroppedIsMemory DEF GetServed, ProjectTypes, Shapes, Answered
    <2>2. disk' \in [Browsers -> Caches] /\ mem' \in [Tabs -> Memories]
      BY <1>1, <2>1, RefreshedTypes DEF GetServed
    <2>3. /\ get' \in [Tabs -> Requests]
          /\ \A u \in Tabs : get'[u] = IF u = t THEN Idle ELSE get[u]
      BY <1>1, TypesOpened, AnsweredToIdle DEF GetServed
    <2>4. TypeOK'
      BY <1>1, <2>2, <2>3 DEF GetServed, auxVars, ProjectTypes, TypeOK
    <2>5. Shapes'
      BY <1>1, <2>3, IdleIsAnswered DEF GetServed, ProjectTypes, Shapes
    <2> QED
      BY <2>4, <2>5 DEF ProjectTypes
  <1>2. CASE GetMissing(t)
    <2>1. disk' \in [Browsers -> Caches]
      BY <1>2, TypesOpened, ForgottenIsCache DEF GetMissing
    <2>2. mem' \in [Tabs -> Memories]
      <3>1. \A x : [mem EXCEPT ![t].timer = @ \/ x] \in [Tabs -> Memories]
        BY TypesOpened DEF Memories
      <3>2. [mem EXCEPT ![t] = Dropped(@, d)] \in [Tabs -> Memories]
        BY TypesOpened, DroppedIsMemory
      <3> QED
        BY <1>2, <3>1, <3>2 DEF GetMissing
    <2>3. /\ get' \in [Tabs -> Requests]
          /\ \A u \in Tabs : get'[u] = IF u = t THEN Idle ELSE get[u]
      BY <1>2, TypesOpened, AnsweredToIdle DEF GetMissing
    <2>4. TypeOK'
      BY <1>2, <2>1, <2>2, <2>3 DEF GetMissing, auxVars, ProjectTypes, TypeOK
    <2>5. Shapes'
      BY <1>2, <2>3, IdleIsAnswered DEF GetMissing, ProjectTypes, Shapes
    <2> QED
      BY <2>4, <2>5 DEF ProjectTypes
  <1>3. CASE ListForgets(t)
    <2>1. disk' \in [Browsers -> Caches] /\ mem' \in [Tabs -> Memories]
      <3>1. CASE KeptForAttach(d)
        BY <1>3, <3>1, TypesOpened DEF ListForgets, diskVars
      <3>2. CASE ~KeptForAttach(d)
        <4>1. /\ disk' = [disk EXCEPT ![Home[t]] = Forgotten(d)]
              /\ mem' = [mem EXCEPT ![t] = Dropped(mem[t], d)]
          BY <1>3, <3>2, TypesOpened DEF ListForgets
        <4>2. Dropped(mem[t], d) \in Memories /\ Forgotten(d) \in Caches
          BY TypesOpened, DroppedIsMemory, ForgottenIsCache
        <4> QED
          BY <4>1, <4>2, TypesOpened
      <3> QED
        BY <3>1, <3>2
    <2>2. list' \in [Tabs -> Requests]
      BY <1>3, TypesOpened, AnsweredToIdle DEF ListForgets
    <2>3. TypeOK' /\ Shapes'
      BY <1>3, <2>1, <2>2 DEF ListForgets, auxVars, ProjectTypes, TypeOK, Shapes
    <2> QED
      BY <2>3 DEF ProjectTypes
  <1>4. CASE ActServed(t)
    <2> DEFINE s == act[t].answer
               pending == d.project # None /\ SyncOf(d).dirty
               q == IF pending THEN [d.meta EXCEPT !.v = s.v, !.base = s.project] ELSE Agreed(SyncOf(d), s)
               p == IF pending THEN Merge(d.project, s) ELSE s.project
    <2>1. s \in Copies /\ s.project \in Projects
      BY <1>4 DEF ActServed, ProjectTypes, Shapes, Answered, Copies
    <2>2. q \in Records
      <3>1. CASE pending
        <4>1. d.meta \in Records
          BY <3>1, TypesOpened DEF SyncOf, Blank, Caches
        <4>2. [d.meta EXCEPT !.v = s.v, !.base = s.project] \in Records
          <5>1. s.v \in 0..MaxDataVersion
            BY <2>1 DEF Copies
          <5> QED
            BY <2>1, <4>1, <5>1 DEF Records
        <4> QED
          BY <3>1, <4>2
      <3>2. CASE ~pending
        BY <2>1, <3>2, TypesOpened, AgreedIsRecord
      <3> QED
        BY <3>1, <3>2
    <2>3. p \in Projects
      BY <2>1, TypesOpened, MergedIsProject DEF Caches
    <2>4. disk' = [disk EXCEPT ![Home[t]] = [project |-> p, owned |-> Account, meta |-> q]]
      BY <1>4 DEF ActServed
    <2>5. mem' \in [Tabs -> Memories]
      <3>1. \A x \in BOOLEAN : [mem EXCEPT ![t].forgotten = FALSE, ![t].timer = @ \/ x] \in [Tabs -> Memories]
        BY TypesOpened DEF Memories
      <3>2. pending \in BOOLEAN
        BY TypesOpened DEF Records
      <3> QED
        BY <1>4, <3>1, <3>2 DEF ActServed
    <2> HIDE DEF q, p
    <2>6. disk' \in [Browsers -> Caches]
      BY <2>2, <2>3, <2>4, TypesOpened, Bounds DEF Caches
    <2>7. /\ act' \in [Tabs -> Requests]
          /\ \A u \in Tabs : act'[u] = IF u = t THEN Idle ELSE act[u]
      BY <1>4, TypesOpened, AnsweredToIdle DEF ActServed
    <2>8. TypeOK'
      BY <1>4, <2>5, <2>6, <2>7 DEF ActServed, auxVars, ProjectTypes, TypeOK
    <2>9. Shapes'
      BY <1>4, <2>7, IdleIsAnswered DEF ActServed, ProjectTypes, Shapes
    <2> QED
      BY <2>8, <2>9 DEF ProjectTypes
  <1> QED
    BY <1>1, <1>2, <1>3, <1>4

(* A request lost changes nothing else. *)
LEMMA LossesKeepTypes ==
  ASSUME ProjectTypes, NEW t \in Tabs,
         Online(t) \/ GetLost(t) \/ KeepLost(t) \/ RemovalLost(t)
  PROVE  ProjectTypes'
  <1>1. CASE Online(t)
    <2>1. mem' \in [Tabs -> Memories]
      BY <1>1, TypesOpened, DroppedIsMemory DEF Online
    <2>2. TypeOK' /\ Shapes'
      BY <1>1, <2>1 DEF Online, netVars, auxVars, ProjectTypes, TypeOK, Shapes
    <2> QED
      BY <2>2 DEF ProjectTypes
  <1>2. CASE GetLost(t)
    <2>1. /\ get' \in [Tabs -> Requests]
          /\ \A u \in Tabs : get'[u] = IF u = t THEN Idle ELSE get[u]
      BY <1>2, TypesOpened, AnsweredToIdle DEF GetLost
    <2>2. TypeOK' /\ Shapes'
      BY <1>2, <2>1, IdleIsAnswered DEF GetLost, diskVars, auxVars, ProjectTypes, TypeOK, Shapes
    <2> QED
      BY <2>2 DEF ProjectTypes
  <1>3. CASE KeepLost(t)
    <2>1. /\ resolve' \in [Tabs -> Requests]
          /\ \A u \in Tabs : resolve'[u] = IF u = t THEN Idle ELSE resolve[u]
      BY <1>3, TypesOpened, AnsweredToIdle DEF KeepLost
    <2>2. TypeOK' /\ Shapes'
      BY <1>3, <2>1, IdleIsAnswered DEF KeepLost, diskVars, auxVars, ProjectTypes, TypeOK, Shapes
    <2> QED
      BY <2>2 DEF ProjectTypes
  <1>4. CASE RemovalLost(t)
    <2>1. TypeOK' /\ Shapes'
      BY <1>4 DEF RemovalLost, diskVars, auxVars, ProjectTypes, TypeOK, Shapes
    <2> QED
      BY <2>1 DEF ProjectTypes
  <1> QED
    BY <1>1, <1>2, <1>3, <1>4

LEMMA ForgetAccountKeepsTypes ==
  ASSUME ProjectTypes, NEW t \in Tabs, ForgetAccount(t)
  PROVE  ProjectTypes'
  <1> DEFINE d == disk[Home[t]]
  <1>1. disk' \in [Browsers -> Caches] /\ mem' \in [Tabs -> Memories]
    <2>1. Dropped(mem[t], d) \in Memories
      BY TypesOpened, DroppedIsMemory
    <2>2. [Dropped(mem[t], d) EXCEPT !.forgotten = TRUE, !.timer = FALSE, !.again = FALSE] \in Memories
      BY <2>1, TypesOpened, DroppedIsMemory
    <2> QED
      BY <2>2, TypesOpened, ForgottenIsCache DEF ForgetAccount, diskVars
  <1>2. discarded' \subseteq Edits
    <2>1. d.project # None => EditsIn(d.project) \subseteq Edits
      BY TypesOpened, EditsInType DEF Caches
    <2> QED
      BY <2>1 DEF ForgetAccount, ProjectTypes, TypeOK
  <1>3. TypeOK' /\ Shapes'
    BY <1>1, <1>2 DEF ForgetAccount, netVars, ProjectTypes, TypeOK, Shapes
  <1> QED
    BY <1>3 DEF ProjectTypes

(* A page opened. *)
LEMMA LoadKeepsTypes ==
  ASSUME ProjectTypes, NEW t \in Tabs, Load(t)
  PROVE  ProjectTypes'
  <1> DEFINE m == SyncOf(disk[Home[t]])
             offer == disk[Home[t]].project # None /\ m.state = "local"
  <1>1. disk' \in [Browsers -> Caches]
    <2>1. CASE offer
      <3>1. disk[Home[t]].meta \in Records /\ m = disk[Home[t]].meta
        BY <2>1, TypesOpened DEF SyncOf, Blank, Caches
      <3>2. Offered(disk[Home[t]].meta) \in Records
        BY <2>1, <3>1, RevisedIsRecord DEF Load
      <3>3. disk' = [disk EXCEPT ![Home[t]].meta = Offered(disk[Home[t]].meta)]
        BY <2>1, TypesOpened DEF Load
      <3> QED
        BY <3>2, <3>3, TypesOpened DEF Caches
    <2>2. CASE ~offer
      BY <2>2, TypesOpened DEF Load
    <2> QED
      BY <2>1, <2>2
  <1>2. mem' \in [Tabs -> Memories]
    <2>1. \A x \in BOOLEAN : [Fresh EXCEPT !.timer = x] \in Memories
      BY FirstValues, DroppedIsMemory DEF Memories
    <2>2. (offer \/ (m.dirty /\ Schedules(m))) \in BOOLEAN
      OBVIOUS
    <2> QED
      BY <2>1, <2>2, TypesOpened DEF Load
  <1>3. /\ push' \in [Tabs -> Requests] /\ get' \in [Tabs -> Requests] /\ resolve' \in [Tabs -> Requests]
        /\ list' \in [Tabs -> Requests] /\ act' \in [Tabs -> Requests]
        /\ \A u \in Tabs : /\ push'[u] = (IF u = t THEN Idle ELSE push[u])
                           /\ get'[u] = (IF u = t THEN Idle ELSE get[u])
                           /\ resolve'[u] = (IF u = t THEN Idle ELSE resolve[u])
                           /\ act'[u] = (IF u = t THEN Idle ELSE act[u])
    BY TypesOpened, AnsweredToIdle DEF Load
  <1>4. TypeOK'
    BY <1>1, <1>2, <1>3 DEF Load, auxVars, ProjectTypes, TypeOK
  <1>5. Shapes'
    BY <1>3, IdleIsAnswered DEF Load, ProjectTypes, Shapes
  <1> QED
    BY <1>4, <1>5 DEF ProjectTypes

(* The types are inductive. *)
LEMMA ProjectTypesInit == Init => ProjectTypes
  <1> SUFFICES ASSUME Init PROVE ProjectTypes
    OBVIOUS
  <1>1. /\ server \in [v : 0..MaxDataVersion, project : Projects \cup {None}]
        /\ server.project # None => server.v # 0
    BY FirstValues, Bounds DEF Init
  <1>2. disk \in [Browsers -> Caches]
    <2>1. [Blank EXCEPT !.v = 1, !.state = "saved", !.base = NewProject] \in Records
      <3>1. 1 \in 0..MaxDataVersion
        BY Bounds
      <3>2. \A x \in SyncStates : [Blank EXCEPT !.v = 1, !.state = x, !.base = NewProject] \in Records
        BY <3>1, FirstValues DEF Records
      <3> QED
        BY <3>2, StatesKnown
    <2> DEFINE saved == [project |-> NewProject, owned |-> Account,
                         meta |-> [Blank EXCEPT !.v = 1, !.state = "saved", !.base = NewProject]]
               none == [project |-> None, owned |-> FALSE, meta |-> None]
    <2>2. saved \in Caches /\ none \in Caches
      BY <2>1, FirstValues, Bounds DEF Caches
    <2>3. disk = [b \in Browsers |-> saved] \/ disk = [b \in Browsers |-> none]
      BY DEF Init
    <2> HIDE DEF saved, none
    <2> QED
      BY <2>2, <2>3
  <1>3. /\ mem \in [Tabs -> Memories] /\ push \in [Tabs -> Requests] /\ get \in [Tabs -> Requests]
        /\ resolve \in [Tabs -> Requests] /\ list \in [Tabs -> Requests] /\ act \in [Tabs -> Requests]
    BY FirstValues DEF Init
  <1>4. del \in [Tabs -> BOOLEAN] /\ edits \in [Browsers -> 0..MaxEdits]
        /\ fate \in [Versions -> {"new", "added", "withdrawn"}]
    BY Bounds DEF Init
  <1>5. TypeOK
    BY <1>1, <1>2, <1>3, <1>4 DEF Init, TypeOK
  <1>6. Shapes
    BY <1>1, IdleIsAnswered DEF Init, Shapes
  <1> QED
    BY <1>5, <1>6 DEF ProjectTypes

LEMMA ProjectTypesNext == ProjectTypes /\ [Next]_syncVars => ProjectTypes'
  <1> SUFFICES ASSUME ProjectTypes, [Next]_syncVars PROVE ProjectTypes'
    OBVIOUS
  <1>1. ASSUME NEW t \in Tabs, PersonActs(t) PROVE ProjectTypes'
    BY <1>1, WritesKeepTypes, PersonKeepsTypes, SendsKeepTypes, LoadKeepsTypes DEF PersonActs
  <1>2. ASSUME NEW t \in Tabs, Saves(t) PROVE ProjectTypes'
    BY <1>2, StartsKeepTypes, LossesKeepTypes, AdoptionsKeepTypes, FailuresKeepTypes DEF Saves
  <1>3. ASSUME NEW t \in Tabs, Reads(t) PROVE ProjectTypes'
    BY <1>3, ReadsKeepTypes, SendsKeepTypes, AdoptionsKeepTypes, LossesKeepTypes, ForgetAccountKeepsTypes DEF Reads
  <1>4. ASSUME NEW t \in Tabs, Serves(t) PROVE ProjectTypes'
    BY <1>4, ServePushKeepsTypes, ServesKeepTypes, SendsKeepTypes DEF Serves
  <1>5. CASE CloseAccount \/ ServerForgets
    <2>1. server' \in [v : 0..MaxDataVersion, project : Projects \cup {None}] /\ server'.project = None
      BY <1>5 DEF CloseAccount, ServerForgets, ProjectTypes, TypeOK
    <2>2. TypeOK' /\ Shapes'
      BY <1>5, <2>1 DEF CloseAccount, ServerForgets, diskVars, netVars, auxVars, ProjectTypes, TypeOK, Shapes
    <2> QED
      BY <2>2 DEF ProjectTypes
  <1>6. CASE UNCHANGED syncVars
    BY <1>6 DEF syncVars, ProjectTypes, TypeOK, Shapes, Answered
  <1> QED
    BY <1>1, <1>2, <1>3, <1>4, <1>5, <1>6 DEF Next

\* The client's and the server's state keep their types in every reachable state:
\* the caches, the tabs' memories, the requests under way, the server's project.
THEOREM ProjectTypeCorrect == Spec => []TypeOK
  <1>1. ProjectTypes => TypeOK
    BY DEF ProjectTypes
  <1> QED
    BY ProjectTypesInit, ProjectTypesNext, <1>1, PTL DEF Spec

\* A project the server keeps has a data_version, a save under way carries a
\* project, and what an answer brings is a copy of the server's.
THEOREM ProjectShapes == Spec => []ProjectTypes
  BY ProjectTypesInit, ProjectTypesNext, PTL DEF Spec

-----------------------------------------------------------------------------
(* What waits to be saved is scheduled. *)

\* Browser b holds something to save, and saves are not stopped there.
Waits(b) ==
  disk[b].project # None /\ SyncOf(disk[b]).dirty /\ Schedules(disk[b].meta)

\* Tab t will save again by itself, or removed the project.  A save whose answer
\* the tab ignores, because it forgot the project, counts as long as the server has
\* not kept it: nothing is kept any more once an account is closed.
Will(t) ==
  \/ mem[t].timer \/ mem[t].removed
  \/ push[t] # Idle /\ (mem[t].again \/ ~mem[t].forgotten \/ push[t].stage # "served")

TabsWillSave ==
  \A b \in Browsers : Waits(b) => \E t \in Tabs : Home[t] = b /\ Will(t)

ClosedIsForgotten ==
  /\ \A t \in Tabs : mem[t].forgotten => closed # "no"
  /\ closed # "no" => server.project = None

ScheduleInv == ProjectTypes /\ TabsWillSave /\ ClosedIsForgotten

(* A step of tab t touches its browser's storage and its own memory. *)
OnlyTab(t) ==
  /\ \A b \in Browsers : b # Home[t] => disk'[b] = disk[b]
  /\ \A u \in Tabs : u # t => mem'[u] = mem[u] /\ push'[u] = push[u]

(* It leaves a save to come, or what waited waits for a save that still comes. *)
Carries(t) ==
  Waits(Home[t])' => \/ Will(t)'
                     \/ Waits(Home[t]) /\ (Will(t) => Will(t)')

(* A step of one tab that carries on keeps what waits scheduled everywhere. *)
LEMMA CarriedOn ==
  ASSUME TabsWillSave, NEW t \in Tabs, OnlyTab(t), Carries(t)
  PROVE  TabsWillSave'
  <1> SUFFICES ASSUME NEW b \in Browsers, Waits(b)'
               PROVE  \E u \in Tabs : Home[u] = b /\ Will(u)'
    BY DEF TabsWillSave
  <1>1. \A u \in Tabs : u # t => (Will(u)' <=> Will(u))
    BY DEF OnlyTab, Will
  <1>2. CASE b # Home[t]
    <2>1. Waits(b)
      BY <1>2 DEF OnlyTab, Waits
    <2>2. PICK u \in Tabs : Home[u] = b /\ Will(u)
      BY <2>1 DEF TabsWillSave
    <2> QED
      BY <1>1, <1>2, <2>2
  <1>3. CASE b = Home[t]
    <2>1. CASE Will(t)'
      BY <1>3, <2>1
    <2>2. CASE Waits(b) /\ (Will(t) => Will(t)')
      <3>1. PICK u \in Tabs : Home[u] = b /\ Will(u)
        BY <2>2 DEF TabsWillSave
      <3> QED
        BY <1>1, <2>2, <3>1
    <2> QED
      BY <1>3, <2>1, <2>2 DEF Carries
  <1> QED
    BY <1>2, <1>3

(* What leaves the storage, the memories and the saves alone leaves the timers. *)
LEMMA QuietSteps ==
  ASSUME ScheduleInv, UNCHANGED <<disk, mem, push>>
  PROVE  TabsWillSave'
  BY DEF ScheduleInv, TabsWillSave, Waits, Will

(* A write schedules its save unless saves are stopped. *)
LEMMA WrittenIsScheduled ==
  ASSUME ProjectTypes, NEW t \in Tabs, NEW p, Written(t, p), push' = push
  PROVE  OnlyTab(t) /\ Carries(t) /\ mem'[t].forgotten = mem[t].forgotten
  <1> DEFINE m == SyncOf(disk[Home[t]])
  <1>1. m \in Records
    BY TypesOpened
  <1>2. OnlyTab(t)
    BY TypesOpened DEF Written, OnlyTab
  <1>3. /\ disk'[Home[t]].meta = Dirtied(m)
        /\ mem'[t].timer = (mem[t].timer \/ Schedules(m))
        /\ mem'[t].forgotten = mem[t].forgotten
    BY TypesOpened DEF Written, Caches, Memories
  <1>4. Schedules(Dirtied(m)) = Schedules(m)
    BY <1>1 DEF Schedules, Dirtied, Records
  <1>5. Waits(Home[t])' => Will(t)'
    BY <1>3, <1>4 DEF Waits, Will
  <1> QED
    BY <1>2, <1>3, <1>5 DEF Carries

LEMMA WritesAreScheduled ==
  ASSUME ScheduleInv, NEW t \in Tabs,
         \/ \E f \in Fields : Edit(t, f)
         \/ \E x \in Versions : AddVersion(t, x) \/ Withdraw(t, x)
  PROVE  TabsWillSave' /\ ClosedIsForgotten'
  <1>1. (\E p : Written(t, p)) /\ push' = push /\ closed' = closed /\ server' = server
    BY DEF Edit, AddVersion, Withdraw, netVars
  <1>2. PICK p : Written(t, p)
    BY <1>1
  <1>3. OnlyTab(t) /\ Carries(t) /\ mem'[t].forgotten = mem[t].forgotten
    BY <1>1, <1>2, WrittenIsScheduled DEF ScheduleInv
  <1> QED
    BY <1>1, <1>3, CarriedOn DEF ScheduleInv, ClosedIsForgotten, OnlyTab

(* Everything a person does. *)
LEMMA PersonIsScheduled ==
  ASSUME ScheduleInv, NEW t \in Tabs, Create(t) \/ Remove(t) \/ RetryLocal(t) \/ Reload(t)
  PROVE  TabsWillSave' /\ ClosedIsForgotten'
  <1> DEFINE d == disk[Home[t]]
  <1>0. ProjectTypes /\ disk \in [Browsers -> Caches] /\ mem \in [Tabs -> Memories] /\ Home[t] \in Browsers
    BY TypesOpened DEF ScheduleInv
  <1>1. CASE Create(t)
    <2>1. OnlyTab(t)
      BY <1>0, <1>1 DEF Create, OnlyTab, netVars
    <2>2. mem'[t].timer = TRUE /\ mem'[t].forgotten = mem[t].forgotten
      BY <1>0, <1>1 DEF Create, Memories
    <2>3. Carries(t)
      BY <2>2 DEF Carries, Will
    <2> QED
      BY <1>1, <2>1, <2>2, <2>3, CarriedOn DEF ScheduleInv, ClosedIsForgotten, OnlyTab, Create
  <1>2. CASE Remove(t)
    <2>1. OnlyTab(t)
      BY <1>0, <1>2 DEF Remove, OnlyTab
    <2>2. disk'[Home[t]].project = None
      BY <1>0, <1>2 DEF Remove, Forgotten
    <2>3. mem'[t].forgotten = mem[t].forgotten
      BY <1>0, <1>2 DEF Remove, Dropped, Memories
    <2>4. Carries(t)
      BY <2>2 DEF Carries, Waits
    <2> QED
      BY <1>2, <2>1, <2>3, <2>4, CarriedOn DEF ScheduleInv, ClosedIsForgotten, OnlyTab, Remove
  <1>3. CASE RetryLocal(t)
    <2>1. OnlyTab(t)
      BY <1>0, <1>3 DEF RetryLocal, OnlyTab, netVars
    <2>2. mem'[t].timer = TRUE /\ mem'[t].forgotten = mem[t].forgotten
      BY <1>0, <1>3 DEF RetryLocal, Memories
    <2>3. Carries(t)
      BY <2>2 DEF Carries, Will
    <2> QED
      BY <1>3, <2>1, <2>2, <2>3, CarriedOn DEF ScheduleInv, ClosedIsForgotten, OnlyTab, RetryLocal
  <1>4. CASE Reload(t)
    <2>1. OnlyTab(t)
      BY <1>0, <1>4 DEF Reload, OnlyTab, netVars
    <2>2. mem'[t].forgotten = mem[t].forgotten
      BY <1>0, <1>4 DEF Reload, Memories
    <2>3. disk'[Home[t]].meta = Agreed(SyncOf(d), mem[t].conflict)
      BY <1>0, <1>4 DEF Reload
    <2>4. Agreed(SyncOf(d), mem[t].conflict).dirty = FALSE
      BY <1>0, SyncIsRecord DEF Agreed, Records
    <2>5. Agreed(SyncOf(d), mem[t].conflict) \in Records
      BY <1>0, <1>4, SyncIsRecord, AgreedIsRecord DEF Reload, Memories
    <2>6. Carries(t)
      BY <2>3, <2>4, <2>5, NoneIsNoValue DEF Carries, Waits, SyncOf
    <2> QED
      BY <1>4, <2>1, <2>2, <2>6, CarriedOn DEF ScheduleInv, ClosedIsForgotten, OnlyTab, Reload
  <1> QED
    BY <1>1, <1>2, <1>3, <1>4

(* A save begun, or asked for while one runs. *)
LEMMA StartPushIsScheduled ==
  ASSUME ProjectTypes, NEW t \in Tabs, NEW m \in Memories, StartPush(t, m),
         m.removed = mem[t].removed, m.forgotten = mem[t].forgotten, m.again = mem[t].again
  PROVE  OnlyTab(t) /\ Carries(t) /\ mem'[t].forgotten = mem[t].forgotten
  <1> DEFINE d == disk[Home[t]]
  <1>0. /\ disk \in [Browsers -> Caches] /\ mem \in [Tabs -> Memories] /\ Home[t] \in Browsers
        /\ push \in [Tabs -> Requests] /\ push[t] \in Requests
    BY TypesOpened
  <1>1. CASE push[t] # Idle
    <2>1. mem' = [mem EXCEPT ![t] = [m EXCEPT !.again = TRUE]] /\ UNCHANGED <<disk, push>>
      BY <1>1 DEF StartPush
    <2>2. mem'[t].again = TRUE /\ mem'[t].forgotten = mem[t].forgotten
      BY <1>0, <2>1 DEF Memories
    <2>3. Will(t)'
      BY <1>1, <2>1, <2>2 DEF Will
    <2> QED
      BY <1>0, <2>1, <2>2, <2>3 DEF OnlyTab, Carries
  <1>2. CASE push[t] = Idle /\ (d.project = None \/ d.meta = None \/ ~Schedules(SyncOf(d)))
    <2>1. mem' = [mem EXCEPT ![t] = Finished(m)] /\ UNCHANGED <<disk, push>>
      BY <1>2 DEF StartPush
    <2>2. mem'[t].forgotten = mem[t].forgotten
      BY <1>0, <2>1 DEF Finished, Memories
    <2>3. ~Waits(Home[t])'
      BY <1>2, <2>1 DEF Waits, SyncOf, Blank
    <2> QED
      BY <1>0, <2>1, <2>2, <2>3 DEF OnlyTab, Carries
  <1>3. CASE push[t] = Idle /\ d.project # None /\ d.meta # None /\ Schedules(SyncOf(d))
    <2>1. /\ push'[t].stage = "sent"
          /\ \A u \in Tabs : u # t => push'[u] = push[u]
          /\ \A b \in Browsers : b # Home[t] => disk'[b] = disk[b]
          /\ mem' = [mem EXCEPT ![t] = m]
      BY <1>0, <1>3 DEF StartPush, Idle
    <2>2. Will(t)'
      BY <2>1, SentIsNotIdle DEF Will
    <2> QED
      BY <1>0, <2>1, <2>2 DEF OnlyTab, Carries
  <1> QED
    BY <1>1, <1>2, <1>3

LEMMA StartsAreScheduled ==
  ASSUME ScheduleInv, NEW t \in Tabs, TimerFires(t) \/ PushNow(t)
  PROVE  TabsWillSave' /\ ClosedIsForgotten'
  <1>0. mem[t] \in Memories /\ ProjectTypes
    BY TypesOpened DEF ScheduleInv
  <1>1. PICK m \in Memories : /\ StartPush(t, m) /\ m.removed = mem[t].removed
                              /\ m.forgotten = mem[t].forgotten /\ m.again = mem[t].again
    <2>1. \A x \in BOOLEAN : LET m == [mem[t] EXCEPT !.timer = x] IN
            /\ m \in Memories /\ m.removed = mem[t].removed
            /\ m.forgotten = mem[t].forgotten /\ m.again = mem[t].again
      BY <1>0 DEF Memories
    <2>2. (mem[t].timer /\ SyncOf(disk[Home[t]]).v # 0) \in BOOLEAN
      OBVIOUS
    <2>3. CASE TimerFires(t)
      BY <2>1, <2>3 DEF TimerFires
    <2>4. CASE PushNow(t)
      BY <2>1, <2>2, <2>4 DEF PushNow
    <2> QED
      BY <2>3, <2>4
  <1>2. closed' = closed /\ server' = server
    BY DEF TimerFires, PushNow
  <1>3. OnlyTab(t) /\ Carries(t) /\ mem'[t].forgotten = mem[t].forgotten
    BY <1>0, <1>1, StartPushIsScheduled
  <1> QED
    BY <1>2, <1>3, CarriedOn DEF ScheduleInv, ClosedIsForgotten, OnlyTab

LEMMA ServePushIsScheduled ==
  ASSUME ScheduleInv, NEW t \in Tabs, ServePush(t)
  PROVE  TabsWillSave' /\ ClosedIsForgotten'
  <1>0. push \in [Tabs -> Requests] /\ push[t] \in Requests
    BY TypesOpened DEF ScheduleInv
  <1>1. closed # "no" => server' = server /\ push'[t].stage \in {"missing", "refused"}
    BY <1>0 DEF ServePush, Refuse, ScheduleInv, ClosedIsForgotten, Requests
  <1>2. push'[t].stage \in {"served", "stale", "missing", "refused"}
    BY <1>0 DEF ServePush, Requests
  <1>3. push'[t] # Idle
    BY <1>2, SentIsNotIdle
  <1>4. disk' = disk /\ mem' = mem /\ closed' = closed /\ \A u \in Tabs : u # t => push'[u] = push[u]
    BY <1>0 DEF ServePush
  <1>5. Will(t)' <=> Will(t)
    BY <1>1, <1>2, <1>3, <1>4, SentIsNotIdle DEF Will, ScheduleInv, ClosedIsForgotten, ServePush
  <1>6. OnlyTab(t) /\ Carries(t)
    BY <1>4, <1>5 DEF OnlyTab, Carries, Waits
  <1> QED
    BY <1>1, <1>4, <1>6, CarriedOn DEF ScheduleInv, ClosedIsForgotten

(* What was written while the save ran is scheduled by its answer. *)
LEMMA AdoptIsScheduled ==
  ASSUME ProjectTypes, NEW t \in Tabs, NEW s \in Copies, NEW rev, NEW m \in Memories, Adopt(t, s, rev, m),
         m.removed = mem[t].removed, m.forgotten = mem[t].forgotten, mem[t].timer => m.timer,
         \A u \in Tabs : u # t => push'[u] = push[u],
         m.forgotten /\ ~m.timer /\ ~m.removed /\ Will(t) => push'[t] = push[t] /\ m.again = mem[t].again
  PROVE  OnlyTab(t) /\ Carries(t) /\ mem'[t].forgotten = mem[t].forgotten
  <1> DEFINE d == disk[Home[t]]
  <1>0. /\ disk \in [Browsers -> Caches] /\ mem \in [Tabs -> Memories] /\ Home[t] \in Browsers
        /\ SyncOf(d) \in Records /\ d \in Caches
    BY TypesOpened
  <1>1. CASE m.forgotten
    <2>1. mem' = [mem EXCEPT ![t] = m] /\ disk' = disk
      BY <1>1 DEF Adopt
    <2>2. Will(t) => Will(t)'
      BY <1>0, <1>1, <2>1 DEF Will
    <2> QED
      BY <1>0, <2>1, <2>2 DEF OnlyTab, Carries, Waits
  <1>2. CASE ~m.forgotten /\ m.removed
    <2>1. mem' = [mem EXCEPT ![t] = m] /\ disk' = disk
      BY <1>2 DEF Adopt
    <2>2. Will(t)'
      BY <1>0, <1>2, <2>1 DEF Will
    <2> QED
      BY <1>0, <2>1, <2>2 DEF OnlyTab, Carries
  <1>3. CASE ~m.forgotten /\ ~m.removed
    <2>1. /\ disk' = [disk EXCEPT ![Home[t]] = Adopted(d, s, rev)]
          /\ mem' = [mem EXCEPT ![t] = [m EXCEPT !.timer = @ \/ SyncOf(d).rev # rev]]
      BY <1>3 DEF Adopt
    <2>2. /\ mem'[t].timer = (m.timer \/ SyncOf(d).rev # rev)
          /\ mem'[t].forgotten = m.forgotten
      BY <1>0, <2>1 DEF Memories
    <2>3. SyncOf(Adopted(d, s, rev)).dirty => SyncOf(d).rev # rev
      <3>1. Adopted(d, s, rev).meta # None
        BY <1>0, AdoptedIsCache, AdoptedMeta DEF Caches
      <3> QED
        BY <1>0, <3>1, AdoptedMeta DEF SyncOf
    <2>4. Waits(Home[t])' => Will(t)'
      BY <1>0, <2>1, <2>2, <2>3 DEF Waits, Will
    <2> QED
      BY <1>0, <2>1, <2>2, <2>4 DEF OnlyTab, Carries
  <1> QED
    BY <1>1, <1>2, <1>3

LEMMA AdoptionsAreScheduled ==
  ASSUME ScheduleInv, NEW t \in Tabs, PushServed(t) \/ KeepServed(t)
  PROVE  TabsWillSave' /\ ClosedIsForgotten'
  <1>0. /\ ProjectTypes /\ mem[t] \in Memories /\ push \in [Tabs -> Requests]
        /\ push' \in [Tabs -> Requests]
    BY TypesOpened, AnsweredToIdle DEF ScheduleInv, PushServed, KeepServed
  <1>1. CASE PushServed(t)
    <2> DEFINE m == Finished(mem[t])
    <2>1. /\ m \in Memories /\ m.removed = mem[t].removed /\ m.forgotten = mem[t].forgotten
          /\ m.timer = (mem[t].timer \/ mem[t].again)
      BY <1>0, FinishedMemory
    <2>2. push[t].answer \in Copies /\ push[t].stage = "served"
      BY <1>0, <1>1 DEF PushServed, ProjectTypes, Shapes, Answered
    <2>3. Adopt(t, push[t].answer, push[t].rev, m) /\ \A u \in Tabs : u # t => push'[u] = push[u]
      BY <1>0, <1>1 DEF PushServed
    <2>4. ~(m.forgotten /\ ~m.timer /\ ~m.removed /\ Will(t))
      BY <2>1, <2>2 DEF Will
    <2>5. mem[t].timer => m.timer
      BY <2>1
    <2> HIDE DEF m
    <2>6. OnlyTab(t) /\ Carries(t) /\ mem'[t].forgotten = mem[t].forgotten
      BY <1>0, <2>1, <2>2, <2>3, <2>4, <2>5, AdoptIsScheduled
    <2> QED
      BY <1>1, <2>6, CarriedOn DEF PushServed, ScheduleInv, ClosedIsForgotten, OnlyTab
  <1>2. CASE KeepServed(t)
    <2> DEFINE m == [mem[t] EXCEPT !.conflict = None]
    <2>1. /\ m \in Memories /\ m.removed = mem[t].removed /\ m.forgotten = mem[t].forgotten
          /\ m.timer = mem[t].timer /\ m.again = mem[t].again
      BY <1>0, DroppedIsMemory DEF Memories
    <2>2. resolve[t].answer \in Copies
      BY <1>0, <1>2 DEF KeepServed, ProjectTypes, Shapes, Answered
    <2>3. Adopt(t, resolve[t].answer, resolve[t].rev, m) /\ push' = push
      BY <1>2 DEF KeepServed
    <2> HIDE DEF m
    <2>6. OnlyTab(t) /\ Carries(t) /\ mem'[t].forgotten = mem[t].forgotten
      BY <1>0, <2>1, <2>2, <2>3, AdoptIsScheduled
    <2> QED
      BY <1>2, <2>6, CarriedOn DEF KeepServed, ScheduleInv, ClosedIsForgotten, OnlyTab
  <1> QED
    BY <1>1, <1>2

(* A cache that may be put in the storage without a timer: nothing is to be saved. *)
Rests(d) == ~(d.project # None /\ SyncOf(d).dirty /\ Schedules(d.meta))

(* A refusal schedules again, stops the saves, or leaves nothing to save. *)
LEMMA FailedIsScheduled ==
  ASSUME ScheduleInv, NEW t \in Tabs, NEW d \in Caches, NEW m \in Memories, Failed(t, d, m),
         m.forgotten = mem[t].forgotten, Rests(d) \/ m.timer
  PROVE  TabsWillSave' /\ ClosedIsForgotten'
  <1>0. /\ disk \in [Browsers -> Caches] /\ mem \in [Tabs -> Memories] /\ Home[t] \in Browsers
        /\ push \in [Tabs -> Requests]
    BY TypesOpened DEF ScheduleInv
  <1>1. OnlyTab(t)
    BY <1>0 DEF Failed, OnlyTab
  <1>2. CASE mem[t].removed
    <2>1. disk'[Home[t]].meta = None /\ mem'[t].forgotten = mem[t].forgotten
      <3>1. /\ disk' = [disk EXCEPT ![Home[t]].meta = None]
            /\ mem' = [mem EXCEPT ![t] = Finished(Dropped(mem[t], disk[Home[t]]))]
        BY <1>2 DEF Failed
      <3>2. Dropped(mem[t], disk[Home[t]]) \in Memories
        BY <1>0, DroppedIsMemory
      <3> QED
        BY <1>0, <3>1, <3>2, FinishedMemory, DroppedMemory DEF Caches
    <2>2. Carries(t)
      BY <2>1 DEF Carries, Waits, SyncOf, Blank
    <2> QED
      BY <1>1, <2>1, <2>2, CarriedOn DEF Failed, ScheduleInv, ClosedIsForgotten, OnlyTab
  <1>3. CASE ~mem[t].removed
    <2>1. disk'[Home[t]] = d /\ mem'[t].timer = (m.timer \/ m.again) /\ mem'[t].forgotten = mem[t].forgotten
      BY <1>0, <1>3 DEF Failed, Finished, Memories
    <2>2. Carries(t)
      BY <2>1 DEF Carries, Waits, Will, Rests
    <2> QED
      BY <1>1, <2>1, <2>2, CarriedOn DEF Failed, ScheduleInv, ClosedIsForgotten, OnlyTab
  <1> QED
    BY <1>2, <1>3

(* A record written over in the storage, its state for one. *)
LEMMA StateSet ==
  ASSUME NEW d \in Caches, NEW m \in Records
  PROVE  /\ [d EXCEPT !.meta = [m EXCEPT !.state = "conflict"]] \in Caches
         /\ [d EXCEPT !.meta = [m EXCEPT !.state = "offline"]] \in Caches
         /\ [d EXCEPT !.meta = [m EXCEPT !.state = "local", !.gone = TRUE]] \in Caches
         /\ [d EXCEPT !.meta = [m EXCEPT !.state = "local", !.gone = FALSE]] \in Caches
         /\ [d EXCEPT !.meta = [m EXCEPT !.v = 0, !.state = "saving"]] \in Caches
         /\ [d EXCEPT !.meta = None] \in Caches
  <1>1. \A x \in SyncStates : /\ [m EXCEPT !.state = x] \in Records
                              /\ [m EXCEPT !.state = x, !.gone = TRUE] \in Records
                              /\ [m EXCEPT !.state = x, !.gone = FALSE] \in Records
    BY DEF Records
  <1>2. \A x \in SyncStates : [m EXCEPT !.v = 0, !.state = x] \in Records
    <2>1. 0 \in 0..MaxDataVersion
      BY Bounds
    <2> QED
      BY <2>1 DEF Records
  <1>3. /\ [m EXCEPT !.state = "conflict"] \in Records
        /\ [m EXCEPT !.state = "offline"] \in Records
        /\ [m EXCEPT !.state = "local", !.gone = TRUE] \in Records
        /\ [m EXCEPT !.state = "local", !.gone = FALSE] \in Records
        /\ [m EXCEPT !.v = 0, !.state = "saving"] \in Records
    BY <1>1, <1>2, StatesKnown
  <1> QED
    BY <1>3, MetaIsCache

(* Each refusal: a conflict, a 404, a quota, the network. *)
LEMMA FailuresAreScheduled ==
  ASSUME ScheduleInv, NEW t \in Tabs,
         PushStale(t) \/ PushMissing(t) \/ PushRefused(t) \/ PushLost(t)
  PROVE  TabsWillSave' /\ ClosedIsForgotten'
  <1> DEFINE d == disk[Home[t]]
             m == SyncOf(d)
  <1>1. d \in Caches /\ m \in Records /\ mem[t] \in Memories
    BY TypesOpened DEF ScheduleInv
  <1>2. \A x \in BOOLEAN : /\ [mem[t] EXCEPT !.timer = x] \in Memories
                           /\ [mem[t] EXCEPT !.timer = x].timer = x
                           /\ [mem[t] EXCEPT !.timer = x].forgotten = mem[t].forgotten
    BY <1>1 DEF Memories
  <1> HIDE DEF m
  <1>3. CASE PushStale(t)
    <2> DEFINE s == push[t].answer
    <2>1. s \in Copies
      BY <1>3 DEF PushStale, ScheduleInv, ProjectTypes, Shapes, Answered
    <2>2. CASE Reconcilable(d, s)
      <3> DEFINE n == [mem[t] EXCEPT !.timer = Mine(d) # {}]
      <3>1. Failed(t, Reconciled(d, s), n)
        BY <1>3, <2>2 DEF PushStale
      <3>2. n \in Memories /\ n.timer = (Mine(d) # {}) /\ n.forgotten = mem[t].forgotten
        BY <1>2
      <3>3. Reconciled(d, s) \in Caches /\ (Rests(Reconciled(d, s)) \/ n.timer)
        BY <1>1, <2>1, <2>2, <3>2, ReconciledIsCache, ReconciledMeta DEF Rests, SyncOf
      <3> HIDE DEF n
      <3> QED
        BY <3>1, <3>2, <3>3, FailedIsScheduled
    <2>3. CASE ~Reconcilable(d, s)
      <3> DEFINE n == [mem[t] EXCEPT !.conflict = s]
                 q == [d EXCEPT !.meta = [m EXCEPT !.state = "conflict"]]
      <3>1. Failed(t, q, n)
        BY <1>3, <2>3 DEF PushStale, m
      <3>2. n \in Memories /\ n.forgotten = mem[t].forgotten
        BY <1>1, <2>1 DEF Memories
      <3>3. q \in Caches /\ Rests(q)
        BY <1>1, StateSet DEF Rests, Schedules, Records, Caches
      <3> HIDE DEF n, q
      <3> QED
        BY <3>1, <3>2, <3>3, FailedIsScheduled
    <2> QED
      BY <2>2, <2>3
  <1>4. CASE PushMissing(t)
    <2> DEFINE q1 == [d EXCEPT !.meta = None]
               q2 == [d EXCEPT !.meta = [m EXCEPT !.state = "local", !.gone = TRUE]]
               q3 == [d EXCEPT !.meta = [m EXCEPT !.v = 0, !.state = "saving"]]
               n1 == Dropped(mem[t], d)
               n3 == [mem[t] EXCEPT !.timer = TRUE]
    <2>1. q1 \in Caches /\ q2 \in Caches /\ q3 \in Caches
      BY <1>1, StateSet
    <2>2. Rests(q1) /\ Rests(q2)
      BY <1>1 DEF Rests, Schedules, SyncOf, Blank, Records, Caches
    <2>3. /\ n1 \in Memories /\ n1.forgotten = mem[t].forgotten
          /\ n3 \in Memories /\ n3.forgotten = mem[t].forgotten /\ n3.timer
      BY <1>1, <1>2, DroppedIsMemory, DroppedMemory
    <2>4. Failed(t, q1, n1) \/ Failed(t, q2, mem[t]) \/ Failed(t, q3, n3)
      BY <1>4 DEF PushMissing, m
    <2> HIDE DEF q1, q2, q3, n1, n3
    <2> QED
      BY <1>1, <2>1, <2>2, <2>3, <2>4, FailedIsScheduled
  <1>5. CASE PushRefused(t)
    <2> DEFINE q == [d EXCEPT !.meta = [m EXCEPT !.state = "local", !.gone = FALSE]]
    <2>1. q \in Caches /\ Rests(q)
      BY <1>1, StateSet DEF Rests, Schedules, Records, Caches
    <2>2. Failed(t, q, mem[t])
      BY <1>5 DEF PushRefused, m
    <2> HIDE DEF q
    <2> QED
      BY <1>1, <2>1, <2>2, FailedIsScheduled
  <1>6. CASE PushLost(t)
    <2> DEFINE q == [d EXCEPT !.meta = [m EXCEPT !.state = "offline"]]
               n == [mem[t] EXCEPT !.timer = TRUE]
    <2>1. q \in Caches /\ n \in Memories /\ n.timer /\ n.forgotten = mem[t].forgotten
      BY <1>1, <1>2, StateSet
    <2>2. Failed(t, q, n)
      BY <1>6 DEF PushLost, m
    <2> HIDE DEF q, n
    <2> QED
      BY <2>1, <2>2, FailedIsScheduled
  <1> QED
    BY <1>3, <1>4, <1>5, <1>6

(* A step that writes cache q and memory n, and leaves the save of its tab alone. *)
LEMMA CachePutIsScheduled ==
  ASSUME ScheduleInv, NEW t \in Tabs, NEW q \in Caches, NEW n \in Memories,
         disk' = [disk EXCEPT ![Home[t]] = q], mem' = [mem EXCEPT ![t] = n],
         push' = push, server' = server, closed' = closed,
         n.forgotten => closed # "no", Rests(q) \/ n.timer
  PROVE  TabsWillSave' /\ ClosedIsForgotten'
  <1>0. /\ disk \in [Browsers -> Caches] /\ mem \in [Tabs -> Memories] /\ Home[t] \in Browsers
    BY TypesOpened DEF ScheduleInv
  <1>1. OnlyTab(t)
    BY <1>0 DEF OnlyTab
  <1>2. disk'[Home[t]] = q /\ mem'[t] = n
    BY <1>0
  <1>3. Carries(t)
    BY <1>2 DEF Carries, Waits, Will, Rests
  <1>4. ClosedIsForgotten'
    BY <1>1, <1>2 DEF ScheduleInv, ClosedIsForgotten, OnlyTab
  <1> QED
    BY <1>1, <1>3, <1>4, CarriedOn DEF ScheduleInv

(* A read answered over what waits schedules it. *)
LEMMA RefreshedIsScheduled ==
  ASSUME ScheduleInv, NEW t \in Tabs, NEW s \in Copies, NEW m \in Memories, ~m.forgotten,
         Refreshed(t, disk[Home[t]], s, m), push' = push, server' = server, closed' = closed
  PROVE  TabsWillSave' /\ ClosedIsForgotten'
  <1> DEFINE d == disk[Home[t]]
  <1>0. /\ disk \in [Browsers -> Caches] /\ mem \in [Tabs -> Memories] /\ Home[t] \in Browsers
        /\ d \in Caches /\ SyncOf(d) \in Records /\ s.project \in Projects
    BY TypesOpened DEF ScheduleInv, Copies
  <1>1. SyncOf(d).dirty => d.meta \in Records /\ SyncOf(d) = d.meta
    BY <1>0 DEF SyncOf, Blank, Caches
  <1>2. \A x \in BOOLEAN : /\ [m EXCEPT !.timer = x] \in Memories
                           /\ [m EXCEPT !.timer = x].timer = x
                           /\ ~[m EXCEPT !.timer = x].forgotten
    BY DEF Memories
  <1>3. CASE d.project = None \/ ~SyncOf(d).dirty
    <2> DEFINE q == [project |-> s.project, owned |-> Account, meta |-> Agreed(SyncOf(d), s)]
    <2>1. disk' = [disk EXCEPT ![Home[t]] = q] /\ mem' = [mem EXCEPT ![t] = m]
      BY <1>3 DEF Refreshed
    <2>2. q \in Caches /\ Rests(q)
      BY <1>0, AgreedMeta, Bounds DEF Caches, Rests, SyncOf
    <2> HIDE DEF q
    <2> QED
      BY <2>1, <2>2, CachePutIsScheduled
  <1>4. CASE d.project # None /\ SyncOf(d).dirty /\ d.meta.v # 0 /\ s.v # d.meta.v
    <2>1. CASE Reconcilable(d, s)
      <3> DEFINE n == [m EXCEPT !.timer = Mine(d) # {}]
      <3>1. disk' = [disk EXCEPT ![Home[t]] = Reconciled(d, s)] /\ mem' = [mem EXCEPT ![t] = n]
        BY <1>4, <2>1 DEF Refreshed
      <3>2. n \in Memories /\ n.timer = (Mine(d) # {}) /\ ~n.forgotten
        BY <1>2
      <3>3. Reconciled(d, s) \in Caches /\ (Rests(Reconciled(d, s)) \/ n.timer)
        BY <1>0, <2>1, <3>2, ReconciledIsCache, ReconciledMeta DEF Rests, SyncOf
      <3> HIDE DEF n
      <3> QED
        BY <3>1, <3>2, <3>3, CachePutIsScheduled
    <2>2. CASE ~Reconcilable(d, s)
      <3>1. /\ disk' = [disk EXCEPT ![Home[t]].meta.state = "conflict"]
            /\ mem' = [mem EXCEPT ![t] = [m EXCEPT !.conflict = s]]
        BY <1>4, <2>2 DEF Refreshed
      <3>2. OnlyTab(t)
        BY <1>0, <3>1 DEF OnlyTab
      <3>3. disk'[Home[t]].meta.state = "conflict" /\ ~mem'[t].forgotten
        BY <1>0, <1>1, <1>4, <3>1 DEF Caches, Records, Memories
      <3>4. Carries(t)
        BY <3>3 DEF Carries, Waits, Schedules
      <3> QED
        BY <3>2, <3>3, <3>4, CarriedOn DEF ScheduleInv, ClosedIsForgotten, OnlyTab
    <2> QED
      BY <2>1, <2>2
  <1>5. CASE d.project # None /\ SyncOf(d).dirty /\ (d.meta.v = 0 \/ s.v = d.meta.v)
    <2>1. mem' = [mem EXCEPT ![t] = [m EXCEPT !.timer = TRUE]] /\ \A b \in Browsers : b # Home[t] => disk'[b] = disk[b]
      BY <1>0, <1>5 DEF Refreshed
    <2>2. OnlyTab(t) /\ mem'[t].timer = TRUE /\ ~mem'[t].forgotten
      BY <1>0, <1>2, <2>1 DEF OnlyTab
    <2>3. Carries(t)
      BY <2>2 DEF Carries, Will
    <2> QED
      BY <2>2, <2>3, CarriedOn DEF ScheduleInv, ClosedIsForgotten, OnlyTab
  <1> QED
    BY <1>3, <1>4, <1>5 DEF Refreshed

(* The answers that write the cache without a save. *)
LEMMA ReadsAreScheduled ==
  ASSUME ScheduleInv, NEW t \in Tabs,
         GetServed(t) \/ GetMissing(t) \/ ListForgets(t) \/ ActServed(t)
  PROVE  TabsWillSave' /\ ClosedIsForgotten'
  <1> DEFINE d == disk[Home[t]]
  <1>0. /\ disk \in [Browsers -> Caches] /\ mem \in [Tabs -> Memories] /\ Home[t] \in Browsers
        /\ d \in Caches /\ SyncOf(d) \in Records /\ mem[t] \in Memories
    BY TypesOpened DEF ScheduleInv
  <1>1. CASE GetServed(t)
    <2>1. get[t].answer \in Copies
      BY <1>1 DEF GetServed, ScheduleInv, ProjectTypes, Shapes, Answered
    <2>2. [mem[t] EXCEPT !.forgotten = FALSE] \in Memories /\ ~[mem[t] EXCEPT !.forgotten = FALSE].forgotten
      BY <1>0 DEF Memories
    <2> QED
      BY <1>1, <2>1, <2>2, RefreshedIsScheduled DEF GetServed
  <1>2. ASSUME Forgotten(d) \in Caches, disk' = [disk EXCEPT ![Home[t]] = Forgotten(d)],
               mem' = [mem EXCEPT ![t] = Dropped(mem[t], d)],
               push' = push, server' = server, closed' = closed
        PROVE  TabsWillSave' /\ ClosedIsForgotten'
    <2>1. Rests(Forgotten(d))
      BY DEF Rests, Forgotten
    <2>2. Dropped(mem[t], d) \in Memories /\ (Dropped(mem[t], d).forgotten => closed # "no")
      <3>1. mem[t].forgotten => closed # "no"
        BY DEF ScheduleInv, ClosedIsForgotten
      <3> QED
        BY <1>0, <3>1, DroppedMemory
    <2> QED
      BY <1>2, <2>1, <2>2, CachePutIsScheduled
  <1>3. CASE GetMissing(t)
    <2>1. CASE disk' = [disk EXCEPT ![Home[t]] = Forgotten(d)] /\ mem' = [mem EXCEPT ![t] = Dropped(mem[t], d)]
      BY <1>2, <1>3, <2>1, ForgottenIsCache DEF GetMissing
    <2>2. CASE disk' = disk /\ \E x : mem' = [mem EXCEPT ![t].timer = @ \/ x]
      <3>1. OnlyTab(t) /\ push' = push
        BY <1>0, <1>3, <2>2 DEF GetMissing, OnlyTab
      <3>2. /\ mem[t].timer => mem'[t].timer
            /\ mem'[t].again = mem[t].again /\ mem'[t].removed = mem[t].removed
            /\ mem'[t].forgotten = mem[t].forgotten
        BY <1>0, <2>2 DEF Memories
      <3>3. Carries(t)
        BY <2>2, <3>1, <3>2 DEF Carries, Waits, Will
      <3> QED
        BY <1>3, <3>1, <3>2, <3>3, CarriedOn DEF GetMissing, ScheduleInv, ClosedIsForgotten, OnlyTab
    <2>3. \/ disk' = [disk EXCEPT ![Home[t]] = Forgotten(d)] /\ mem' = [mem EXCEPT ![t] = Dropped(mem[t], d)]
          \/ disk' = disk /\ \E x : mem' = [mem EXCEPT ![t].timer = @ \/ x]
      BY <1>0, <1>3 DEF GetMissing
    <2> QED
      BY <2>1, <2>2, <2>3
  <1>4. CASE ListForgets(t)
    <2>1. CASE KeptForAttach(d)
      BY <1>4, <2>1, QuietSteps DEF ListForgets, diskVars, ScheduleInv, ClosedIsForgotten
    <2>2. CASE ~KeptForAttach(d)
      <3>1. disk' = [disk EXCEPT ![Home[t]] = Forgotten(d)] /\ mem' = [mem EXCEPT ![t] = Dropped(mem[t], d)]
        BY <1>0, <1>4, <2>2 DEF ListForgets
      <3> QED
        BY <1>2, <1>4, <3>1, ForgottenIsCache DEF ListForgets
    <2> QED
      BY <2>1, <2>2
  <1>5. CASE ActServed(t)
    <2> DEFINE s == act[t].answer
               pending == d.project # None /\ SyncOf(d).dirty
    <2>1. s \in Copies
      BY <1>5 DEF ActServed, ScheduleInv, ProjectTypes, Shapes, Answered
    <2>2. OnlyTab(t)
      BY <1>0, <1>5 DEF ActServed, OnlyTab
    <2>3. mem'[t].timer = (mem[t].timer \/ pending) /\ ~mem'[t].forgotten
      BY <1>0, <1>5 DEF ActServed, Memories
    <2>4. CASE pending
      <3>1. Carries(t)
        BY <2>3, <2>4 DEF Carries, Will
      <3> QED
        BY <1>5, <2>2, <2>3, <3>1, CarriedOn DEF ActServed, ScheduleInv, ClosedIsForgotten, OnlyTab
    <2>5. CASE ~pending
      <3>1. disk'[Home[t]].meta = Agreed(SyncOf(d), s)
        BY <1>0, <1>5, <2>5 DEF ActServed
      <3>2. Carries(t)
        <4>1. disk'[Home[t]].meta # None /\ disk'[Home[t]].meta.dirty = FALSE
          <5>1. Agreed(SyncOf(d), s) # None /\ Agreed(SyncOf(d), s).dirty = FALSE
            BY <1>0, <2>1, AgreedMeta
          <5> QED
            BY <3>1, <5>1
        <4> QED
          BY <4>1 DEF Carries, Waits, SyncOf
      <3> QED
        BY <1>5, <2>2, <2>3, <3>2, CarriedOn DEF ActServed, ScheduleInv, ClosedIsForgotten, OnlyTab
    <2> QED
      BY <2>4, <2>5
  <1> QED
    BY <1>1, <1>3, <1>4, <1>5

(* configureRemote saves what is dirty, and what was refused. *)
LEMMA LoadIsScheduled ==
  ASSUME ScheduleInv, NEW t \in Tabs, Load(t)
  PROVE  TabsWillSave' /\ ClosedIsForgotten'
  <1> DEFINE d == disk[Home[t]]
             m == SyncOf(d)
             offer == d.project # None /\ m.state = "local"
             saved == m.dirty /\ Schedules(m)
  <1>0. /\ disk \in [Browsers -> Caches] /\ mem \in [Tabs -> Memories] /\ Home[t] \in Browsers
        /\ push \in [Tabs -> Requests] /\ d \in Caches /\ m \in Records
    BY TypesOpened DEF ScheduleInv
  <1>1. OnlyTab(t)
    BY <1>0 DEF Load, OnlyTab
  <1>2. mem'[t].timer = (offer \/ saved) /\ ~mem'[t].forgotten
    BY <1>0 DEF Load, Fresh
  <1>3. Carries(t)
    <2>1. CASE offer
      BY <1>2, <2>1 DEF Carries, Will
    <2>2. CASE ~offer
      <3>1. disk' = disk
        BY <2>2 DEF Load
      <3>2. Waits(Home[t]) => saved
        BY DEF Waits, SyncOf, Blank
      <3> QED
        BY <1>2, <3>1, <3>2 DEF Carries, Waits, Will
    <2> QED
      BY <2>1, <2>2
  <1> QED
    BY <1>1, <1>2, <1>3, CarriedOn DEF Load, ScheduleInv, ClosedIsForgotten, OnlyTab

LEMMA OnlineIsScheduled ==
  ASSUME ScheduleInv, NEW t \in Tabs, Online(t)
  PROVE  TabsWillSave' /\ ClosedIsForgotten'
  <1>0. mem \in [Tabs -> Memories]
    BY TypesOpened DEF ScheduleInv
  <1>1. OnlyTab(t) /\ mem'[t].timer = TRUE /\ mem'[t].forgotten = mem[t].forgotten
    BY <1>0 DEF Online, OnlyTab, netVars, Memories
  <1>2. Carries(t)
    BY <1>1 DEF Carries, Will
  <1> QED
    BY <1>1, <1>2, CarriedOn DEF Online, ScheduleInv, ClosedIsForgotten, OnlyTab

(* Forgetting an account takes what waited away with it. *)
LEMMA ForgetAccountIsScheduled ==
  ASSUME ScheduleInv, NEW t \in Tabs, ForgetAccount(t)
  PROVE  TabsWillSave' /\ ClosedIsForgotten'
  <1> DEFINE d == disk[Home[t]]
  <1>0. /\ disk \in [Browsers -> Caches] /\ mem \in [Tabs -> Memories] /\ Home[t] \in Browsers
    BY TypesOpened DEF ScheduleInv
  <1>1. closed # "no" /\ closed' # "no" /\ server' = server /\ push' = push
    BY DEF ForgetAccount, netVars
  <1>2. CASE d.project # None /\ d.owned
    <2>1. OnlyTab(t) /\ disk'[Home[t]].project = None
      BY <1>0, <1>1, <1>2 DEF ForgetAccount, OnlyTab, Forgotten
    <2>2. Carries(t)
      BY <2>1 DEF Carries, Waits
    <2> QED
      BY <1>1, <2>1, <2>2, CarriedOn DEF ScheduleInv, ClosedIsForgotten
  <1>3. CASE ~(d.project # None /\ d.owned)
    BY <1>1, <1>3, QuietSteps DEF ForgetAccount, diskVars, ScheduleInv, ClosedIsForgotten
  <1> QED
    BY <1>2, <1>3

(* What leaves the caches and the timers alone. *)
LEMMA QuietAreScheduled ==
  ASSUME ScheduleInv, NEW t \in Tabs,
         \/ Refresh(t) \/ ListServed(t) \/ Keep(t) \/ AskAct(t) \/ List(t) \/ ListMissing(t) \/ ServeList(t)
         \/ ServeGet(t) \/ ServeKeep(t) \/ ServeAct(t) \/ ServeRemoval(t)
         \/ GetLost(t) \/ KeepLost(t) \/ RemovalLost(t)
         \/ CloseAccount \/ ServerForgets \/ UNCHANGED syncVars
  PROVE  TabsWillSave' /\ ClosedIsForgotten'
  <1>1. UNCHANGED <<disk, mem, push>>
    BY DEF Refresh, ListServed, Keep, AskAct, List, ListMissing, ServeList, ServeGet, ServeKeep,
           ServeAct, ServeRemoval, GetLost, KeepLost, RemovalLost, CloseAccount, ServerForgets,
           diskVars, netVars, syncVars
  <1>2. (closed' = closed \/ closed' # "no") /\ (closed' # "no" => server'.project = None)
    <2>1. CASE ServeKeep(t) \/ ServeAct(t)
      BY <2>1 DEF ServeKeep, ServeAct, Refuse, ScheduleInv, ClosedIsForgotten
    <2>2. CASE ServeRemoval(t) \/ CloseAccount \/ ServerForgets
      <3>1. server.project = None \/ server' = [server EXCEPT !.project = None]
        BY <2>2 DEF ServeRemoval, CloseAccount, ServerForgets
      <3>2. server'.project = None
        BY <2>2 DEF ServeRemoval, CloseAccount, ServerForgets, ScheduleInv, ProjectTypes, TypeOK
      <3> QED
        BY <2>2, <3>2 DEF ServeRemoval, CloseAccount, ServerForgets
    <2>3. CASE server' = server /\ closed' = closed
      BY <2>3 DEF ScheduleInv, ClosedIsForgotten
    <2> QED
      BY <2>1, <2>2, <2>3 DEF Refresh, ListServed, Keep, AskAct, List, ListMissing, ServeList, ServeGet,
           GetLost, KeepLost, RemovalLost, syncVars
  <1> QED
    BY <1>1, <1>2, QuietSteps DEF ScheduleInv, ClosedIsForgotten

(* The schedule is inductive. *)
LEMMA ScheduleInit == Init => ScheduleInv
  <1> SUFFICES ASSUME Init PROVE ScheduleInv
    OBVIOUS
  <1>1. \A b \in Browsers : SyncOf(disk[b]).dirty = FALSE
    <2> DEFINE first == [Blank EXCEPT !.v = 1, !.state = "saved", !.base = NewProject]
    <2>1. first.dirty = FALSE /\ Blank.dirty = FALSE
      BY DEF Blank
    <2>2. \A b \in Browsers : disk[b].meta = None \/ disk[b].meta = first
      BY DEF Init
    <2> HIDE DEF first
    <2> QED
      BY <2>1, <2>2 DEF SyncOf
  <1>2. TabsWillSave
    BY <1>1 DEF TabsWillSave, Waits
  <1>3. ClosedIsForgotten
    BY DEF Init, Fresh, ClosedIsForgotten
  <1> QED
    BY <1>2, <1>3, ProjectTypesInit DEF ScheduleInv

LEMMA ScheduleNext == ScheduleInv /\ [Next]_syncVars => ScheduleInv'
  <1> SUFFICES ASSUME ScheduleInv, [Next]_syncVars PROVE TabsWillSave' /\ ClosedIsForgotten'
    BY ProjectTypesNext DEF ScheduleInv
  <1>1. ASSUME NEW t \in Tabs, PersonActs(t) PROVE TabsWillSave' /\ ClosedIsForgotten'
    BY <1>1, WritesAreScheduled, PersonIsScheduled, QuietAreScheduled, LoadIsScheduled DEF PersonActs
  <1>2. ASSUME NEW t \in Tabs, Saves(t) PROVE TabsWillSave' /\ ClosedIsForgotten'
    BY <1>2, StartsAreScheduled, OnlineIsScheduled, AdoptionsAreScheduled, FailuresAreScheduled DEF Saves
  <1>3. ASSUME NEW t \in Tabs, Reads(t) PROVE TabsWillSave' /\ ClosedIsForgotten'
    BY <1>3, ReadsAreScheduled, QuietAreScheduled, AdoptionsAreScheduled, ForgetAccountIsScheduled DEF Reads
  <1>4. ASSUME NEW t \in Tabs, Serves(t) PROVE TabsWillSave' /\ ClosedIsForgotten'
    BY <1>4, ServePushIsScheduled, QuietAreScheduled DEF Serves
  <1>5. CASE CloseAccount \/ ServerForgets \/ UNCHANGED syncVars
    <2>1. CASE Tabs = {}
      <3>1. UNCHANGED <<disk, mem, push>> /\ (closed' # "no" => server'.project = None)
        BY <1>5 DEF CloseAccount, ServerForgets, diskVars, netVars, syncVars, ScheduleInv, ClosedIsForgotten, ProjectTypes, TypeOK
      <3> QED
        BY <2>1, <3>1, QuietSteps DEF ClosedIsForgotten
    <2>2. CASE Tabs # {}
      BY <1>5, <2>2, QuietAreScheduled
    <2> QED
      BY <2>1, <2>2
  <1> QED
    BY <1>1, <1>2, <1>3, <1>4, <1>5 DEF Next

\* Whatever fails and in whatever order answers come, what waits to be saved has a
\* timer or a save running in some tab of its browser (schedule, push's `finally`,
\* adopt, failed, refreshProject), save in a tab that removed the project.
THEOREM DirtyStaysScheduled == Spec => []DirtyIsScheduled
  <1>1. ScheduleInv => DirtyIsScheduled
    BY DEF ScheduleInv, TabsWillSave, Waits, Will, DirtyIsScheduled
  <1> QED
    BY ScheduleInit, ScheduleNext, <1>1, PTL DEF Spec

-----------------------------------------------------------------------------
(* No edit is lost: where it is proved. *)

OneTabEach == \A t, u \in Tabs : Home[t] = Home[u] => t = u

\* Nothing that takes the project away happens; or nothing reads it back, and who
\* may take it away is the only tab of its browser.
NothingForgotten == Events \cap {"create", "remove", "close", "purge"} = {}
NothingRead ==
  /\ Events \cap {"refresh", "list"} = {}
  /\ Events \cap {"remove", "close"} # {} => OneTabEach /\ "act" \notin Events

\* The tab took the project away, and ignores what its requests bring back.
Gone(t) == mem[t].removed \/ mem[t].forgotten

\* What the events of the instance leave out.
Regime ==
  /\ NothingForgotten =>
       /\ server.project # None /\ closed = "no"
       /\ \A b \in Browsers : disk[b].project # None
       /\ \A t \in Tabs : ~del[t] /\ get[t].stage # "missing" /\ list[t].stage \notin {"missing", "rows"}
  /\ Events \cap {"refresh", "list"} = {} => \A t \in Tabs : get[t] = Idle /\ list[t] = Idle
  /\ "act" \notin Events => \A t \in Tabs : act[t] = Idle
  /\ Events \cap {"remove", "close"} = {} => \A t \in Tabs : ~Gone(t)
  /\ "close" \notin Events => closed = "no"

\* A copy of the server's, or a project, has no edit the server never kept.
KnownCopy(s, k)    == s # None => EditsIn(s.project) \subseteq k
KnownProject(p, k) == p # None => EditsIn(p) \subseteq k
Saved(r, k)        == r.stage = "served" => EditsIn(r.project) \subseteq k

KnownTab(t) ==
  /\ KnownCopy(push[t].answer, reached) /\ KnownCopy(get[t].answer, reached)
  /\ KnownCopy(resolve[t].answer, reached) /\ KnownCopy(act[t].answer, reached)
  /\ KnownCopy(mem[t].conflict, reached)
  /\ Saved(push[t], reached) /\ Saved(resolve[t], reached)

CopiesAreReached ==
  /\ KnownProject(server.project, reached)
  /\ \A t \in Tabs : KnownTab(t)
  /\ \A b \in Browsers : KnownProject(SyncOf(disk[b]).base, reached)

Kept == reached \cup discarded

\* Each edit of made is kept, or waits in cache d.
Held(d, made, kept) ==
  \A e \in made : e \in kept \/ (d.project # None /\ e \in EditsIn(d.project) /\ SyncOf(d).dirty)

\* Save r of what is in cache d: it is no newer, and when it is as new it carries
\* what is not kept.
Rest(r, d, made, kept) ==
  /\ d.project # None
  /\ r.rev =< SyncOf(d).rev
  /\ r.rev = SyncOf(d).rev => made \subseteq kept \cup EditsIn(r.project)

SavesHoldTheRest ==
  \A t \in Tabs : ~Gone(t) =>
    /\ push[t] # Idle    => Rest(push[t], disk[Home[t]], Made(Home[t]), Kept)
    /\ resolve[t] # Idle => Rest(resolve[t], disk[Home[t]], Made(Home[t]), Kept)

GoneIsGone == \A t \in Tabs : Gone(t) => disk[Home[t]].project = None

EditsAreHeld == \A b \in Browsers : Held(disk[b], Made(b), Kept)

LossInv ==
  ProjectTypes /\ CopiesAreReached /\ Regime /\ GoneIsGone /\ SavesHoldTheRest /\ EditsAreHeld

(* A step of tab t touches its browser's storage and its own memory and requests;
   what the server keeps, and what a person gave up, only grows. *)
Touches(t) ==
  /\ \A b \in Browsers : b # Home[t] => disk'[b] = disk[b] /\ edits'[b] = edits[b]
  /\ \A u \in Tabs : u # t =>
       /\ mem'[u] = mem[u] /\ push'[u] = push[u] /\ get'[u] = get[u] /\ resolve'[u] = resolve[u]
       /\ list'[u] = list[u] /\ act'[u] = act[u] /\ del'[u] = del[u]
  /\ reached \subseteq reached' /\ discarded \subseteq discarded'

LEMMA AdoptTouches ==
  ASSUME ProjectTypes, NEW t \in Tabs, NEW s, NEW rev, NEW m, Adopt(t, s, rev, m)
  PROVE  /\ \A b \in Browsers : b # Home[t] => disk'[b] = disk[b]
         /\ \A u \in Tabs : u # t => mem'[u] = mem[u] /\ del'[u] = del[u]
  BY TypesOpened DEF Adopt, ProjectTypes, TypeOK

LEMMA FailedTouches ==
  ASSUME ProjectTypes, NEW t \in Tabs, NEW d, NEW m, Failed(t, d, m)
  PROVE  Touches(t)
  <1>0. TypeOK
    BY DEF ProjectTypes
  <1> QED
    BY <1>0 DEF Failed, Touches, TypeOK, auxVars

LEMMA RefreshedTouches ==
  ASSUME ProjectTypes, NEW t \in Tabs, NEW s, NEW m, Refreshed(t, disk[Home[t]], s, m)
  PROVE  /\ \A b \in Browsers : b # Home[t] => disk'[b] = disk[b]
         /\ \A u \in Tabs : u # t => mem'[u] = mem[u]
  <1>0. TypeOK
    BY DEF ProjectTypes
  <1> QED
    BY <1>0 DEF Refreshed, TypeOK

(* Every step of a tab is one. *)
LEMMA PersonTouches ==
  ASSUME ProjectTypes, NEW t \in Tabs, PersonActs(t)
  PROVE  Touches(t)
  <1>0. TypeOK /\ Home[t] \in Browsers
    BY TypesOpened DEF ProjectTypes
  <1>1. ASSUME NEW f \in Fields, Edit(t, f) PROVE Touches(t)
    BY <1>0, <1>1 DEF Edit, Written, Touches, TypeOK, netVars
  <1>2. ASSUME NEW x \in Versions, AddVersion(t, x) \/ Withdraw(t, x) PROVE Touches(t)
    BY <1>0, <1>2 DEF AddVersion, Withdraw, Written, Touches, TypeOK, netVars
  <1>3. CASE Create(t)
    BY <1>0, <1>3 DEF Create, Touches, TypeOK, netVars, auxVars
  <1>4. CASE Remove(t)
    BY <1>0, <1>4 DEF Remove, Touches, TypeOK
  <1>5. CASE RetryLocal(t)
    BY <1>0, <1>5 DEF RetryLocal, Touches, TypeOK, netVars, auxVars
  <1>6. CASE Reload(t)
    BY <1>0, <1>6 DEF Reload, Touches, TypeOK, netVars
  <1>7. CASE Keep(t) \/ AskAct(t) \/ Refresh(t) \/ List(t)
    BY <1>0, <1>7 DEF Keep, AskAct, Refresh, List, Touches, TypeOK, diskVars, auxVars
  <1>8. CASE Load(t)
    BY <1>0, <1>8 DEF Load, Touches, TypeOK, auxVars
  <1> QED
    BY <1>1, <1>2, <1>3, <1>4, <1>5, <1>6, <1>7, <1>8 DEF PersonActs

LEMMA SavesTouch ==
  ASSUME ProjectTypes, NEW t \in Tabs, Saves(t)
  PROVE  Touches(t)
  <1>0. TypeOK /\ Home[t] \in Browsers
    BY TypesOpened DEF ProjectTypes
  <1>1. ASSUME NEW m, StartPush(t, m) PROVE
          /\ \A b \in Browsers : b # Home[t] => disk'[b] = disk[b]
          /\ \A u \in Tabs : u # t => mem'[u] = mem[u] /\ push'[u] = push[u]
    BY <1>0, <1>1 DEF StartPush, TypeOK
  <1>2. CASE TimerFires(t) \/ PushNow(t)
    BY <1>1, <1>2 DEF TimerFires, PushNow, Touches, auxVars
  <1>3. CASE Online(t)
    BY <1>0, <1>3 DEF Online, Touches, TypeOK, netVars, auxVars
  <1>4. CASE PushServed(t)
    <2>1. \A u \in Tabs : u # t => push'[u] = push[u]
      BY <1>0, <1>4 DEF PushServed, TypeOK
    <2>2. /\ \A b \in Browsers : b # Home[t] => disk'[b] = disk[b]
          /\ \A u \in Tabs : u # t => mem'[u] = mem[u] /\ del'[u] = del[u]
      BY <1>4, AdoptTouches DEF PushServed
    <2> QED
      BY <1>4, <2>1, <2>2 DEF PushServed, Touches, auxVars
  <1>5. CASE PushStale(t)
    BY <1>5, FailedTouches DEF PushStale
  <1>6. CASE PushMissing(t)
    BY <1>6, FailedTouches DEF PushMissing
  <1>7. CASE PushRefused(t) \/ PushLost(t)
    BY <1>7, FailedTouches DEF PushRefused, PushLost
  <1> QED
    BY <1>2, <1>3, <1>4, <1>5, <1>6, <1>7 DEF Saves

LEMMA ReadsTouch ==
  ASSUME ProjectTypes, NEW t \in Tabs, Reads(t)
  PROVE  Touches(t)
  <1>0. TypeOK /\ Home[t] \in Browsers
    BY TypesOpened DEF ProjectTypes
  <1>1. CASE GetServed(t)
    <2>1. \A u \in Tabs : u # t => get'[u] = get[u]
      BY <1>0, <1>1 DEF GetServed, TypeOK
    <2>2. /\ \A b \in Browsers : b # Home[t] => disk'[b] = disk[b]
          /\ \A u \in Tabs : u # t => mem'[u] = mem[u]
      BY <1>1, RefreshedTouches DEF GetServed
    <2> QED
      BY <1>1, <2>1, <2>2 DEF GetServed, Touches, auxVars
  <1>2. CASE GetMissing(t) \/ GetLost(t)
    BY <1>0, <1>2 DEF GetMissing, GetLost, Touches, TypeOK, diskVars, auxVars
  <1>3. CASE ListServed(t) \/ ListMissing(t) \/ ListForgets(t)
    BY <1>0, <1>3 DEF ListServed, ListMissing, ListForgets, Touches, TypeOK, diskVars, auxVars
  <1>4. CASE KeepServed(t)
    <2>1. \A u \in Tabs : u # t => resolve'[u] = resolve[u]
      BY <1>0, <1>4 DEF KeepServed, TypeOK
    <2>2. /\ \A b \in Browsers : b # Home[t] => disk'[b] = disk[b]
          /\ \A u \in Tabs : u # t => mem'[u] = mem[u] /\ del'[u] = del[u]
      BY <1>4, AdoptTouches DEF KeepServed
    <2> QED
      BY <1>4, <2>1, <2>2 DEF KeepServed, Touches, auxVars
  <1>5. CASE KeepLost(t) \/ RemovalLost(t)
    BY <1>0, <1>5 DEF KeepLost, RemovalLost, Touches, TypeOK, diskVars, auxVars
  <1>6. CASE ActServed(t)
    BY <1>0, <1>6 DEF ActServed, Touches, TypeOK, auxVars
  <1>7. CASE ForgetAccount(t)
    BY <1>0, <1>7 DEF ForgetAccount, Touches, TypeOK, diskVars, netVars
  <1> QED
    BY <1>1, <1>2, <1>3, <1>4, <1>5, <1>6, <1>7 DEF Reads

LEMMA ServesTouch ==
  ASSUME ProjectTypes, NEW t \in Tabs, Serves(t)
  PROVE  Touches(t)
  <1>0. TypeOK
    BY DEF ProjectTypes
  <1>1. CASE ServePush(t)
    BY <1>0, <1>1 DEF ServePush, Accept, Refuse, Touches, TypeOK
  <1>2. CASE ServeGet(t) \/ ServeList(t) \/ ServeRemoval(t)
    BY <1>0, <1>2 DEF ServeGet, ServeList, ServeRemoval, Touches, TypeOK, diskVars, auxVars
  <1>3. CASE ServeKeep(t)
    BY <1>0, <1>3 DEF ServeKeep, Accept, Refuse, Touches, TypeOK, diskVars
  <1>4. CASE ServeAct(t)
    BY <1>0, <1>4 DEF ServeAct, Accept, Refuse, Touches, TypeOK, diskVars
  <1> QED
    BY <1>1, <1>2, <1>3, <1>4 DEF Serves

(* What the regime asks of the tab that moves. *)
RegimeAt(t) ==
  /\ NothingForgotten =>
       /\ server.project # None /\ closed = "no" /\ disk[Home[t]].project # None
       /\ ~del[t] /\ get[t].stage # "missing" /\ list[t].stage \notin {"missing", "rows"}
  /\ Events \cap {"refresh", "list"} = {} => get[t] = Idle /\ list[t] = Idle
  /\ "act" \notin Events => act[t] = Idle
  /\ Events \cap {"remove", "close"} = {} => ~Gone(t)
  /\ "close" \notin Events => closed = "no"

(* The other tabs and browsers are where they were. *)
LEMMA RegimeCarried ==
  ASSUME Regime, NEW t \in Tabs, Touches(t), RegimeAt(t)'
  PROVE  Regime'
  <1>1. \A u \in Tabs : u # t => /\ del'[u] = del[u] /\ get'[u] = get[u] /\ list'[u] = list[u]
                                 /\ act'[u] = act[u] /\ (Gone(u)' <=> Gone(u))
    BY DEF Touches, Gone
  <1>2. \A b \in Browsers : b # Home[t] => disk'[b] = disk[b]
    BY DEF Touches
  <1> QED
    BY <1>1, <1>2 DEF Regime, RegimeAt

LEMMA RegimeHere ==
  ASSUME ProjectTypes, Regime, NEW t \in Tabs
  PROVE  RegimeAt(t)
  BY TypesOpened DEF Regime, RegimeAt

LEMMA IdleStage == Idle.stage = "none" /\ Idle.answer = None /\ Idle.project = None
  BY DEF Idle

(* The person's acts. *)
LEMMA PersonInRegime ==
  ASSUME ProjectTypes, Regime, NEW t \in Tabs, PersonActs(t)
  PROVE  RegimeAt(t)'
  <1> DEFINE d == disk[Home[t]]
  <1>0. /\ disk \in [Browsers -> Caches] /\ mem \in [Tabs -> Memories] /\ Home[t] \in Browsers
        /\ d \in Caches /\ mem[t] \in Memories /\ RegimeAt(t) /\ del \in [Tabs -> BOOLEAN]
        /\ get \in [Tabs -> Requests] /\ list \in [Tabs -> Requests] /\ act \in [Tabs -> Requests]
    BY TypesOpened, RegimeHere DEF ProjectTypes, TypeOK
  <1>1. ASSUME NEW p, p # None, Written(t, p), UNCHANGED <<server, netVars, closed>> PROVE RegimeAt(t)'
    <2>1. disk'[Home[t]].project = p
      BY <1>0, <1>1 DEF Written, Caches
    <2>2. mem'[t].removed = mem[t].removed /\ mem'[t].forgotten = mem[t].forgotten
      BY <1>0, <1>1 DEF Written, Memories
    <2> QED
      BY <1>0, <1>1, <2>1, <2>2 DEF RegimeAt, Gone, netVars
  <1>2. ASSUME NEW f \in Fields, Edit(t, f) PROVE RegimeAt(t)'
    <2> DEFINE p == [d.project EXCEPT !.field[f] = @ \cup {<<Home[t], edits[Home[t]] + 1>>}]
    <2>1. Written(t, p) /\ d.project # None /\ UNCHANGED <<server, netVars, closed>>
      BY <1>2 DEF Edit
    <2>3. d.project \in Projects
      BY <1>0, <2>1 DEF Caches
    <2>5. p # None
      <3>1. <<Home[t], edits[Home[t]] + 1>> \in Edits
        <4>1. edits[Home[t]] \in 0..MaxEdits /\ edits[Home[t]] < MaxEdits
          BY <1>0, <1>2 DEF Edit, ProjectTypes, TypeOK
        <4>2. edits[Home[t]] + 1 \in 1..MaxEdits
          BY <4>1, Bounds
        <4> QED
          BY <1>0, <4>2 DEF Edits
      <3>2. p \in Projects
        BY <2>3, <3>1 DEF Projects
      <3> QED
        BY <3>2, NoneIsNoValue
    <2> HIDE DEF p
    <2> QED
      BY <1>1, <2>1, <2>5
  <1>3. ASSUME NEW x \in Versions, AddVersion(t, x) PROVE RegimeAt(t)'
    <2> DEFINE p == [d.project EXCEPT !.versions = @ \cup {x}]
    <2>1. Written(t, p) /\ d.project # None /\ UNCHANGED <<server, netVars, closed>>
      BY <1>3 DEF AddVersion
    <2>2. p \in Projects
      BY <1>0, <2>1 DEF Caches, Projects
    <2> HIDE DEF p
    <2> QED
      BY <1>1, <2>1, <2>2, NoneIsNoValue
  <1>4. ASSUME NEW x \in Versions, Withdraw(t, x) PROVE RegimeAt(t)'
    <2> DEFINE p == [d.project EXCEPT !.versions = @ \ {x}]
    <2>1. Written(t, p) /\ d.project # None /\ UNCHANGED <<server, netVars, closed>>
      BY <1>4 DEF Withdraw
    <2>2. p \in Projects
      BY <1>0, <2>1 DEF Caches, Projects
    <2> HIDE DEF p
    <2> QED
      BY <1>1, <2>1, <2>2, NoneIsNoValue
  <1>5. CASE Create(t)
    <2>1. "create" \in Events /\ ~Gone(t)'
      BY <1>0, <1>5 DEF Create, Gone, Fresh
    <2> QED
      BY <1>0, <1>5, <2>1 DEF Create, RegimeAt, NothingForgotten, netVars
  <1>6. CASE Remove(t)
    BY <1>0, <1>6 DEF Remove, RegimeAt, NothingForgotten
  <1>7. CASE RetryLocal(t)
    BY <1>0, <1>7 DEF RetryLocal, RegimeAt, Gone, netVars, Caches, Memories
  <1>8. CASE Reload(t)
    <2>1. disk'[Home[t]].project = mem[t].conflict.project /\ mem[t].conflict \in Copies
      BY <1>0, <1>8 DEF Reload, Memories
    <2>2. disk'[Home[t]].project # None
      BY <2>1, NoneIsNoValue DEF Copies
    <2>3. mem'[t].removed = mem[t].removed /\ mem'[t].forgotten = mem[t].forgotten
      BY <1>0, <1>8 DEF Reload, Memories
    <2> QED
      BY <1>0, <1>8, <2>2, <2>3 DEF Reload, RegimeAt, Gone, netVars
  <1>9. CASE Keep(t)
    BY <1>0, <1>9 DEF Keep, RegimeAt, Gone, diskVars
  <1>10. CASE AskAct(t)
    BY <1>0, <1>10 DEF AskAct, RegimeAt, Gone, diskVars
  <1>11. CASE Refresh(t)
    <2>1. get'[t].stage = "sent"
      BY <1>0, <1>11 DEF Refresh, Idle
    <2> QED
      BY <1>0, <1>11, <2>1 DEF Refresh, RegimeAt, Gone, diskVars
  <1>12. CASE List(t)
    <2>1. list'[t].stage = "sent"
      BY <1>0, <1>12 DEF List, Requests
    <2> QED
      BY <1>0, <1>12, <2>1 DEF List, RegimeAt, Gone, diskVars
  <1>13. CASE Load(t)
    <2>1. get'[t] = Idle /\ list'[t] = Idle /\ act'[t] = Idle /\ ~Gone(t)'
      BY <1>0, <1>13 DEF Load, Gone, Fresh
    <2>2. disk'[Home[t]].project = d.project
      BY <1>0, <1>13 DEF Load, Caches
    <2> QED
      BY <1>0, <1>13, <2>1, <2>2, IdleStage DEF Load, RegimeAt
  <1> QED
    BY <1>2, <1>3, <1>4, <1>5, <1>6, <1>7, <1>8, <1>9, <1>10, <1>11, <1>12, <1>13 DEF PersonActs

(* An answer adopted takes no project away. *)
LEMMA AdoptInRegime ==
  ASSUME ProjectTypes, NEW t \in Tabs, NEW s \in Copies, NEW rev, NEW m \in Memories,
         Adopt(t, s, rev, m), m.removed = mem[t].removed, m.forgotten = mem[t].forgotten
  PROVE  /\ disk[Home[t]].project # None => disk'[Home[t]].project # None
         /\ Gone(t)' <=> Gone(t)
         /\ ~Gone(t) => del' = del
  <1> DEFINE d == disk[Home[t]]
  <1>0. /\ disk \in [Browsers -> Caches] /\ mem \in [Tabs -> Memories] /\ Home[t] \in Browsers /\ d \in Caches
    BY TypesOpened
  <1>1. Adopted(d, s, rev).project # None
    <2>1. Adopted(d, s, rev).project = Merge(d.project, s)
      BY DEF Adopted
    <2> QED
      BY <1>0, <2>1, MergedIsProject, NoneIsNoValue DEF Caches
  <1>2. disk'[Home[t]] \in {d, Adopted(d, s, rev)}
    BY <1>0 DEF Adopt
  <1>3. mem'[t].removed = m.removed /\ mem'[t].forgotten = m.forgotten
    BY <1>0 DEF Adopt, Memories
  <1> QED
    BY <1>1, <1>2, <1>3 DEF Adopt, Gone

(* A save begun leaves the marks of a removal alone. *)
LEMMA StartPushQuietly ==
  ASSUME ProjectTypes, NEW t \in Tabs, TimerFires(t) \/ PushNow(t)
  PROVE  /\ disk'[Home[t]].project = disk[Home[t]].project
         /\ mem'[t].removed = mem[t].removed /\ mem'[t].forgotten = mem[t].forgotten
         /\ mem'[t].conflict = mem[t].conflict
  <1>0. disk \in [Browsers -> Caches] /\ mem \in [Tabs -> Memories] /\ Home[t] \in Browsers /\ mem[t] \in Memories
    BY TypesOpened
  <1>1. PICK x \in BOOLEAN : StartPush(t, [mem[t] EXCEPT !.timer = x])
    <2>1. (mem[t].timer /\ SyncOf(disk[Home[t]]).v # 0) \in BOOLEAN
      OBVIOUS
    <2> QED
      BY <2>1 DEF TimerFires, PushNow
  <1> DEFINE m == [mem[t] EXCEPT !.timer = x]
  <1>2. /\ m \in Memories /\ m.removed = mem[t].removed /\ m.forgotten = mem[t].forgotten
        /\ m.conflict = mem[t].conflict
    BY <1>0 DEF Memories
  <1>3. StartPush(t, m)
    BY <1>1
  <1> HIDE DEF m
  <1>4. disk'[Home[t]].project = disk[Home[t]].project
    BY <1>0, <1>3 DEF StartPush, Caches
  <1>5. /\ mem'[t].removed = m.removed /\ mem'[t].forgotten = m.forgotten
        /\ mem'[t].conflict = m.conflict
    BY <1>0, <1>2, <1>3 DEF StartPush, Finished, Memories
  <1> QED
    BY <1>2, <1>4, <1>5

LEMMA FailedInRegime ==
  ASSUME ProjectTypes, NEW t \in Tabs, NEW d \in Caches, NEW m \in Memories, Failed(t, d, m),
         m.removed = mem[t].removed, m.forgotten = mem[t].forgotten,
         disk[Home[t]].project # None => d.project # None
  PROVE  /\ disk[Home[t]].project # None => disk'[Home[t]].project # None
         /\ Gone(t)' <=> Gone(t)
  <1>0. disk \in [Browsers -> Caches] /\ mem \in [Tabs -> Memories] /\ Home[t] \in Browsers /\ mem[t] \in Memories
    BY TypesOpened
  <1>1. disk'[Home[t]].project \in {disk[Home[t]].project, d.project}
    BY <1>0 DEF Failed, Caches
  <1>2. mem'[t].removed = mem[t].removed /\ mem'[t].forgotten = mem[t].forgotten
    <2>1. CASE mem[t].removed
      <3>1. mem'[t] = Finished(Dropped(mem[t], disk[Home[t]])) /\ Dropped(mem[t], disk[Home[t]]) \in Memories
        BY <1>0, <2>1, DroppedMemory DEF Failed
      <3> QED
        BY <1>0, <3>1, DroppedMemory, FinishedMemory
    <2>2. CASE ~mem[t].removed
      <3>1. mem'[t] = Finished(m)
        BY <1>0, <2>2 DEF Failed
      <3> QED
        BY <3>1, FinishedMemory
    <2> QED
      BY <2>1, <2>2
  <1> QED
    BY <1>1, <1>2 DEF Gone, Failed

LEMMA SavesInRegime ==
  ASSUME ProjectTypes, Regime, NEW t \in Tabs, Saves(t)
  PROVE  RegimeAt(t)'
  <1> DEFINE d == disk[Home[t]]
             m == SyncOf(d)
  <1>0. /\ d \in Caches /\ mem[t] \in Memories /\ m \in Records /\ RegimeAt(t)
        /\ mem \in [Tabs -> Memories]
    BY TypesOpened, RegimeHere
  <1> HIDE DEF m
  <1>1. ASSUME d.project # None => disk'[Home[t]].project # None, Gone(t)' <=> Gone(t),
               ~Gone(t) => del' = del, UNCHANGED <<server, get, list, act, closed>>
        PROVE  RegimeAt(t)'
    BY <1>0, <1>1 DEF RegimeAt, NothingForgotten
  <1>2. CASE TimerFires(t) \/ PushNow(t)
    <2>1. UNCHANGED <<server, get, list, del, act, closed>>
      BY <1>2 DEF TimerFires, PushNow
    <2> QED
      BY <1>1, <1>2, <2>1, StartPushQuietly DEF Gone
  <1>3. CASE Online(t)
    BY <1>0, <1>1, <1>3 DEF Online, Gone, netVars, Memories
  <1>4. CASE PushServed(t)
    <2>1. /\ Finished(mem[t]) \in Memories /\ Finished(mem[t]).removed = mem[t].removed
          /\ Finished(mem[t]).forgotten = mem[t].forgotten
      BY <1>0, FinishedMemory
    <2>2. push[t].answer \in Copies
      BY <1>4 DEF PushServed, ProjectTypes, Shapes, Answered
    <2> QED
      BY <1>1, <1>4, <2>1, <2>2, AdoptInRegime DEF PushServed
  <1>5. ASSUME NEW q \in Caches, NEW n \in Memories, Failed(t, q, n), n.removed = mem[t].removed,
               n.forgotten = mem[t].forgotten, d.project # None => q.project # None
        PROVE  RegimeAt(t)'
    <2>1. UNCHANGED <<server, get, list, del, act, closed>>
      BY <1>5 DEF Failed
    <2> QED
      BY <1>1, <1>5, <2>1, FailedInRegime
  <1>6. /\ \A x \in BOOLEAN : /\ [mem[t] EXCEPT !.timer = x] \in Memories
                              /\ [mem[t] EXCEPT !.timer = x].removed = mem[t].removed
                              /\ [mem[t] EXCEPT !.timer = x].forgotten = mem[t].forgotten
        /\ \A s \in Copies : /\ [mem[t] EXCEPT !.conflict = s] \in Memories
                             /\ [mem[t] EXCEPT !.conflict = s].removed = mem[t].removed
                             /\ [mem[t] EXCEPT !.conflict = s].forgotten = mem[t].forgotten
    BY <1>0 DEF Memories
  <1>7. \A x : [d EXCEPT !.meta = x].project = d.project
    BY <1>0 DEF Caches
  <1>8. CASE PushStale(t)
    <2> DEFINE s == push[t].answer
    <2>1. s \in Copies
      BY <1>8 DEF PushStale, ProjectTypes, Shapes, Answered
    <2>2. CASE Reconcilable(d, s)
      <3>1. Failed(t, Reconciled(d, s), [mem[t] EXCEPT !.timer = Mine(d) # {}])
        BY <1>8, <2>2 DEF PushStale
      <3>2. Reconciled(d, s) \in Caches /\ Reconciled(d, s).project # None
        BY <1>0, <2>1, <2>2, ReconciledIsCache, ReconciledMeta, NoneIsNoValue
      <3>3. (Mine(d) # {}) \in BOOLEAN
        OBVIOUS
      <3> QED
        BY <1>5, <1>6, <3>1, <3>2, <3>3
    <2>3. CASE ~Reconcilable(d, s)
      <3> DEFINE q == [d EXCEPT !.meta = [m EXCEPT !.state = "conflict"]]
                 n == [mem[t] EXCEPT !.conflict = s]
      <3>1. Failed(t, q, n)
        BY <1>8, <2>3 DEF PushStale, m
      <3>2. q \in Caches /\ q.project = d.project
        BY <1>0, <1>7, StateSet
      <3>3. n \in Memories /\ n.removed = mem[t].removed /\ n.forgotten = mem[t].forgotten
        BY <1>6, <2>1
      <3> HIDE DEF q, n
      <3> QED
        BY <1>5, <3>1, <3>2, <3>3
    <2> QED
      BY <2>2, <2>3
  <1>9. CASE PushMissing(t)
    <2> DEFINE q1 == [d EXCEPT !.meta = None]
               q2 == [d EXCEPT !.meta = [m EXCEPT !.state = "local", !.gone = TRUE]]
               q3 == [d EXCEPT !.meta = [m EXCEPT !.v = 0, !.state = "saving"]]
               n1 == Dropped(mem[t], d)
               n3 == [mem[t] EXCEPT !.timer = TRUE]
    <2>1. q1 \in Caches /\ q2 \in Caches /\ q3 \in Caches
      BY <1>0, StateSet
    <2>2. q1.project = d.project /\ q2.project = d.project /\ q3.project = d.project
      BY <1>7
    <2>3. /\ n1 \in Memories /\ n1.forgotten = mem[t].forgotten /\ n1.removed = mem[t].removed
          /\ n3 \in Memories /\ n3.forgotten = mem[t].forgotten /\ n3.removed = mem[t].removed
      BY <1>0, <1>6, DroppedMemory
    <2>4. Failed(t, q1, n1) \/ Failed(t, q2, mem[t]) \/ Failed(t, q3, n3)
      BY <1>9 DEF PushMissing, m
    <2> HIDE DEF q1, q2, q3, n1, n3
    <2> QED
      BY <1>0, <1>5, <2>1, <2>2, <2>3, <2>4
  <1>10. CASE PushRefused(t)
    <2> DEFINE q == [d EXCEPT !.meta = [m EXCEPT !.state = "local", !.gone = FALSE]]
    <2>1. q \in Caches /\ q.project = d.project
      BY <1>0, <1>7, StateSet
    <2>2. Failed(t, q, mem[t])
      BY <1>10 DEF PushRefused, m
    <2> HIDE DEF q
    <2> QED
      BY <1>0, <1>5, <2>1, <2>2
  <1>11. CASE PushLost(t)
    <2> DEFINE q == [d EXCEPT !.meta = [m EXCEPT !.state = "offline"]]
               n == [mem[t] EXCEPT !.timer = TRUE]
    <2>1. /\ q \in Caches /\ q.project = d.project
          /\ n \in Memories /\ n.removed = mem[t].removed /\ n.forgotten = mem[t].forgotten
      BY <1>0, <1>6, <1>7, StateSet
    <2>2. Failed(t, q, n)
      BY <1>11 DEF PushLost, m
    <2> HIDE DEF q, n
    <2> QED
      BY <1>5, <2>1, <2>2
  <1> QED
    BY <1>2, <1>3, <1>4, <1>8, <1>9, <1>10, <1>11 DEF Saves

(* A read answered leaves a project. *)
LEMMA RefreshedInRegime ==
  ASSUME ProjectTypes, NEW t \in Tabs, NEW s \in Copies, NEW m \in Memories,
         Refreshed(t, disk[Home[t]], s, m)
  PROVE  /\ disk'[Home[t]].project # None
         /\ mem'[t].removed = m.removed /\ mem'[t].forgotten = m.forgotten
  <1> DEFINE d == disk[Home[t]]
  <1>0. /\ disk \in [Browsers -> Caches] /\ mem \in [Tabs -> Memories] /\ Home[t] \in Browsers
        /\ d \in Caches /\ s.project # None
    BY TypesOpened, NoneIsNoValue DEF Copies
  <1>1. mem'[t].removed = m.removed /\ mem'[t].forgotten = m.forgotten
    BY <1>0 DEF Refreshed, Memories
  <1>2. Reconcilable(d, s) => Reconciled(d, s).project # None
    BY <1>0, ReconciledMeta, NoneIsNoValue
  <1>3. Merge(d.project, s) # None
    BY <1>0, MergedIsProject, NoneIsNoValue DEF Caches
  <1>4. disk'[Home[t]].project # None
    BY <1>0, <1>2, <1>3 DEF Refreshed, Caches
  <1> QED
    BY <1>1, <1>4

LEMMA ReadsInRegime ==
  ASSUME ProjectTypes, Regime, NEW t \in Tabs, Reads(t)
  PROVE  RegimeAt(t)'
  <1> DEFINE d == disk[Home[t]]
  <1>0. /\ disk \in [Browsers -> Caches] /\ mem \in [Tabs -> Memories] /\ Home[t] \in Browsers
        /\ d \in Caches /\ mem[t] \in Memories /\ RegimeAt(t) /\ del \in [Tabs -> BOOLEAN]
        /\ get \in [Tabs -> Requests] /\ list \in [Tabs -> Requests] /\ act \in [Tabs -> Requests]
    BY TypesOpened, RegimeHere DEF ProjectTypes, TypeOK
  <1>1. CASE GetServed(t)
    <2> DEFINE m == [mem[t] EXCEPT !.forgotten = FALSE]
    <2>1. get[t].answer \in Copies
      BY <1>1 DEF GetServed, ProjectTypes, Shapes, Answered
    <2>2. m \in Memories /\ m.removed = mem[t].removed /\ ~m.forgotten
      BY <1>0 DEF Memories
    <2>3. Refreshed(t, d, get[t].answer, m)
      BY <1>1 DEF GetServed
    <2> HIDE DEF m
    <2>4. disk'[Home[t]].project # None /\ mem'[t].removed = mem[t].removed /\ ~mem'[t].forgotten
      BY <2>1, <2>2, <2>3, RefreshedInRegime
    <2>5. get'[t] = Idle
      BY <1>0, <1>1 DEF GetServed
    <2> QED
      BY <1>0, <1>1, <2>4, <2>5, IdleStage DEF GetServed, RegimeAt, Gone
  <1>2. CASE GetMissing(t)
    <2>1. ~NothingForgotten /\ get'[t] = Idle
      BY <1>0, <1>2 DEF GetMissing, RegimeAt
    <2>2. Gone(t)' <=> Gone(t)
      <3>1. \/ mem' = [mem EXCEPT ![t] = Dropped(@, d)]
            \/ \E x : mem' = [mem EXCEPT ![t].timer = @ \/ x]
        BY <1>2 DEF GetMissing
      <3>2. CASE mem' = [mem EXCEPT ![t] = Dropped(@, d)]
        BY <1>0, <3>2, DroppedMemory DEF Gone
      <3>3. CASE \E x : mem' = [mem EXCEPT ![t].timer = @ \/ x]
        BY <1>0, <3>3 DEF Gone, Memories
      <3> QED
        BY <3>1, <3>2, <3>3
    <2> QED
      BY <1>0, <1>2, <2>1, <2>2 DEF GetMissing, RegimeAt
  <1>3. CASE GetLost(t)
    <2>1. get'[t] = Idle
      BY <1>0, <1>3 DEF GetLost
    <2> QED
      BY <1>0, <1>3, <2>1, IdleStage DEF GetLost, RegimeAt, Gone, diskVars
  <1>4. CASE ListServed(t)
    <2>1. list'[t] = Idle
      BY <1>0, <1>4 DEF ListServed
    <2>2. get' = get \/ get'[t].stage = "sent"
      BY <1>0, <1>4 DEF ListServed, Idle
    <2>3. ~(Events \cap {"refresh", "list"} = {})
      BY <1>0, <1>4, IdleStage DEF ListServed, RegimeAt
    <2> QED
      BY <1>0, <1>4, <2>1, <2>2, <2>3, IdleStage DEF ListServed, RegimeAt, Gone, diskVars
  <1>5. CASE ListMissing(t) \/ ListForgets(t)
    <2>1. ~NothingForgotten
      BY <1>0, <1>5 DEF ListMissing, ListForgets, RegimeAt
    <2>2. ~(Events \cap {"refresh", "list"} = {})
      BY <1>0, <1>5, IdleStage DEF ListMissing, ListForgets, RegimeAt
    <2>3. Gone(t)' <=> Gone(t)
      BY <1>0, <1>5, DroppedMemory DEF ListMissing, ListForgets, diskVars, Gone
    <2> QED
      BY <1>0, <1>5, <2>1, <2>2, <2>3 DEF ListMissing, ListForgets, RegimeAt
  <1>6. CASE KeepServed(t)
    <2> DEFINE m == [mem[t] EXCEPT !.conflict = None]
    <2>1. m \in Memories /\ m.removed = mem[t].removed /\ m.forgotten = mem[t].forgotten
      BY <1>0 DEF Memories
    <2>2. resolve[t].answer \in Copies /\ Adopt(t, resolve[t].answer, resolve[t].rev, m)
      BY <1>6 DEF KeepServed, ProjectTypes, Shapes, Answered
    <2> HIDE DEF m
    <2>3. /\ d.project # None => disk'[Home[t]].project # None
          /\ Gone(t)' <=> Gone(t)
          /\ ~Gone(t) => del' = del
      BY <2>1, <2>2, AdoptInRegime
    <2> QED
      BY <1>0, <1>6, <2>3 DEF KeepServed, RegimeAt, NothingForgotten
  <1>7. CASE KeepLost(t)
    BY <1>0, <1>7 DEF KeepLost, RegimeAt, Gone, diskVars
  <1>8. CASE ActServed(t)
    <2> DEFINE s == act[t].answer
    <2>1. s \in Copies
      BY <1>8 DEF ActServed, ProjectTypes, Shapes, Answered
    <2>2. disk'[Home[t]].project \in {Merge(d.project, s), s.project}
      BY <1>0, <1>8 DEF ActServed
    <2>3. disk'[Home[t]].project # None
      BY <1>0, <2>1, <2>2, MergedIsProject, NoneIsNoValue DEF Caches, Copies
    <2>4. mem'[t].removed = mem[t].removed /\ ~mem'[t].forgotten /\ act'[t] = Idle
      BY <1>0, <1>8 DEF ActServed, Memories
    <2> QED
      BY <1>0, <1>8, <2>3, <2>4 DEF ActServed, RegimeAt, Gone
  <1>9. CASE RemovalLost(t)
    BY <1>0, <1>9 DEF RemovalLost, RegimeAt, Gone, diskVars
  <1>10. CASE ForgetAccount(t)
    <2>1. closed = "served" /\ closed' = "told"
      BY <1>10 DEF ForgetAccount
    <2>2. "close" \in Events
      BY <1>0, <2>1 DEF RegimeAt
    <2> QED
      BY <1>0, <1>10, <2>2 DEF ForgetAccount, RegimeAt, NothingForgotten, netVars
  <1> QED
    BY <1>1, <1>2, <1>3, <1>4, <1>5, <1>6, <1>7, <1>8, <1>9, <1>10 DEF Reads

LEMMA ServesInRegime ==
  ASSUME ProjectTypes, Regime, NEW t \in Tabs, Serves(t)
  PROVE  RegimeAt(t)'
  <1>0. /\ RegimeAt(t) /\ del \in [Tabs -> BOOLEAN] /\ push \in [Tabs -> Requests]
        /\ get \in [Tabs -> Requests] /\ list \in [Tabs -> Requests] /\ act \in [Tabs -> Requests]
    BY TypesOpened, RegimeHere DEF ProjectTypes, TypeOK
  <1>1. CASE ServePush(t)
    <2>1. push[t].project # None
      BY <1>1, SentIsNotIdle DEF ServePush, ProjectTypes, Shapes
    <2>2. server' = server \/ server'.project = push[t].project
      BY <1>1 DEF ServePush, Accept, Refuse
    <2> QED
      BY <1>0, <1>1, <2>1, <2>2 DEF ServePush, RegimeAt, Gone
  <1>2. CASE ServeGet(t)
    <2>1. get'[t].stage = IF server.project = None THEN "missing" ELSE "served"
      BY <1>0, <1>2 DEF ServeGet, Requests
    <2>2. get[t] # Idle
      BY <1>2, SentIsNotIdle DEF ServeGet
    <2> QED
      BY <1>0, <1>2, <2>1, <2>2 DEF ServeGet, RegimeAt, Gone, diskVars
  <1>3. CASE ServeList(t)
    <2>1. list'[t].stage = IF server.project = None THEN "missing" ELSE "served"
      BY <1>0, <1>3 DEF ServeList, Requests
    <2>2. list[t] # Idle
      BY <1>3, SentIsNotIdle DEF ServeList
    <2> QED
      BY <1>0, <1>3, <2>1, <2>2 DEF ServeList, RegimeAt, Gone, diskVars
  <1>4. CASE ServeKeep(t)
    <2>1. resolve[t].project # None
      BY <1>4, SentIsNotIdle DEF ServeKeep, ProjectTypes, Shapes
    <2>2. server' = server \/ server'.project = resolve[t].project
      BY <1>4 DEF ServeKeep, Accept, Refuse
    <2> QED
      BY <1>0, <1>4, <2>1, <2>2 DEF ServeKeep, RegimeAt, Gone, diskVars
  <1>5. CASE ServeAct(t)
    <2>1. server' = server \/ (server.project # None /\ server'.project = server.project)
      BY <1>5 DEF ServeAct, Accept, Refuse
    <2>2. act[t] # Idle
      BY <1>5, SentIsNotIdle DEF ServeAct
    <2> QED
      BY <1>0, <1>5, <2>1, <2>2 DEF ServeAct, RegimeAt, Gone, diskVars
  <1>6. CASE ServeRemoval(t)
    BY <1>0, <1>6 DEF ServeRemoval, RegimeAt, Gone, diskVars
  <1> QED
    BY <1>1, <1>2, <1>3, <1>4, <1>5, <1>6 DEF Serves

(* The regime is inductive. *)
LEMMA RegimeInit == Init => Regime
  <1> SUFFICES ASSUME Init PROVE Regime
    OBVIOUS
  <1>1. NewProject # None
    BY FirstValues, NoneIsNoValue
  <1>2. \A t \in Tabs : ~Gone(t) /\ ~del[t] /\ get[t] = Idle /\ list[t] = Idle /\ act[t] = Idle
    BY DEF Init, Fresh, Gone
  <1>3. NothingForgotten => server.project # None /\ \A b \in Browsers : disk[b].project # None
    BY <1>1 DEF Init, NothingForgotten
  <1>4. closed = "no"
    BY DEF Init
  <1> QED
    BY <1>2, <1>3, <1>4, IdleStage DEF Regime

LEMMA RegimeNext == ProjectTypes /\ Regime /\ [Next]_syncVars => Regime'
  <1> SUFFICES ASSUME ProjectTypes, Regime, [Next]_syncVars PROVE Regime'
    OBVIOUS
  <1>1. ASSUME NEW t \in Tabs, PersonActs(t) \/ Saves(t) \/ Reads(t) \/ Serves(t) PROVE Regime'
    <2>1. Touches(t)
      BY <1>1, PersonTouches, SavesTouch, ReadsTouch, ServesTouch
    <2>2. RegimeAt(t)'
      BY <1>1, PersonInRegime, SavesInRegime, ReadsInRegime, ServesInRegime
    <2> QED
      BY <2>1, <2>2, RegimeCarried
  <1>2. CASE CloseAccount
    BY <1>2 DEF CloseAccount, Regime, NothingForgotten, Gone, diskVars, netVars
  <1>3. CASE ServerForgets
    BY <1>3 DEF ServerForgets, Regime, NothingForgotten, Gone, diskVars, netVars
  <1>4. CASE UNCHANGED syncVars
    BY <1>4 DEF syncVars, Regime, Gone
  <1> QED
    BY <1>1, <1>2, <1>3, <1>4 DEF Next

(* The copies the client holds carry what the server kept. *)
LEMMA KnownGrows ==
  ASSUME NEW k, NEW l, k \subseteq l
  PROVE  /\ \A s : KnownCopy(s, k) => KnownCopy(s, l)
         /\ \A p : KnownProject(p, k) => KnownProject(p, l)
         /\ \A r : Saved(r, k) => Saved(r, l)
  BY DEF KnownCopy, KnownProject, Saved

LEMMA NothingIsKnown ==
  \A k : KnownCopy(None, k) /\ KnownProject(None, k) /\ Saved(Idle, k)
  BY IdleStage DEF KnownCopy, KnownProject, Saved

LEMMA KnownOfCopy ==
  ASSUME NEW s \in Copies, NEW k
  PROVE  (KnownCopy(s, k) <=> KnownProject(s.project, k)) /\ s.project # None
  BY NoneIsNoValue DEF KnownCopy, KnownProject, Copies

LEMMA KnownStill ==
  ASSUME ProjectTypes, CopiesAreReached, NEW t \in Tabs, reached \subseteq reached'
  PROVE  /\ KnownCopy(push[t].answer, reached') /\ KnownCopy(get[t].answer, reached')
         /\ KnownCopy(resolve[t].answer, reached') /\ KnownCopy(act[t].answer, reached')
         /\ KnownCopy(mem[t].conflict, reached')
         /\ Saved(push[t], reached') /\ Saved(resolve[t], reached')
         /\ KnownProject(server.project, reached')
         /\ KnownProject(SyncOf(disk[Home[t]]).base, reached')
  <1>1. /\ KnownTab(t) /\ KnownProject(server.project, reached)
        /\ KnownProject(SyncOf(disk[Home[t]]).base, reached)
    BY TypesOpened DEF CopiesAreReached
  <1> QED
    BY <1>1, KnownGrows DEF KnownTab

(* The other tabs and browsers hold the copies they held. *)
LEMMA CopiesCarried ==
  ASSUME ProjectTypes, CopiesAreReached, NEW t \in Tabs, Touches(t), KnownTab(t)',
         KnownProject(server.project, reached)',
         KnownProject(SyncOf(disk[Home[t]]).base, reached)'
  PROVE  CopiesAreReached'
  <1>1. reached \subseteq reached'
    BY DEF Touches
  <1>2. ASSUME NEW u \in Tabs, u # t PROVE KnownTab(u)'
    <2>1. /\ push'[u] = push[u] /\ get'[u] = get[u] /\ resolve'[u] = resolve[u]
          /\ act'[u] = act[u] /\ mem'[u] = mem[u]
      BY <1>2 DEF Touches
    <2> QED
      BY <1>1, <2>1, KnownStill DEF KnownTab
  <1>3. ASSUME NEW b \in Browsers, b # Home[t] PROVE KnownProject(SyncOf(disk[b]).base, reached)'
    <2>1. disk'[b] = disk[b] /\ KnownProject(SyncOf(disk[b]).base, reached)
      BY <1>3 DEF Touches, CopiesAreReached
    <2> QED
      BY <1>1, <2>1, KnownGrows
  <1> QED
    BY <1>2, <1>3 DEF CopiesAreReached

(* A write keeps the base. *)
LEMMA WrittenBase ==
  ASSUME NEW m \in Records
  PROVE  /\ Dirtied(m).base = m.base /\ Offered(m).base = m.base
         /\ Dirtied(m).rev = m.rev + 1 /\ Offered(m).rev = m.rev + 1
         /\ Dirtied(m).dirty = TRUE /\ Offered(m).dirty = TRUE
  BY DEF Dirtied, Offered, Records

LEMMA BlankValues == Blank.base = None /\ Blank.rev = 0 /\ Blank.dirty = FALSE /\ Blank.v = 0
  BY DEF Blank

LEMMA PersonCopies ==
  ASSUME ProjectTypes, CopiesAreReached, NEW t \in Tabs, PersonActs(t)
  PROVE  CopiesAreReached'
  <1> DEFINE d == disk[Home[t]]
             m == SyncOf(d)
  <1>0. /\ disk \in [Browsers -> Caches] /\ mem \in [Tabs -> Memories] /\ Home[t] \in Browsers
        /\ d \in Caches /\ mem[t] \in Memories /\ m \in Records
        /\ push \in [Tabs -> Requests] /\ resolve \in [Tabs -> Requests]
        /\ get \in [Tabs -> Requests] /\ list \in [Tabs -> Requests] /\ act \in [Tabs -> Requests]
    BY TypesOpened
  <1>1. Touches(t)
    BY PersonTouches
  <1>2. /\ KnownCopy(push[t].answer, reached') /\ KnownCopy(get[t].answer, reached')
        /\ KnownCopy(resolve[t].answer, reached') /\ KnownCopy(act[t].answer, reached')
        /\ KnownCopy(mem[t].conflict, reached')
        /\ Saved(push[t], reached') /\ Saved(resolve[t], reached')
        /\ KnownProject(server.project, reached')
        /\ KnownProject(m.base, reached')
    BY <1>1, KnownStill DEF Touches
  <1> HIDE DEF m
  <1>3. ASSUME UNCHANGED <<server, netVars>>, mem'[t].conflict \in {mem[t].conflict, None},
               KnownProject(SyncOf(disk[Home[t]]).base, reached)'
        PROVE  CopiesAreReached'
    <2>1. KnownTab(t)'
      BY <1>2, <1>3, NothingIsKnown DEF KnownTab, netVars
    <2>2. KnownProject(server.project, reached)'
      BY <1>2, <1>3
    <2> QED
      BY <1>1, <1>3, <2>1, <2>2, CopiesCarried
  <1>4. ASSUME NEW p, Written(t, p), UNCHANGED <<server, netVars>> PROVE CopiesAreReached'
    <2>1. disk'[Home[t]].meta = Dirtied(m) /\ mem'[t].conflict = mem[t].conflict
      BY <1>0, <1>4 DEF Written, Caches, Memories, m
    <2>2. Dirtied(m) # None
      BY <1>0, <1>4, RevisedIsRecord, NoneIsNoValue DEF Written, m
    <2>3. SyncOf(disk'[Home[t]]).base = m.base
      BY <1>0, <2>1, <2>2, WrittenBase DEF SyncOf
    <2> QED
      BY <1>2, <1>3, <1>4, <2>1, <2>3
  <1>5. ASSUME NEW f \in Fields, Edit(t, f) PROVE CopiesAreReached'
    BY <1>4, <1>5 DEF Edit
  <1>6. ASSUME NEW x \in Versions, AddVersion(t, x) \/ Withdraw(t, x) PROVE CopiesAreReached'
    BY <1>4, <1>6 DEF AddVersion, Withdraw
  <1>7. CASE Create(t)
    <2>1. disk'[Home[t]].meta = Dirtied(Blank) /\ mem'[t].conflict = mem[t].conflict
      BY <1>0, <1>7 DEF Create, Caches, Memories
    <2>2. Dirtied(Blank).base = None
      BY FirstValues, WrittenBase, BlankValues
    <2>3. SyncOf(disk'[Home[t]]).base = None
      BY <2>1, <2>2, BlankValues DEF SyncOf
    <2> QED
      BY <1>3, <1>7, <2>1, <2>3, NothingIsKnown DEF Create
  <1>8. CASE Remove(t)
    <2>1. disk'[Home[t]].meta = None
      BY <1>0, <1>8 DEF Remove, Forgotten
    <2>2. mem'[t].conflict \in {mem[t].conflict, None}
      <3>1. mem'[t] = [Dropped(mem[t], d) EXCEPT !.removed = TRUE]
        BY <1>0, <1>8 DEF Remove
      <3>2. mem'[t].conflict = Dropped(mem[t], d).conflict
        BY <1>0, <3>1, DroppedMemory DEF Memories
      <3> QED
        BY <1>0, <3>2, DroppedMemory
    <2>3. SyncOf(disk'[Home[t]]).base = None
      BY <2>1, BlankValues DEF SyncOf
    <2>4. UNCHANGED <<server, push, get, resolve, list, act>>
      BY <1>8 DEF Remove
    <2> QED
      BY <1>1, <1>2, <2>2, <2>3, <2>4, NothingIsKnown, CopiesCarried DEF KnownTab
  <1>9. CASE RetryLocal(t)
    <2>1. d.meta \in Records /\ m = d.meta
      BY <1>0, <1>9 DEF RetryLocal, SyncOf, Blank, Caches, m
    <2>2. disk'[Home[t]].meta = Offered(m) /\ mem'[t].conflict = mem[t].conflict
      BY <1>0, <1>9, <2>1 DEF RetryLocal, Caches, Memories
    <2>3. Offered(m) # None
      BY <1>9, <2>1, RevisedIsRecord, NoneIsNoValue DEF RetryLocal
    <2>4. SyncOf(disk'[Home[t]]).base = m.base
      BY <2>1, <2>2, <2>3, WrittenBase DEF SyncOf
    <2> QED
      BY <1>2, <1>3, <1>9, <2>2, <2>4 DEF RetryLocal
  <1>10. CASE Reload(t)
    <2> DEFINE s == mem[t].conflict
    <2>1. s \in Copies
      BY <1>0, <1>10 DEF Reload, Memories
    <2>2. disk'[Home[t]].meta = Agreed(m, s) /\ mem'[t].conflict = None
      <3>1. disk' = [disk EXCEPT ![Home[t]] =
              [project |-> s.project, owned |-> Account, meta |-> Agreed(SyncOf(d), s)]]
        BY <1>10 DEF Reload
      <3>2. disk'[Home[t]].meta = Agreed(SyncOf(d), s)
        BY <1>0, <3>1
      <3>3. mem'[t].conflict = None
        BY <1>0, <1>10 DEF Reload, Memories
      <3> QED
        BY <3>2, <3>3 DEF m
    <2>3. SyncOf(disk'[Home[t]]).base = s.project
      <3>1. Agreed(m, s) # None /\ Agreed(m, s).base = s.project
        BY <1>0, <2>1, AgreedMeta
      <3> QED
        BY <2>2, <3>1 DEF SyncOf
    <2>4. KnownProject(s.project, reached')
      BY <1>2, <2>1, KnownOfCopy
    <2> QED
      BY <1>3, <1>10, <2>2, <2>3, <2>4 DEF Reload
  <1>11. ASSUME UNCHANGED <<server, disk, mem, push>>,
                get'[t].answer \in {get[t].answer, None}, act'[t].answer \in {act[t].answer, None},
                resolve' = resolve \/ (resolve'[t].answer = None /\ resolve'[t].stage = "sent")
         PROVE  CopiesAreReached'
    <2>1. KnownTab(t)'
      BY <1>2, <1>11, NothingIsKnown DEF KnownTab, Saved
    <2>2. KnownProject(server.project, reached)' /\ KnownProject(SyncOf(disk[Home[t]]).base, reached)'
      BY <1>2, <1>11 DEF m
    <2> QED
      BY <1>1, <2>1, <2>2, CopiesCarried
  <1>12. CASE Keep(t)
    <2>1. resolve'[t].answer = None /\ resolve'[t].stage = "sent"
      BY <1>0, <1>12 DEF Keep, Idle
    <2> QED
      BY <1>11, <1>12, <2>1 DEF Keep, diskVars
  <1>13. CASE AskAct(t)
    <2>1. act'[t].answer = act[t].answer
      BY <1>0, <1>13 DEF AskAct, Requests
    <2> QED
      BY <1>11, <1>13, <2>1 DEF AskAct, diskVars
  <1>14. CASE Refresh(t)
    <2>1. get'[t].answer = None
      BY <1>0, <1>14 DEF Refresh, Idle
    <2> QED
      BY <1>11, <1>14, <2>1 DEF Refresh, diskVars
  <1>15. CASE List(t)
    BY <1>11, <1>15 DEF List, diskVars
  <1>16. CASE Load(t)
    <2>1. /\ push'[t] = Idle /\ get'[t] = Idle /\ resolve'[t] = Idle /\ act'[t] = Idle
          /\ mem'[t].conflict = None /\ server' = server
      BY <1>0, <1>16 DEF Load, Fresh
    <2>2. SyncOf(disk'[Home[t]]).base = m.base
      <3>1. CASE d.project # None /\ m.state = "local"
        <4>1. d.meta \in Records /\ m = d.meta
          BY <1>0, <3>1 DEF SyncOf, Blank, Caches, m
        <4>2. disk'[Home[t]].meta = Offered(m)
          BY <1>0, <1>16, <3>1, <4>1 DEF Load, Caches, m
        <4>3. Offered(m) # None
          BY <1>16, <3>1, <4>1, RevisedIsRecord, NoneIsNoValue DEF Load, m
        <4> QED
          BY <4>1, <4>2, <4>3, WrittenBase DEF SyncOf
      <3>2. CASE ~(d.project # None /\ m.state = "local")
        BY <1>16, <3>2 DEF Load, m
      <3> QED
        BY <3>1, <3>2
    <2>3. KnownTab(t)'
      BY <2>1, IdleStage, NothingIsKnown DEF KnownTab
    <2>4. KnownProject(server.project, reached)' /\ KnownProject(SyncOf(disk[Home[t]]).base, reached)'
      BY <1>2, <2>1, <2>2
    <2> QED
      BY <1>1, <2>3, <2>4, CopiesCarried
  <1> QED
    BY <1>5, <1>6, <1>7, <1>8, <1>9, <1>10, <1>12, <1>13, <1>14, <1>15, <1>16 DEF PersonActs

(* A save begun has no answer yet. *)
LEMMA StartPushCopies ==
  ASSUME ProjectTypes, NEW t \in Tabs, TimerFires(t) \/ PushNow(t)
  PROVE  /\ SyncOf(disk'[Home[t]]).base = SyncOf(disk[Home[t]]).base
         /\ push'[t] = push[t] \/ (push'[t].stage = "sent" /\ push'[t].answer = None)
  <1> DEFINE d == disk[Home[t]]
  <1>0. disk \in [Browsers -> Caches] /\ push \in [Tabs -> Requests] /\ Home[t] \in Browsers /\ d \in Caches
    BY TypesOpened
  <1>1. PICK m : StartPush(t, m)
    BY DEF TimerFires, PushNow
  <1>2. CASE disk' = disk /\ push' = push
    BY <1>2
  <1>3. CASE /\ d.meta # None
             /\ push' = [push EXCEPT ![t] = [Idle EXCEPT !.stage = "sent", !.v = d.meta.v,
                                               !.rev = d.meta.rev, !.project = d.project]]
             /\ disk' = [disk EXCEPT ![Home[t]].meta.state = "saving"]
    <2>1. disk'[Home[t]].meta = [d.meta EXCEPT !.state = "saving"] /\ d.meta \in Records
      BY <1>0, <1>3 DEF Caches
    <2>2. \A x \in SyncStates : [d.meta EXCEPT !.state = x] \in Records /\ [d.meta EXCEPT !.state = x].base = d.meta.base
      BY <2>1 DEF Records
    <2>3. disk'[Home[t]].meta # None /\ disk'[Home[t]].meta.base = d.meta.base
      BY <2>1, <2>2, StatesKnown, NoneIsNoValue
    <2>4. push'[t].stage = "sent" /\ push'[t].answer = None
      BY <1>0, <1>3 DEF Idle
    <2> QED
      BY <1>3, <2>3, <2>4 DEF SyncOf
  <1> QED
    BY <1>1, <1>2, <1>3 DEF StartPush

(* An answer adopted becomes the base. *)
LEMMA AdoptCopies ==
  ASSUME ProjectTypes, NEW t \in Tabs, NEW s \in Copies, NEW rev, NEW m \in Memories, Adopt(t, s, rev, m)
  PROVE  /\ SyncOf(disk'[Home[t]]).base \in {SyncOf(disk[Home[t]]).base, s.project}
         /\ mem'[t].conflict = m.conflict
  <1>0. disk \in [Browsers -> Caches] /\ mem \in [Tabs -> Memories] /\ Home[t] \in Browsers
        /\ disk[Home[t]] \in Caches
    BY TypesOpened
  <1>1. mem'[t].conflict = m.conflict
    BY <1>0 DEF Adopt, Memories
  <1>2. SyncOf(Adopted(disk[Home[t]], s, rev)).base = s.project
    BY <1>0, AdoptedMeta DEF SyncOf
  <1>3. disk'[Home[t]] \in {disk[Home[t]], Adopted(disk[Home[t]], s, rev)}
    BY <1>0 DEF Adopt
  <1> QED
    BY <1>1, <1>2, <1>3

(* A refusal adopts a copy of the server's or none. *)
LEMMA FailedCopies ==
  ASSUME ProjectTypes, NEW t \in Tabs, NEW q \in Caches, NEW m \in Memories, Failed(t, q, m)
  PROVE  /\ SyncOf(disk'[Home[t]]).base \in {None, SyncOf(q).base}
         /\ mem'[t].conflict \in {mem[t].conflict, m.conflict, None}
         /\ push'[t] = Idle
  <1>0. disk \in [Browsers -> Caches] /\ mem \in [Tabs -> Memories] /\ Home[t] \in Browsers
        /\ push \in [Tabs -> Requests] /\ mem[t] \in Memories
    BY TypesOpened
  <1>1. disk'[Home[t]].meta = None \/ disk'[Home[t]] = q
    BY <1>0 DEF Failed, Caches
  <1>2. mem'[t] \in {Finished(Dropped(mem[t], disk[Home[t]])), Finished(m)}
    BY <1>0 DEF Failed
  <1>3. Dropped(mem[t], disk[Home[t]]) \in Memories
    BY <1>0, DroppedMemory
  <1>4. mem'[t].conflict \in {mem[t].conflict, m.conflict, None}
    <2>1. /\ Finished(m).conflict = m.conflict
          /\ Finished(Dropped(mem[t], disk[Home[t]])).conflict = Dropped(mem[t], disk[Home[t]]).conflict
      BY <1>3, FinishedMemory
    <2>2. Dropped(mem[t], disk[Home[t]]).conflict \in {mem[t].conflict, None}
      BY <1>0, DroppedMemory
    <2> QED
      BY <1>2, <2>1, <2>2
  <1>5. push'[t] = Idle
    BY <1>0 DEF Failed
  <1> QED
    BY <1>1, <1>4, <1>5, BlankValues DEF SyncOf

(* The records a failure writes: everything but the state, and the version once. *)
LEMMA StateSetValues ==
  ASSUME NEW d \in Caches, NEW m \in Records
  PROVE  /\ \A q \in {[d EXCEPT !.meta = [m EXCEPT !.state = "conflict"]],
                      [d EXCEPT !.meta = [m EXCEPT !.state = "offline"]],
                      [d EXCEPT !.meta = [m EXCEPT !.state = "local", !.gone = TRUE]],
                      [d EXCEPT !.meta = [m EXCEPT !.state = "local", !.gone = FALSE]],
                      [d EXCEPT !.meta = [m EXCEPT !.v = 0, !.state = "saving"]]} :
              /\ q \in Caches /\ q.project = d.project /\ q.owned = d.owned
              /\ SyncOf(q).base = m.base /\ SyncOf(q).rev = m.rev /\ SyncOf(q).dirty = m.dirty
         /\ SyncOf([d EXCEPT !.meta = [m EXCEPT !.state = "conflict"]]).v = m.v
         /\ SyncOf([d EXCEPT !.meta = [m EXCEPT !.state = "offline"]]).v = m.v
         /\ SyncOf([d EXCEPT !.meta = [m EXCEPT !.state = "local", !.gone = TRUE]]).v = m.v
         /\ SyncOf([d EXCEPT !.meta = [m EXCEPT !.state = "local", !.gone = FALSE]]).v = m.v
         /\ SyncOf([d EXCEPT !.meta = [m EXCEPT !.v = 0, !.state = "saving"]]).v = 0
  <1>1. \A x \in Records : [d EXCEPT !.meta = x].project = d.project /\ [d EXCEPT !.meta = x].owned = d.owned
                           /\ [d EXCEPT !.meta = x].meta = x /\ [d EXCEPT !.meta = x] \in Caches
    BY DEF Caches
  <1>2. \A x \in SyncStates : \A y \in BOOLEAN :
          /\ [m EXCEPT !.state = x] \in Records
          /\ [m EXCEPT !.state = x, !.gone = y] \in Records
          /\ [m EXCEPT !.state = x].base = m.base /\ [m EXCEPT !.state = x].rev = m.rev
          /\ [m EXCEPT !.state = x].dirty = m.dirty /\ [m EXCEPT !.state = x].v = m.v
          /\ [m EXCEPT !.state = x, !.gone = y].base = m.base /\ [m EXCEPT !.state = x, !.gone = y].rev = m.rev
          /\ [m EXCEPT !.state = x, !.gone = y].dirty = m.dirty /\ [m EXCEPT !.state = x, !.gone = y].v = m.v
    BY DEF Records
  <1>3. \A x \in SyncStates :
          /\ [m EXCEPT !.v = 0, !.state = x] \in Records
          /\ [m EXCEPT !.v = 0, !.state = x].base = m.base /\ [m EXCEPT !.v = 0, !.state = x].rev = m.rev
          /\ [m EXCEPT !.v = 0, !.state = x].dirty = m.dirty /\ [m EXCEPT !.v = 0, !.state = x].v = 0
    <2>1. 0 \in 0..MaxDataVersion
      BY Bounds
    <2> QED
      BY <2>1 DEF Records
  <1>4. \A x \in Records : SyncOf([d EXCEPT !.meta = x]) = x
    BY <1>1, NoneIsNoValue DEF SyncOf
  <1> DEFINE m1 == [m EXCEPT !.state = "conflict"]
             m2 == [m EXCEPT !.state = "offline"]
             m3 == [m EXCEPT !.state = "local", !.gone = TRUE]
             m4 == [m EXCEPT !.state = "local", !.gone = FALSE]
             m5 == [m EXCEPT !.v = 0, !.state = "saving"]
  <1>5. \A x \in {m1, m2, m3, m4} : x \in Records /\ x.base = m.base /\ x.rev = m.rev /\ x.dirty = m.dirty /\ x.v = m.v
    <2>1. m1 \in Records /\ m1.base = m.base /\ m1.rev = m.rev /\ m1.dirty = m.dirty /\ m1.v = m.v
      BY <1>2, StatesKnown
    <2>2. m2 \in Records /\ m2.base = m.base /\ m2.rev = m.rev /\ m2.dirty = m.dirty /\ m2.v = m.v
      BY <1>2, StatesKnown
    <2>3. m3 \in Records /\ m3.base = m.base /\ m3.rev = m.rev /\ m3.dirty = m.dirty /\ m3.v = m.v
      BY <1>2, StatesKnown
    <2>4. m4 \in Records /\ m4.base = m.base /\ m4.rev = m.rev /\ m4.dirty = m.dirty /\ m4.v = m.v
      BY <1>2, StatesKnown
    <2> HIDE DEF m1, m2, m3, m4
    <2> QED
      BY <2>1, <2>2, <2>3, <2>4
  <1>6. m5 \in Records /\ m5.base = m.base /\ m5.rev = m.rev /\ m5.dirty = m.dirty /\ m5.v = 0
    BY <1>3, StatesKnown
  <1> HIDE DEF m1, m2, m3, m4, m5
  <1>7. \A x \in {m1, m2, m3, m4, m5} :
          LET q == [d EXCEPT !.meta = x] IN
            /\ q \in Caches /\ q.project = d.project /\ q.owned = d.owned
            /\ SyncOf(q).base = m.base /\ SyncOf(q).rev = m.rev /\ SyncOf(q).dirty = m.dirty
    BY <1>1, <1>4, <1>5, <1>6
  <1>8. /\ \A x \in {m1, m2, m3, m4} : SyncOf([d EXCEPT !.meta = x]).v = m.v
        /\ SyncOf([d EXCEPT !.meta = m5]).v = 0
    BY <1>4, <1>5, <1>6
  <1> QED
    BY <1>7, <1>8 DEF m1, m2, m3, m4, m5

LEMMA SavesCopies ==
  ASSUME ProjectTypes, CopiesAreReached, NEW t \in Tabs, Saves(t)
  PROVE  CopiesAreReached'
  <1> DEFINE d == disk[Home[t]]
             m == SyncOf(d)
  <1>0. /\ d \in Caches /\ mem[t] \in Memories /\ m \in Records /\ mem \in [Tabs -> Memories]
        /\ push \in [Tabs -> Requests]
    BY TypesOpened
  <1>1. Touches(t)
    BY SavesTouch
  <1>2. /\ KnownCopy(push[t].answer, reached') /\ KnownCopy(get[t].answer, reached')
        /\ KnownCopy(resolve[t].answer, reached') /\ KnownCopy(act[t].answer, reached')
        /\ KnownCopy(mem[t].conflict, reached')
        /\ Saved(push[t], reached') /\ Saved(resolve[t], reached')
        /\ KnownProject(server.project, reached')
        /\ KnownProject(m.base, reached')
    BY <1>1, KnownStill DEF Touches
  <1> HIDE DEF m
  <1>3. ASSUME UNCHANGED <<server, get, resolve, act>>,
               push'[t] \in {push[t], Idle} \/ (push'[t].stage = "sent" /\ push'[t].answer = None),
               KnownCopy(mem'[t].conflict, reached'),
               KnownProject(SyncOf(disk'[Home[t]]).base, reached')
        PROVE  CopiesAreReached'
    <2>1. KnownCopy(push'[t].answer, reached') /\ Saved(push'[t], reached')
      BY <1>2, <1>3, NothingIsKnown, IdleStage DEF Saved
    <2>2. KnownTab(t)'
      BY <1>2, <1>3, <2>1 DEF KnownTab
    <2> QED
      BY <1>1, <1>2, <1>3, <2>2, CopiesCarried
  <1>4. CASE TimerFires(t) \/ PushNow(t)
    <2>1. UNCHANGED <<server, get, resolve, act>>
      BY <1>4 DEF TimerFires, PushNow
    <2> QED
      BY <1>2, <1>3, <1>4, <2>1, StartPushQuietly, StartPushCopies DEF m
  <1>5. CASE Online(t)
    <2>1. mem'[t].conflict = mem[t].conflict
      BY <1>0, <1>5 DEF Online, Memories
    <2> QED
      BY <1>2, <1>3, <1>5, <2>1 DEF Online, netVars, m
  <1>6. CASE PushServed(t)
    <2> DEFINE s == push[t].answer
    <2>1. s \in Copies /\ Finished(mem[t]) \in Memories /\ Finished(mem[t]).conflict = mem[t].conflict
      BY <1>0, <1>6, FinishedMemory DEF PushServed, ProjectTypes, Shapes, Answered
    <2>2. SyncOf(disk'[Home[t]]).base \in {m.base, s.project} /\ mem'[t].conflict = mem[t].conflict
      BY <1>6, <2>1, AdoptCopies DEF PushServed, m
    <2>3. KnownProject(s.project, reached')
      BY <1>2, <2>1, KnownOfCopy
    <2>4. push'[t] = Idle
      BY <1>0, <1>6 DEF PushServed
    <2> QED
      BY <1>2, <1>3, <1>6, <2>2, <2>3, <2>4 DEF PushServed
  <1>7. ASSUME NEW q \in Caches, NEW n \in Memories, Failed(t, q, n),
               KnownCopy(n.conflict, reached'), KnownProject(SyncOf(q).base, reached')
        PROVE  CopiesAreReached'
    <2>1. UNCHANGED <<server, get, resolve, act>>
      BY <1>7 DEF Failed
    <2> QED
      BY <1>2, <1>3, <1>7, <2>1, FailedCopies, NothingIsKnown
  <1>8. /\ \A x \in BOOLEAN : /\ [mem[t] EXCEPT !.timer = x] \in Memories
                              /\ [mem[t] EXCEPT !.timer = x].conflict = mem[t].conflict
        /\ \A s \in Copies : /\ [mem[t] EXCEPT !.conflict = s] \in Memories
                             /\ [mem[t] EXCEPT !.conflict = s].conflict = s
    BY <1>0 DEF Memories
  <1>9. CASE PushStale(t)
    <2> DEFINE s == push[t].answer
    <2>1. s \in Copies
      BY <1>9 DEF PushStale, ProjectTypes, Shapes, Answered
    <2>2. CASE Reconcilable(d, s)
      <3> DEFINE n == [mem[t] EXCEPT !.timer = Mine(d) # {}]
      <3>1. Failed(t, Reconciled(d, s), n)
        BY <1>9, <2>2 DEF PushStale
      <3>2. Reconciled(d, s) \in Caches /\ SyncOf(Reconciled(d, s)).base = s.project
        <4>1. Reconciled(d, s) \in Caches
          BY <1>0, <2>1, <2>2, ReconciledIsCache
        <4>2. Reconciled(d, s).meta # None /\ Reconciled(d, s).meta.base = s.project
          BY <1>0, <2>1, <2>2, ReconciledMeta
        <4> QED
          BY <4>1, <4>2 DEF SyncOf
      <3>3. n \in Memories /\ n.conflict = mem[t].conflict
        BY <1>8
      <3>4. KnownProject(s.project, reached')
        BY <1>2, <2>1, KnownOfCopy
      <3> HIDE DEF n
      <3> QED
        BY <1>2, <1>7, <3>1, <3>2, <3>3, <3>4
    <2>3. CASE ~Reconcilable(d, s)
      <3> DEFINE q == [d EXCEPT !.meta = [m EXCEPT !.state = "conflict"]]
                 n == [mem[t] EXCEPT !.conflict = s]
      <3>1. Failed(t, q, n)
        BY <1>9, <2>3 DEF PushStale, m
      <3>2. q \in Caches /\ SyncOf(q).base = m.base
        BY <1>0, StateSetValues
      <3>3. n \in Memories /\ n.conflict = s
        BY <1>8, <2>1
      <3> HIDE DEF q, n
      <3> QED
        BY <1>2, <1>7, <3>1, <3>2, <3>3
    <2> QED
      BY <2>2, <2>3
  <1>10. CASE PushMissing(t)
    <2> DEFINE q1 == [d EXCEPT !.meta = None]
               q2 == [d EXCEPT !.meta = [m EXCEPT !.state = "local", !.gone = TRUE]]
               q3 == [d EXCEPT !.meta = [m EXCEPT !.v = 0, !.state = "saving"]]
               n1 == Dropped(mem[t], d)
               n3 == [mem[t] EXCEPT !.timer = TRUE]
    <2>1. q1 \in Caches /\ SyncOf(q1).base = None
      BY <1>0, MetaIsCache, BlankValues DEF SyncOf, Caches
    <2>2. q2 \in Caches /\ q3 \in Caches /\ SyncOf(q2).base = m.base /\ SyncOf(q3).base = m.base
      BY <1>0, StateSetValues
    <2>3. /\ n1 \in Memories /\ n1.conflict \in {mem[t].conflict, None}
          /\ n3 \in Memories /\ n3.conflict = mem[t].conflict
      BY <1>0, <1>8, DroppedMemory
    <2>4. Failed(t, q1, n1) \/ Failed(t, q2, mem[t]) \/ Failed(t, q3, n3)
      BY <1>10 DEF PushMissing, m
    <2>5. KnownProject(None, reached') /\ KnownCopy(None, reached')
      BY NothingIsKnown
    <2> HIDE DEF q1, q2, q3, n1, n3
    <2> QED
      BY <1>0, <1>2, <1>7, <2>1, <2>2, <2>3, <2>4, <2>5
  <1>11. CASE PushRefused(t)
    <2> DEFINE q == [d EXCEPT !.meta = [m EXCEPT !.state = "local", !.gone = FALSE]]
    <2>1. q \in Caches /\ SyncOf(q).base = m.base
      BY <1>0, StateSetValues
    <2>2. Failed(t, q, mem[t])
      BY <1>11 DEF PushRefused, m
    <2> HIDE DEF q
    <2> QED
      BY <1>0, <1>2, <1>7, <2>1, <2>2
  <1>12. CASE PushLost(t)
    <2> DEFINE q == [d EXCEPT !.meta = [m EXCEPT !.state = "offline"]]
               n == [mem[t] EXCEPT !.timer = TRUE]
    <2>1. q \in Caches /\ SyncOf(q).base = m.base
      BY <1>0, StateSetValues
    <2>2. n \in Memories /\ n.conflict = mem[t].conflict
      BY <1>8
    <2>3. Failed(t, q, n)
      BY <1>12 DEF PushLost, m
    <2> HIDE DEF q, n
    <2> QED
      BY <1>2, <1>7, <2>1, <2>2, <2>3
  <1> QED
    BY <1>4, <1>5, <1>6, <1>9, <1>10, <1>11, <1>12 DEF Saves

(* A read answered becomes the base or the person's choice. *)
LEMMA RefreshedCopies ==
  ASSUME ProjectTypes, NEW t \in Tabs, NEW s \in Copies, NEW m \in Memories,
         Refreshed(t, disk[Home[t]], s, m)
  PROVE  /\ SyncOf(disk'[Home[t]]).base \in {SyncOf(disk[Home[t]]).base, s.project}
         /\ mem'[t].conflict \in {m.conflict, s}
  <1> DEFINE d == disk[Home[t]]
  <1>0. /\ disk \in [Browsers -> Caches] /\ mem \in [Tabs -> Memories] /\ Home[t] \in Browsers
        /\ d \in Caches /\ SyncOf(d) \in Records
    BY TypesOpened
  <1>1. mem'[t].conflict \in {m.conflict, s}
    BY <1>0 DEF Refreshed, Memories
  <1>2. SyncOf(d).dirty => d.meta \in Records /\ SyncOf(d) = d.meta
    BY <1>0 DEF SyncOf, Blank, Caches
  <1>3. CASE d.project = None \/ ~SyncOf(d).dirty
    <2>1. disk'[Home[t]].meta = Agreed(SyncOf(d), s)
      BY <1>0, <1>3 DEF Refreshed
    <2>2. Agreed(SyncOf(d), s) # None /\ Agreed(SyncOf(d), s).base = s.project
      BY <1>0, AgreedMeta
    <2> QED
      BY <1>1, <2>1, <2>2 DEF SyncOf
  <1>4. CASE d.project # None /\ SyncOf(d).dirty /\ d.meta.v # 0 /\ s.v # d.meta.v
    <2>1. CASE Reconcilable(d, s)
      <3>1. disk'[Home[t]] = Reconciled(d, s)
        BY <1>0, <1>4, <2>1 DEF Refreshed
      <3>2. Reconciled(d, s).meta # None /\ Reconciled(d, s).meta.base = s.project
        BY <1>0, <2>1, ReconciledMeta
      <3> QED
        BY <1>1, <3>1, <3>2 DEF SyncOf
    <2>2. CASE ~Reconcilable(d, s)
      <3>1. disk'[Home[t]].meta = [d.meta EXCEPT !.state = "conflict"]
        BY <1>0, <1>4, <2>2 DEF Refreshed, Caches
      <3>2. \A x \in SyncStates : [d.meta EXCEPT !.state = x] \in Records /\ [d.meta EXCEPT !.state = x].base = d.meta.base
        BY <1>2, <1>4 DEF Records
      <3>3. disk'[Home[t]].meta # None /\ disk'[Home[t]].meta.base = d.meta.base
        BY <3>1, <3>2, StatesKnown, NoneIsNoValue
      <3> QED
        BY <1>1, <1>2, <1>4, <3>3 DEF SyncOf
    <2> QED
      BY <2>1, <2>2
  <1>5. CASE d.project # None /\ SyncOf(d).dirty /\ (d.meta.v = 0 \/ s.v = d.meta.v)
    <2>1. disk'[Home[t]].meta = IF d.meta.state = "local" /\ d.meta.gone
                      THEN [d.meta EXCEPT !.state = "saving", !.gone = FALSE]
                      ELSE d.meta
      BY <1>0, <1>5 DEF Refreshed
    <2>2. \A x \in SyncStates : /\ [d.meta EXCEPT !.state = x, !.gone = FALSE] \in Records
                                /\ [d.meta EXCEPT !.state = x, !.gone = FALSE].base = d.meta.base
      BY <1>2, <1>5 DEF Records
    <2>3. disk'[Home[t]].meta # None /\ disk'[Home[t]].meta.base = d.meta.base
      BY <1>2, <1>5, <2>1, <2>2, StatesKnown, NoneIsNoValue
    <2> QED
      BY <1>1, <1>2, <1>5, <2>3 DEF SyncOf
  <1> QED
    BY <1>3, <1>4, <1>5 DEF Refreshed

LEMMA ReadsCopies ==
  ASSUME ProjectTypes, CopiesAreReached, NEW t \in Tabs, Reads(t)
  PROVE  CopiesAreReached'
  <1> DEFINE d == disk[Home[t]]
             m == SyncOf(d)
  <1>0. /\ disk \in [Browsers -> Caches] /\ mem \in [Tabs -> Memories] /\ Home[t] \in Browsers
        /\ d \in Caches /\ mem[t] \in Memories /\ m \in Records
        /\ push \in [Tabs -> Requests] /\ resolve \in [Tabs -> Requests]
        /\ get \in [Tabs -> Requests] /\ list \in [Tabs -> Requests] /\ act \in [Tabs -> Requests]
    BY TypesOpened
  <1>1. Touches(t)
    BY ReadsTouch
  <1>2. /\ KnownCopy(push[t].answer, reached') /\ KnownCopy(get[t].answer, reached')
        /\ KnownCopy(resolve[t].answer, reached') /\ KnownCopy(act[t].answer, reached')
        /\ KnownCopy(mem[t].conflict, reached')
        /\ Saved(push[t], reached') /\ Saved(resolve[t], reached')
        /\ KnownProject(server.project, reached')
        /\ KnownProject(m.base, reached')
    BY <1>1, KnownStill DEF Touches
  <1> HIDE DEF m
  <1>3. ASSUME UNCHANGED <<server, push>>,
               get'[t].answer \in {get[t].answer, None}, act'[t].answer \in {act[t].answer, None},
               resolve'[t] \in {resolve[t], Idle},
               KnownCopy(mem'[t].conflict, reached'),
               KnownProject(SyncOf(disk'[Home[t]]).base, reached')
        PROVE  CopiesAreReached'
    <2>1. KnownCopy(resolve'[t].answer, reached') /\ Saved(resolve'[t], reached')
      BY <1>2, <1>3, NothingIsKnown, IdleStage
    <2>2. KnownTab(t)'
      BY <1>2, <1>3, <2>1, NothingIsKnown DEF KnownTab
    <2> QED
      BY <1>1, <1>2, <1>3, <2>2, CopiesCarried
  <1>4. CASE GetServed(t)
    <2> DEFINE n == [mem[t] EXCEPT !.forgotten = FALSE]
               s == get[t].answer
    <2>1. s \in Copies
      BY <1>4 DEF GetServed, ProjectTypes, Shapes, Answered
    <2>2. n \in Memories /\ n.conflict = mem[t].conflict
      BY <1>0 DEF Memories
    <2>3. Refreshed(t, d, s, n)
      BY <1>4 DEF GetServed
    <2>4. get'[t].answer = None
      BY <1>0, <1>4, IdleStage DEF GetServed
    <2> HIDE DEF n
    <2>5. SyncOf(disk'[Home[t]]).base \in {m.base, s.project} /\ mem'[t].conflict \in {mem[t].conflict, s}
      BY <2>1, <2>2, <2>3, RefreshedCopies DEF m
    <2>6. KnownProject(s.project, reached')
      BY <1>2, <2>1, KnownOfCopy
    <2> QED
      BY <1>2, <1>3, <1>4, <2>4, <2>5, <2>6 DEF GetServed
  <1>5. ASSUME disk' = [disk EXCEPT ![Home[t]] = Forgotten(d)], mem' = [mem EXCEPT ![t] = Dropped(@, d)]
        PROVE  /\ KnownCopy(mem'[t].conflict, reached')
               /\ KnownProject(SyncOf(disk'[Home[t]]).base, reached')
    <2>1. SyncOf(disk'[Home[t]]).base = None
      BY <1>0, <1>5, BlankValues DEF Forgotten, SyncOf
    <2>2. mem'[t].conflict \in {mem[t].conflict, None}
      BY <1>0, <1>5, DroppedMemory
    <2> QED
      BY <1>2, <2>1, <2>2, NothingIsKnown
  <1>6. CASE GetMissing(t)
    <2>1. get'[t].answer = None
      BY <1>0, <1>6, IdleStage DEF GetMissing
    <2>2. \/ disk' = [disk EXCEPT ![Home[t]] = Forgotten(d)] /\ mem' = [mem EXCEPT ![t] = Dropped(@, d)]
          \/ disk' = disk /\ \E x : mem' = [mem EXCEPT ![t].timer = @ \/ x]
      BY <1>6 DEF GetMissing
    <2>3. /\ KnownCopy(mem'[t].conflict, reached')
          /\ KnownProject(SyncOf(disk'[Home[t]]).base, reached')
      <3>1. CASE disk' = disk /\ \E x : mem' = [mem EXCEPT ![t].timer = @ \/ x]
        <4>1. mem'[t].conflict = mem[t].conflict
          BY <1>0, <3>1 DEF Memories
        <4> QED
          BY <1>2, <3>1, <4>1 DEF m
      <3> QED
        BY <1>5, <2>2, <3>1
    <2> QED
      BY <1>3, <1>6, <2>1, <2>3 DEF GetMissing
  <1>7. CASE GetLost(t)
    <2>1. get'[t].answer = None
      BY <1>0, <1>7, IdleStage DEF GetLost
    <2> QED
      BY <1>2, <1>3, <1>7, <2>1 DEF GetLost, diskVars, m
  <1>8. CASE ListServed(t)
    <2>1. get'[t].answer \in {get[t].answer, None}
      BY <1>0, <1>8 DEF ListServed, Idle
    <2> QED
      BY <1>2, <1>3, <1>8, <2>1 DEF ListServed, diskVars, m
  <1>9. CASE ListMissing(t)
    BY <1>2, <1>3, <1>9 DEF ListMissing, diskVars, m
  <1>10. CASE ListForgets(t)
    <2>1. CASE KeptForAttach(d)
      BY <1>2, <1>3, <1>10, <2>1 DEF ListForgets, diskVars, m
    <2>2. CASE ~KeptForAttach(d)
      BY <1>3, <1>5, <1>10, <2>2 DEF ListForgets
    <2> QED
      BY <2>1, <2>2
  <1>11. CASE KeepServed(t)
    <2> DEFINE n == [mem[t] EXCEPT !.conflict = None]
               s == resolve[t].answer
    <2>1. s \in Copies /\ n \in Memories /\ n.conflict = None
      BY <1>0, <1>11 DEF KeepServed, ProjectTypes, Shapes, Answered, Memories
    <2>2. Adopt(t, s, resolve[t].rev, n)
      BY <1>11 DEF KeepServed
    <2> HIDE DEF n
    <2>3. SyncOf(disk'[Home[t]]).base \in {m.base, s.project} /\ mem'[t].conflict = None
      BY <2>1, <2>2, AdoptCopies DEF m
    <2>4. KnownProject(s.project, reached') /\ KnownCopy(None, reached')
      BY <1>2, <2>1, KnownOfCopy, NothingIsKnown
    <2>5. resolve'[t] = Idle
      BY <1>0, <1>11 DEF KeepServed
    <2> QED
      BY <1>2, <1>3, <1>11, <2>3, <2>4, <2>5 DEF KeepServed
  <1>12. CASE KeepLost(t)
    <2>1. resolve'[t] = Idle
      BY <1>0, <1>12 DEF KeepLost
    <2> QED
      BY <1>2, <1>3, <1>12, <2>1 DEF KeepLost, diskVars, m
  <1>13. CASE ActServed(t)
    <2> DEFINE s == act[t].answer
    <2>1. s \in Copies
      BY <1>13 DEF ActServed, ProjectTypes, Shapes, Answered
    <2>2. SyncOf(disk'[Home[t]]).base = s.project
      <3>1. CASE d.project # None /\ m.dirty
        <4>1. d.meta \in Records /\ disk'[Home[t]].meta = [d.meta EXCEPT !.v = s.v, !.base = s.project]
          BY <1>0, <1>13, <3>1 DEF ActServed, SyncOf, Blank, Caches, m
        <4>2. disk'[Home[t]].meta # None /\ disk'[Home[t]].meta.base = s.project
          <5>1. [d.meta EXCEPT !.v = s.v, !.base = s.project] \in Records
            BY <2>1, <4>1, PatchedIsRecord, StatesKnown
          <5> QED
            BY <4>1, <5>1, NoneIsNoValue DEF Records
        <4> QED
          BY <4>2 DEF SyncOf
      <3>2. CASE ~(d.project # None /\ m.dirty)
        <4>1. disk'[Home[t]].meta = Agreed(m, s)
          BY <1>0, <1>13, <3>2 DEF ActServed, m
        <4>2. Agreed(m, s) # None /\ Agreed(m, s).base = s.project
          BY <1>0, <2>1, AgreedMeta
        <4> QED
          BY <4>1, <4>2 DEF SyncOf
      <3> QED
        BY <3>1, <3>2
    <2>3. mem'[t].conflict = mem[t].conflict
      BY <1>0, <1>13 DEF ActServed, Memories
    <2>4. KnownProject(s.project, reached') /\ act'[t].answer = None
      BY <1>0, <1>2, <1>13, <2>1, KnownOfCopy, IdleStage DEF ActServed
    <2> QED
      BY <1>2, <1>3, <1>13, <2>2, <2>3, <2>4 DEF ActServed
  <1>14. CASE RemovalLost(t)
    BY <1>2, <1>3, <1>14 DEF RemovalLost, diskVars, m
  <1>15. CASE ForgetAccount(t)
    <2>1. CASE d.project # None /\ d.owned
      <3>1. SyncOf(disk'[Home[t]]).base = None
        BY <1>0, <1>15, <2>1, BlankValues DEF ForgetAccount, Forgotten, SyncOf
      <3>2. mem'[t].conflict \in {mem[t].conflict, None}
        <4>1. mem'[t] = [Dropped(mem[t], d) EXCEPT !.forgotten = TRUE, !.timer = FALSE, !.again = FALSE]
          BY <1>0, <1>15, <2>1 DEF ForgetAccount
        <4>2. mem'[t].conflict = Dropped(mem[t], d).conflict
          BY <1>0, <4>1, DroppedMemory DEF Memories
        <4> QED
          BY <1>0, <4>2, DroppedMemory
      <3> QED
        BY <1>2, <1>3, <1>15, <3>1, <3>2, NothingIsKnown DEF ForgetAccount, netVars
    <2>2. CASE ~(d.project # None /\ d.owned)
      BY <1>2, <1>3, <1>15, <2>2 DEF ForgetAccount, netVars, diskVars, m
    <2> QED
      BY <2>1, <2>2
  <1> QED
    BY <1>4, <1>6, <1>7, <1>8, <1>9, <1>10, <1>11, <1>12, <1>13, <1>14, <1>15 DEF Reads

LEMMA ServesCopies ==
  ASSUME ProjectTypes, CopiesAreReached, NEW t \in Tabs, Serves(t)
  PROVE  CopiesAreReached'
  <1> DEFINE m == SyncOf(disk[Home[t]])
  <1>0. /\ push \in [Tabs -> Requests] /\ push[t] \in Requests /\ resolve[t] \in Requests
        /\ resolve \in [Tabs -> Requests] /\ get \in [Tabs -> Requests] /\ act \in [Tabs -> Requests]
        /\ get[t] \in Requests /\ act[t] \in Requests
    BY TypesOpened
  <1>1. Touches(t)
    BY ServesTouch
  <1>2. /\ KnownCopy(push[t].answer, reached') /\ KnownCopy(get[t].answer, reached')
        /\ KnownCopy(resolve[t].answer, reached') /\ KnownCopy(act[t].answer, reached')
        /\ KnownCopy(mem[t].conflict, reached')
        /\ Saved(push[t], reached') /\ Saved(resolve[t], reached')
        /\ KnownProject(server.project, reached')
        /\ KnownProject(m.base, reached')
    BY <1>1, KnownStill DEF Touches
  <1>3. ASSUME UNCHANGED <<disk, mem>>, KnownProject(server'.project, reached'),
               KnownCopy(push'[t].answer, reached'), KnownCopy(get'[t].answer, reached'),
               KnownCopy(resolve'[t].answer, reached'), KnownCopy(act'[t].answer, reached'),
               Saved(push'[t], reached'), Saved(resolve'[t], reached')
        PROVE  CopiesAreReached'
    <2>1. KnownTab(t)'
      BY <1>2, <1>3 DEF KnownTab
    <2> QED
      BY <1>1, <1>2, <1>3, <2>1, CopiesCarried
  <1> HIDE DEF m
  <1>4. ASSUME NEW p, Accept(p)
        PROVE  KnownProject(server'.project, reached') /\ KnownCopy(server', reached') /\ EditsIn(p) \subseteq reached'
    BY <1>4 DEF Accept, KnownProject, KnownCopy
  <1>5. server.project # None => KnownCopy(server, reached')
    BY <1>2, ServerIsCopy, KnownOfCopy
  <1>6. CASE ServePush(t)
    <2>1. UNCHANGED <<disk, mem, get, resolve, act>>
      BY <1>6 DEF ServePush
    <2>2. KnownProject(server'.project, reached')
      BY <1>2, <1>4, <1>6 DEF ServePush, Refuse
    <2>3. CASE /\ push' = [push EXCEPT ![t].stage = "served", ![t].answer = server']
               /\ Accept(push[t].project)
      <3>1. push'[t].answer = server' /\ push'[t].project = push[t].project
        BY <1>0, <2>3 DEF Requests
      <3>2. KnownCopy(push'[t].answer, reached') /\ Saved(push'[t], reached')
        BY <1>4, <2>3, <3>1 DEF Saved
      <3> QED
        BY <1>2, <1>3, <2>1, <2>2, <3>2
    <2>4. CASE push' = [push EXCEPT ![t].stage = "stale", ![t].answer = server'] /\ server' = server
               /\ server.project # None
      <3>1. push'[t].answer = server /\ push'[t].stage = "stale"
        BY <1>0, <2>4 DEF Requests
      <3>2. KnownCopy(push'[t].answer, reached') /\ Saved(push'[t], reached')
        BY <1>5, <2>4, <3>1 DEF Saved
      <3> QED
        BY <1>2, <1>3, <2>1, <2>2, <3>2
    <2>5. CASE \E x \in {"missing", "refused"} : push' = [push EXCEPT ![t].stage = x]
      <3>1. push'[t].answer = push[t].answer /\ push'[t].stage \in {"missing", "refused"}
        BY <1>0, <2>5 DEF Requests
      <3>2. KnownCopy(push'[t].answer, reached') /\ Saved(push'[t], reached')
        BY <1>2, <3>1 DEF Saved
      <3> QED
        BY <1>2, <1>3, <2>1, <2>2, <3>2
    <2> QED
      BY <1>6, <2>3, <2>4, <2>5 DEF ServePush, Refuse
  <1>7. CASE ServeGet(t)
    <2>1. get'[t].answer = get[t].answer \/ (server.project # None /\ get'[t].answer = server)
      BY <1>0, <1>7 DEF ServeGet, Requests
    <2>2. KnownCopy(get'[t].answer, reached')
      BY <1>2, <1>5, <2>1
    <2> QED
      BY <1>2, <1>3, <1>7, <2>2 DEF ServeGet, diskVars
  <1>8. CASE ServeList(t)
    BY <1>2, <1>3, <1>8 DEF ServeList, diskVars
  <1>9. CASE ServeKeep(t)
    <2>1. UNCHANGED <<disk, mem, push, get, act>>
      BY <1>9 DEF ServeKeep, diskVars
    <2>2. CASE Accept(resolve[t].project) /\ resolve' = [resolve EXCEPT ![t].stage = "served", ![t].answer = server']
      <3>1. resolve'[t].answer = server' /\ resolve'[t].project = resolve[t].project
        BY <1>0, <2>2 DEF Requests
      <3>2. KnownCopy(resolve'[t].answer, reached') /\ Saved(resolve'[t], reached') /\ KnownProject(server'.project, reached')
        BY <1>4, <2>2, <3>1 DEF Saved
      <3> QED
        BY <1>2, <1>3, <2>1, <3>2
    <2>3. CASE server' = server /\ resolve' = [resolve EXCEPT ![t] = Idle]
      <3>1. resolve'[t] = Idle
        BY <1>0, <2>3
      <3> QED
        BY <1>2, <1>3, <2>1, <2>3, <3>1, IdleStage, NothingIsKnown
    <2> QED
      BY <1>9, <2>2, <2>3 DEF ServeKeep, Refuse
  <1>10. CASE ServeAct(t)
    <2>1. UNCHANGED <<disk, mem, push, get, resolve>>
      BY <1>10 DEF ServeAct, diskVars
    <2>2. CASE Accept(server.project) /\ act' = [act EXCEPT ![t].stage = "served", ![t].answer = server']
      <3>1. act'[t].answer = server'
        BY <1>0, <2>2 DEF Requests
      <3>2. KnownCopy(act'[t].answer, reached') /\ KnownProject(server'.project, reached')
        BY <1>4, <2>2, <3>1
      <3> QED
        BY <1>2, <1>3, <2>1, <3>2
    <2>3. CASE server' = server /\ act' = [act EXCEPT ![t] = Idle]
      <3>1. act'[t] = Idle
        BY <1>0, <2>3
      <3> QED
        BY <1>2, <1>3, <2>1, <2>3, <3>1, IdleStage, NothingIsKnown
    <2> QED
      BY <1>10, <2>2, <2>3 DEF ServeAct, Refuse
  <1>11. CASE ServeRemoval(t)
    <2>1. server'.project = None
      BY <1>11 DEF ServeRemoval, ProjectTypes, TypeOK
    <2> QED
      BY <1>2, <1>3, <1>11, <2>1, NothingIsKnown DEF ServeRemoval, diskVars
  <1> QED
    BY <1>6, <1>7, <1>8, <1>9, <1>10, <1>11 DEF Serves

(* The copies are inductive. *)
LEMMA CopiesInit == Init => CopiesAreReached
  <1> SUFFICES ASSUME Init PROVE CopiesAreReached
    OBVIOUS
  <1>1. EditsIn(NewProject) = {}
    BY DEF EditsIn, NewProject
  <1>2. KnownProject(server.project, reached)
    BY <1>1 DEF Init, KnownProject
  <1>3. ASSUME NEW t \in Tabs PROVE KnownTab(t)
    <2>1. /\ push[t] = Idle /\ get[t] = Idle /\ resolve[t] = Idle /\ act[t] = Idle
          /\ mem[t].conflict = None
      BY DEF Init, Fresh
    <2> QED
      BY <2>1, IdleStage, NothingIsKnown DEF KnownTab
  <1>4. ASSUME NEW b \in Browsers PROVE KnownProject(SyncOf(disk[b]).base, reached)
    <2> DEFINE first == [Blank EXCEPT !.v = 1, !.state = "saved", !.base = NewProject]
    <2>1. first.base = NewProject
      BY DEF Blank
    <2>2. disk[b].meta = None \/ disk[b].meta = first
      BY DEF Init
    <2> HIDE DEF first
    <2>3. SyncOf(disk[b]).base \in {None, NewProject}
      BY <2>1, <2>2, BlankValues DEF SyncOf
    <2> QED
      BY <1>1, <2>3 DEF KnownProject
  <1> QED
    BY <1>2, <1>3, <1>4 DEF CopiesAreReached

LEMMA CopiesNext == ProjectTypes /\ CopiesAreReached /\ [Next]_syncVars => CopiesAreReached'
  <1> SUFFICES ASSUME ProjectTypes, CopiesAreReached, [Next]_syncVars PROVE CopiesAreReached'
    OBVIOUS
  <1>1. CASE CloseAccount \/ ServerForgets
    <2>1. server'.project = None /\ UNCHANGED <<disk, mem, push, get, resolve, act, reached>>
      BY <1>1 DEF CloseAccount, ServerForgets, diskVars, netVars, auxVars, ProjectTypes, TypeOK
    <2> QED
      BY <2>1, NothingIsKnown DEF CopiesAreReached, KnownTab
  <1>2. CASE UNCHANGED syncVars
    BY <1>2 DEF syncVars, CopiesAreReached, KnownTab
  <1> QED
    BY <1>1, <1>2, PersonCopies, SavesCopies, ReadsCopies, ServesCopies DEF Next

(* The edits of what the helpers return. *)
LEMMA EditsAdded ==
  ASSUME NEW p \in Projects, NEW f \in Fields, NEW e
  PROVE  EditsIn(p) \cup {e} \subseteq EditsIn([p EXCEPT !.field[f] = @ \cup {e}])
  <1> DEFINE q == [p EXCEPT !.field[f] = @ \cup {e}]
  <1>1. /\ \A g \in Fields : p.field[g] \subseteq q.field[g]
        /\ e \in q.field[f]
    BY DEF Projects
  <1> HIDE DEF q
  <1>2. EditsIn(p) \cup {e} \subseteq EditsIn(q)
    BY <1>1 DEF EditsIn
  <1> QED
    BY <1>2 DEF q

LEMMA VersionsApart ==
  ASSUME NEW p \in Projects, NEW x
  PROVE  EditsIn([p EXCEPT !.versions = x]) = EditsIn(p)
  BY DEF EditsIn, Projects

LEMMA MergedEdits ==
  ASSUME NEW p \in Projects, NEW s
  PROVE  EditsIn(Merge(p, s)) = EditsIn(p)
  <1>1. p # None /\ Merge(p, s) = [p EXCEPT !.versions = p.versions \cup s.project.versions]
    BY NoneIsNoValue DEF Merge, Projects
  <1> QED
    BY <1>1, VersionsApart

(* Cache c holds what cache d held, but what k keeps. *)
Keeps(d, c, k) ==
  /\ d.project # None => c.project # None
  /\ SyncOf(c).rev = SyncOf(d).rev
  /\ d.project # None /\ SyncOf(d).dirty =>
       \A e \in EditsIn(d.project) : e \in k \/ (e \in EditsIn(c.project) /\ SyncOf(c).dirty)

(* reconcile keeps the edits of the fields changed here; the others were the base's. *)
LEMMA ReconciledKeeps ==
  ASSUME NEW d \in Caches, NEW s \in Copies, Reconcilable(d, s), NEW k,
         KnownProject(SyncOf(d).base, k)
  PROVE  Keeps(d, Reconciled(d, s), k)
  <1> DEFINE p == d.project
             q == d.meta.base
             c == Reconciled(d, s)
  <1>1. /\ p \in Projects /\ q \in Projects /\ d.meta \in Records /\ c.project # None
        /\ c.meta # None /\ c.meta.rev = d.meta.rev /\ c.meta.dirty = (Mine(d) # {})
    BY ReconciledMeta, NoneIsNoValue
  <1>2. SyncOf(d) = d.meta /\ SyncOf(c) = c.meta
    BY <1>1, NoneIsNoValue DEF SyncOf
  <1>3. EditsIn(q) \subseteq k
    BY <1>1, <1>2, NoneIsNoValue DEF KnownProject
  <1>4. ASSUME NEW f \in Fields, f \notin Mine(d) PROVE p.field[f] \subseteq k
    <2>1. p.field[f] = q.field[f]
      BY <1>4 DEF Mine, Changed
    <2>2. q.field[f] \subseteq EditsIn(q)
      BY DEF EditsIn
    <2> QED
      BY <1>3, <2>1, <2>2
  <1>5. ASSUME NEW e \in EditsIn(p), e \notin k PROVE e \in EditsIn(c.project) /\ c.meta.dirty
    <2>1. PICK f \in Fields : e \in p.field[f]
      BY DEF EditsIn
    <2>2. f \in Mine(d)
      BY <1>4, <1>5, <2>1
    <2> DEFINE o == [field    |-> [g \in Fields |-> IF g \in Mine(d) THEN p.field[g] ELSE s.project.field[g]],
                     versions |-> IF "versions" \in Mine(d) THEN p.versions ELSE s.project.versions]
    <2>3. o \in Projects
      BY <1>1 DEF Projects, Copies
    <2>4. o.field[f] = p.field[f]
      BY <2>2
    <2>5. c.project = Rebased(d, s)
      BY <2>2 DEF Reconciled
    <2>6. Rebased(d, s) = Merge(o, s)
      BY DEF Rebased
    <2> HIDE DEF o
    <2>7. e \in EditsIn(o)
      BY <2>1, <2>4 DEF EditsIn
    <2>8. e \in EditsIn(c.project)
      BY <2>3, <2>5, <2>6, <2>7, MergedEdits
    <2> QED
      BY <1>1, <2>2, <2>8
  <1> QED
    BY <1>1, <1>2, <1>5 DEF Keeps

(* What waited waits still in a cache that keeps it. *)
LEMMA HeldKept ==
  ASSUME NEW d, NEW c, NEW made, NEW k, NEW l, Held(d, made, k), k \subseteq l, Keeps(d, c, l)
  PROVE  Held(c, made, l)
  BY DEF Held, Keeps

(* A save is still at most as new, and carries as much, after a step onward. *)
LEMMA RestKept ==
  ASSUME NEW r, NEW q, NEW d, NEW c, NEW made, NEW after, NEW k, NEW l, Rest(r, d, made, k),
         q.rev = r.rev, q.project = r.project, c.project # None, k \subseteq l,
         r.rev \in Int, SyncOf(d).rev \in Int, SyncOf(c).rev \in Int,
         SyncOf(c).rev > SyncOf(d).rev \/ (SyncOf(c).rev = SyncOf(d).rev /\ after = made)
  PROVE  Rest(q, c, after, l)
  <1>1. q.rev =< SyncOf(c).rev
    BY DEF Rest
  <1>2. q.rev = SyncOf(c).rev => after = made /\ r.rev = SyncOf(d).rev
    BY DEF Rest
  <1> QED
    BY <1>1, <1>2 DEF Rest

LossRegime == NothingForgotten \/ NothingRead

\* The step leaves a project and a later revision, or as late over the same edits.
Onward(t) ==
  /\ disk[Home[t]].project # None => disk'[Home[t]].project # None
  /\ \/ SyncOf(disk'[Home[t]]).rev > SyncOf(disk[Home[t]]).rev
     \/ SyncOf(disk'[Home[t]]).rev = SyncOf(disk[Home[t]]).rev /\ edits'[Home[t]] = edits[Home[t]]

LossKept == GoneIsGone /\ SavesHoldTheRest /\ EditsAreHeld

LEMMA RevsAreNumbers ==
  ASSUME ProjectTypes, NEW t \in Tabs
  PROVE  /\ push[t].rev \in Int /\ resolve[t].rev \in Int /\ SyncOf(disk[Home[t]]).rev \in Int
         /\ SyncOf(disk[Home[t]]).rev >= 0
  <1>1. push[t] \in Requests /\ resolve[t] \in Requests /\ SyncOf(disk[Home[t]]) \in Records
    BY TypesOpened
  <1> QED
    BY <1>1, Bounds DEF Requests, Records

LEMMA RevAfter ==
  ASSUME ProjectTypes', NEW t \in Tabs
  PROVE  SyncOf(disk'[Home[t]]).rev \in Int /\ SyncOf(disk'[Home[t]]).rev >= 0
  <1>1. disk'[Home[t]] \in Caches
    BY Bounds DEF ProjectTypes, TypeOK
  <1>2. SyncOf(disk'[Home[t]]) \in Records
    BY <1>1, SyncIsRecord
  <1> QED
    BY <1>2, Bounds DEF Records

(* A tab that took the project away is alone in its browser and reads nothing. *)
LEMMA GoneIsAlone ==
  ASSUME LossInv, LossRegime, NEW t \in Tabs, Gone(t)
  PROVE  OneTabEach /\ act[t] = Idle /\ get[t] = Idle /\ list[t] = Idle /\ ~NothingForgotten
  BY DEF LossInv, Regime, LossRegime, NothingForgotten, NothingRead

(* A step of one tab that holds its browser's edits loses nothing anywhere. *)
LEMMA LossCarried ==
  ASSUME LossInv, LossRegime, NEW t \in Tabs, Touches(t), ProjectTypes',
         Onward(t) \/ (OneTabEach /\ Gone(t)'),
         Held(disk'[Home[t]], Made(Home[t])', Kept'),
         Gone(t)' => disk'[Home[t]].project = None,
         ~Gone(t)' /\ push'[t] # Idle => Rest(push'[t], disk'[Home[t]], Made(Home[t])', Kept'),
         ~Gone(t)' /\ resolve'[t] # Idle => Rest(resolve'[t], disk'[Home[t]], Made(Home[t])', Kept')
  PROVE  LossKept'
  <1>0. Kept \subseteq Kept'
    BY DEF Touches, Kept
  <1>1. ASSUME NEW b \in Browsers, b # Home[t]
        PROVE  disk'[b] = disk[b] /\ Made(b)' = Made(b) /\ Held(disk'[b], Made(b)', Kept')
    <2>1. disk'[b] = disk[b] /\ Made(b)' = Made(b)
      BY <1>1 DEF Touches, Made
    <2>2. Held(disk[b], Made(b), Kept)
      BY DEF LossInv, EditsAreHeld
    <2> QED
      BY <1>0, <2>1, <2>2 DEF Held
  <1>2. EditsAreHeld'
    BY <1>1 DEF EditsAreHeld
  <1>3. ASSUME NEW u \in Tabs, u # t
        PROVE  /\ push'[u] = push[u] /\ resolve'[u] = resolve[u] /\ (Gone(u)' <=> Gone(u))
               /\ Home[u] \in Browsers
               /\ Gone(u) => disk'[Home[u]].project = None
    <2>1. push'[u] = push[u] /\ resolve'[u] = resolve[u] /\ (Gone(u)' <=> Gone(u)) /\ Home[u] \in Browsers
      BY <1>3, Bounds DEF Touches, Gone
    <2>2. ASSUME Gone(u) PROVE disk'[Home[u]].project = None
      <3>1. Home[u] # Home[t]
        BY <1>3, <2>2, GoneIsAlone DEF OneTabEach
      <3> QED
        BY <1>1, <2>1, <2>2, <3>1 DEF LossInv, GoneIsGone
    <2> QED
      BY <2>1, <2>2
  <1>4. GoneIsGone'
    BY <1>3 DEF GoneIsGone
  <1>5. ASSUME NEW u \in Tabs, u # t, ~Gone(u), NEW r, r \in {push[u], resolve[u]}, r # Idle
        PROVE  Rest(r, disk'[Home[u]], Made(Home[u])', Kept')
    <2>1. Rest(r, disk[Home[u]], Made(Home[u]), Kept) /\ r.rev \in Int /\ SyncOf(disk[Home[u]]).rev \in Int
      BY <1>5, RevsAreNumbers DEF LossInv, SavesHoldTheRest
    <2>2. CASE Home[u] # Home[t]
      <3>1. disk'[Home[u]] = disk[Home[u]] /\ Made(Home[u])' = Made(Home[u])
        BY <1>1, <1>3, <1>5, <2>2
      <3> QED
        BY <1>0, <2>1, <3>1 DEF Rest
    <2>3. CASE Home[u] = Home[t]
      <3>1. Onward(t)
        BY <1>5, <2>3 DEF OneTabEach
      <3>2. /\ disk'[Home[u]].project # None
            /\ \/ SyncOf(disk'[Home[u]]).rev > SyncOf(disk[Home[u]]).rev
               \/ SyncOf(disk'[Home[u]]).rev = SyncOf(disk[Home[u]]).rev /\ Made(Home[u])' = Made(Home[u])
        BY <2>1, <2>3, <3>1 DEF Onward, Rest, Made
      <3>3. SyncOf(disk'[Home[u]]).rev \in Int
        BY RevAfter
      <3> QED
        BY <1>0, <2>1, <3>2, <3>3, RestKept
    <2> QED
      BY <2>2, <2>3
  <1>6. SavesHoldTheRest'
    <2>1. ASSUME NEW u \in Tabs, ~Gone(u)'
          PROVE  /\ push'[u] # Idle    => Rest(push'[u], disk'[Home[u]], Made(Home[u])', Kept')
                 /\ resolve'[u] # Idle => Rest(resolve'[u], disk'[Home[u]], Made(Home[u])', Kept')
      <3>1. CASE u = t
        BY <2>1, <3>1
      <3>2. CASE u # t
        BY <1>3, <1>5, <2>1, <3>2
      <3> QED
        BY <3>1, <3>2
    <2> QED
      BY <2>1 DEF SavesHoldTheRest
  <1> QED
    BY <1>2, <1>4, <1>6 DEF LossKept

(* The step of a tab whose requests stay what they were sent with, or end. *)
LEMMA LossOnward ==
  ASSUME LossInv, LossRegime, NEW t \in Tabs, Touches(t), ProjectTypes', Onward(t),
         Held(disk'[Home[t]], Made(Home[t])', Kept'),
         Gone(t)' => Gone(t) /\ disk'[Home[t]].project = None,
         \/ push'[t] = Idle
         \/ ~Gone(t) /\ push[t] # Idle /\ push'[t].rev = push[t].rev /\ push'[t].project = push[t].project
         \/ Gone(t)',
         \/ resolve'[t] = Idle
         \/ ~Gone(t) /\ resolve[t] # Idle /\ resolve'[t].rev = resolve[t].rev /\ resolve'[t].project = resolve[t].project
         \/ Gone(t)'
  PROVE  LossKept'
  <1>0. Kept \subseteq Kept'
    BY DEF Touches, Kept
  <1>1. ASSUME ~Gone(t), NEW r, r \in {push[t], resolve[t]}, r # Idle, NEW q, q.rev = r.rev, q.project = r.project
        PROVE  Rest(q, disk'[Home[t]], Made(Home[t])', Kept')
    <2>1. Rest(r, disk[Home[t]], Made(Home[t]), Kept) /\ r.rev \in Int /\ SyncOf(disk[Home[t]]).rev \in Int
      BY <1>1, RevsAreNumbers DEF LossInv, SavesHoldTheRest
    <2>2. /\ disk'[Home[t]].project # None
          /\ \/ SyncOf(disk'[Home[t]]).rev > SyncOf(disk[Home[t]]).rev
             \/ SyncOf(disk'[Home[t]]).rev = SyncOf(disk[Home[t]]).rev /\ Made(Home[t])' = Made(Home[t])
      BY <2>1 DEF Onward, Rest, Made
    <2>3. SyncOf(disk'[Home[t]]).rev \in Int
      BY RevAfter
    <2> QED
      BY <1>0, <1>1, <2>1, <2>2, <2>3, RestKept
  <1>2. ~Gone(t)' /\ push'[t] # Idle => Rest(push'[t], disk'[Home[t]], Made(Home[t])', Kept')
    BY <1>1
  <1>3. ~Gone(t)' /\ resolve'[t] # Idle => Rest(resolve'[t], disk'[Home[t]], Made(Home[t])', Kept')
    BY <1>1
  <1> QED
    BY <1>2, <1>3, LossCarried

(* A step that writes no cache and ends no save. *)
LEMMA LossQuiet ==
  ASSUME LossInv, UNCHANGED <<disk, push, resolve, edits>>,
         \A t \in Tabs : mem'[t].removed = mem[t].removed /\ mem'[t].forgotten = mem[t].forgotten,
         reached \subseteq reached', discarded \subseteq discarded'
  PROVE  LossKept'
  <1>1. Kept \subseteq Kept' /\ \A b : Made(b)' = Made(b)
    BY DEF Kept, Made
  <1>2. \A t \in Tabs : Gone(t)' <=> Gone(t)
    BY DEF Gone
  <1>3. GoneIsGone'
    BY <1>2 DEF LossInv, GoneIsGone
  <1>4. SavesHoldTheRest'
    BY <1>1, <1>2 DEF LossInv, SavesHoldTheRest, Rest
  <1>5. EditsAreHeld'
    BY <1>1 DEF LossInv, EditsAreHeld, Held
  <1> QED
    BY <1>3, <1>4, <1>5 DEF LossKept

LEMMA HereIsHeld ==
  ASSUME LossInv, NEW t \in Tabs
  PROVE  /\ Held(disk[Home[t]], Made(Home[t]), Kept)
         /\ disk[Home[t]].project # None => ~Gone(t)
  BY TypesOpened DEF LossInv, EditsAreHeld, GoneIsGone

(* A write is one revision on, over what was there. *)
LEMMA WrittenLoss ==
  ASSUME LossInv, LossRegime, NEW t \in Tabs, NEW p, Written(t, p), p # None, Touches(t), ProjectTypes',
         push' = push, resolve' = resolve, disk[Home[t]].project # None,
         Made(Home[t])' \subseteq Made(Home[t]) \cup EditsIn(p),
         EditsIn(disk[Home[t]].project) \subseteq EditsIn(p)
  PROVE  LossKept'
  <1> DEFINE d == disk[Home[t]]
             m == SyncOf(d)
  <1>0. /\ disk \in [Browsers -> Caches] /\ mem \in [Tabs -> Memories] /\ Home[t] \in Browsers
        /\ d \in Caches /\ mem[t] \in Memories /\ m \in Records
    BY TypesOpened DEF LossInv
  <1>1. Dirtied(m).rev = m.rev + 1 /\ Dirtied(m).dirty = TRUE /\ Dirtied(m) # None
    BY <1>0, WrittenBase, RevisedIsRecord, NoneIsNoValue DEF Written
  <1>2. disk'[Home[t]].project = p /\ disk'[Home[t]].meta = Dirtied(m)
    <2>1. disk'[Home[t]] = [d EXCEPT !.project = p, !.meta = Dirtied(m)]
      BY <1>0 DEF Written
    <2> HIDE DEF m
    <2> QED
      BY <1>0, <2>1 DEF Caches
  <1>3. SyncOf(disk'[Home[t]]).rev = m.rev + 1 /\ SyncOf(disk'[Home[t]]).dirty
    BY <1>1, <1>2 DEF SyncOf
  <1>4. mem'[t].removed = mem[t].removed /\ mem'[t].forgotten = mem[t].forgotten
    BY <1>0 DEF Written, Memories
  <1>5. Onward(t)
    BY <1>2, <1>3, RevsAreNumbers DEF Onward, LossInv
  <1>6. Kept \subseteq Kept'
    BY DEF Touches, Kept
  <1>7. Held(disk'[Home[t]], Made(Home[t])', Kept')
    BY <1>2, <1>3, <1>6, HereIsHeld DEF Held
  <1>8. ~Gone(t) /\ ~Gone(t)'
    BY <1>4, HereIsHeld DEF Gone
  <1> QED
    BY <1>5, <1>7, <1>8, LossOnward

(* Everything a person does: what they gave up is counted as such. *)
LEMMA PersonLoss ==
  ASSUME LossInv, LossRegime, NEW t \in Tabs, PersonActs(t)
  PROVE  LossKept'
  <1> DEFINE d == disk[Home[t]]
             m == SyncOf(d)
  <1>0. /\ disk \in [Browsers -> Caches] /\ mem \in [Tabs -> Memories] /\ Home[t] \in Browsers
        /\ d \in Caches /\ mem[t] \in Memories /\ m \in Records
        /\ push \in [Tabs -> Requests] /\ resolve \in [Tabs -> Requests] /\ ProjectTypes
    BY TypesOpened DEF LossInv
  <1>1. Touches(t) /\ ProjectTypes'
    BY <1>0, PersonTouches, ProjectTypesNext DEF Next
  <1>2. Kept \subseteq Kept' /\ Held(d, Made(Home[t]), Kept) /\ (d.project # None => ~Gone(t))
    BY <1>1, HereIsHeld DEF Touches, Kept
  <1>3. m.rev \in Int /\ m.rev >= 0
    BY RevsAreNumbers DEF LossInv
  <1> HIDE DEF m
  <1>4. ASSUME NEW f \in Fields, Edit(t, f) PROVE LossKept'
    <2> DEFINE e == <<Home[t], edits[Home[t]] + 1>>
               p == [d.project EXCEPT !.field[f] = @ \cup {e}]
    <2>1. Written(t, p) /\ d.project # None /\ push' = push /\ resolve' = resolve
      BY <1>4 DEF Edit, netVars
    <2>2. d.project \in Projects
      BY <1>0, <2>1 DEF Caches
    <2>3. EditsIn(d.project) \cup {e} \subseteq EditsIn(p)
      BY <2>2, EditsAdded
    <2>4. edits \in [Browsers -> 0..MaxEdits] /\ edits' = [edits EXCEPT ![Home[t]] = @ + 1]
      BY <1>0, <1>4 DEF Edit, ProjectTypes, TypeOK
    <2>5. Made(Home[t])' \subseteq Made(Home[t]) \cup {e}
      <3>1. edits'[Home[t]] = edits[Home[t]] + 1 /\ edits[Home[t]] \in Nat
        BY <1>0, <2>4, Bounds
      <3> QED
        BY <3>1 DEF Made
    <2>6. p # None
      <3>1. edits[Home[t]] < MaxEdits /\ edits[Home[t]] \in 0..MaxEdits
        BY <1>0, <1>4, <2>4 DEF Edit
      <3>2. edits[Home[t]] + 1 \in 1..MaxEdits
        BY <3>1, Bounds
      <3>3. e \in Edits
        BY <1>0, <3>2 DEF Edits
      <3>4. p \in Projects
        BY <2>2, <3>3 DEF Projects
      <3> QED
        BY <3>4, NoneIsNoValue
    <2> HIDE DEF p, e
    <2> QED
      BY <1>1, <2>1, <2>3, <2>5, <2>6, WrittenLoss
  <1>5. ASSUME NEW x \in Versions, AddVersion(t, x) \/ Withdraw(t, x) PROVE LossKept'
    <2>1. PICK v : /\ Written(t, [d.project EXCEPT !.versions = v]) /\ d.project # None
                   /\ push' = push /\ resolve' = resolve /\ edits' = edits
                   /\ v \subseteq Versions
      <3>1. CASE AddVersion(t, x)
        <4>1. d.project.versions \cup {x} \subseteq Versions
          BY <1>0, <3>1 DEF AddVersion, Caches, Projects
        <4> QED
          BY <3>1, <4>1 DEF AddVersion, netVars
      <3>2. CASE Withdraw(t, x)
        <4>1. d.project.versions \ {x} \subseteq Versions
          BY <1>0, <3>2 DEF Withdraw, Caches, Projects
        <4> QED
          BY <3>2, <4>1 DEF Withdraw, netVars
      <3> QED
        BY <1>5, <3>1, <3>2
    <2> DEFINE p == [d.project EXCEPT !.versions = v]
    <2>2. d.project \in Projects
      BY <1>0, <2>1 DEF Caches
    <2>3. EditsIn(p) = EditsIn(d.project)
      BY <2>2, VersionsApart
    <2>4. p \in Projects
      BY <2>1, <2>2 DEF Projects
    <2>5. Made(Home[t])' = Made(Home[t])
      BY <2>1 DEF Made
    <2>6. Written(t, p)
      BY <2>1
    <2> HIDE DEF p
    <2> QED
      BY <1>1, <2>1, <2>3, <2>4, <2>5, <2>6, NoneIsNoValue, WrittenLoss
  <1>6. CASE Create(t)
    <2>1. \A u \in Tabs : push[u] = Idle /\ ~Gone(u) /\ disk[Home[u]].project = None
      BY <1>6, Bounds DEF Create, Gone, Fresh
    <2>2. \A u \in Tabs : resolve[u] = Idle
      BY <2>1 DEF LossInv, SavesHoldTheRest, Rest
    <2>3. UNCHANGED <<push, resolve, edits>> /\ \A b \in Browsers : edits[b] = 0
      BY <1>6 DEF Create, netVars, auxVars
    <2>4. \A b \in Browsers : Made(b)' = {}
      BY <2>3 DEF Made
    <2>5. \A u \in Tabs : ~Gone(u)'
      <3>1. ~Gone(t)'
        BY <1>0, <1>6 DEF Create, Gone, Memories, Fresh
      <3>2. \A u \in Tabs : u # t => (Gone(u)' <=> Gone(u))
        BY <1>1 DEF Touches, Gone
      <3> QED
        BY <2>1, <3>1, <3>2
    <2> QED
      BY <2>1, <2>2, <2>3, <2>4, <2>5 DEF LossKept, GoneIsGone, SavesHoldTheRest, EditsAreHeld, Held
  <1>7. CASE Remove(t)
    <2>1. OneTabEach
      BY <1>7 DEF Remove, LossRegime, NothingForgotten, NothingRead
    <2>2. disk'[Home[t]].project = None
      BY <1>0, <1>7 DEF Remove, Forgotten
    <2>3. Gone(t)'
      <3>1. Dropped(mem[t], d) \in Memories
        BY <1>0, DroppedMemory
      <3>2. mem'[t] = [Dropped(mem[t], d) EXCEPT !.removed = TRUE]
        BY <1>0, <1>7 DEF Remove
      <3> QED
        BY <3>1, <3>2 DEF Gone, Memories
    <2>4. Made(Home[t])' = Made(Home[t]) /\ EditsIn(d.project) \subseteq Kept'
      BY <1>7 DEF Remove, Made, Kept
    <2>5. Held(disk'[Home[t]], Made(Home[t])', Kept')
      BY <1>2, <2>4 DEF Held
    <2> QED
      BY <1>1, <2>1, <2>2, <2>3, <2>5, LossCarried
  <1>8. CASE RetryLocal(t)
    <2>1. d.project # None /\ d.meta \in Records /\ m = d.meta
      BY <1>0, <1>8 DEF RetryLocal, SyncOf, Blank, Caches, m
    <2>2. /\ disk'[Home[t]].meta = Offered(m) /\ disk'[Home[t]].project = d.project
          /\ mem'[t].removed = mem[t].removed /\ mem'[t].forgotten = mem[t].forgotten
      BY <1>0, <1>8, <2>1 DEF RetryLocal, Caches, Memories
    <2>3. SyncOf(disk'[Home[t]]).rev = m.rev + 1 /\ SyncOf(disk'[Home[t]]).dirty
      <3>1. Offered(m) # None /\ Offered(m).rev = m.rev + 1 /\ Offered(m).dirty = TRUE
        BY <1>8, <2>1, RevisedIsRecord, WrittenBase, NoneIsNoValue DEF RetryLocal
      <3> QED
        BY <2>2, <3>1 DEF SyncOf
    <2>4. UNCHANGED <<push, resolve, edits>> /\ Made(Home[t])' = Made(Home[t])
      BY <1>8 DEF RetryLocal, netVars, auxVars, Made
    <2>5. Onward(t)
      BY <1>3, <2>2, <2>3 DEF Onward, m
    <2>6. Held(disk'[Home[t]], Made(Home[t])', Kept')
      BY <1>2, <2>2, <2>3, <2>4 DEF Held
    <2> QED
      BY <1>1, <1>2, <2>1, <2>2, <2>4, <2>5, <2>6, LossOnward DEF Gone
  <1>9. CASE Reload(t)
    <2> DEFINE s == mem[t].conflict
    <2>1. s \in Copies /\ d.project # None
      BY <1>0, <1>9 DEF Reload, Memories
    <2>2. disk'[Home[t]] = [project |-> s.project, owned |-> Account, meta |-> Agreed(m, s)]
      BY <1>0, <1>9 DEF Reload, m
    <2>3. Agreed(m, s) # None /\ Agreed(m, s).rev = m.rev /\ s.project # None
      BY <1>0, <2>1, AgreedMeta, KnownOfCopy
    <2>4. /\ mem'[t].removed = mem[t].removed /\ mem'[t].forgotten = mem[t].forgotten
      BY <1>0, <1>9 DEF Reload, Memories
    <2>5. UNCHANGED <<push, resolve, edits>> /\ Made(Home[t])' = Made(Home[t])
      BY <1>9 DEF Reload, netVars, Made
    <2>6. EditsIn(d.project) \subseteq Kept'
      <3>1. EditsIn(s.project) \subseteq reached
        BY <2>1, NoneIsNoValue DEF LossInv, CopiesAreReached, KnownTab, KnownCopy
      <3>2. reached' = reached /\ discarded' = discarded \cup (EditsIn(d.project) \ EditsIn(s.project))
        BY <1>9 DEF Reload
      <3> QED
        BY <3>1, <3>2 DEF Kept
    <2>7. Keeps(d, disk'[Home[t]], Kept')
      <3>1. SyncOf(disk'[Home[t]]).rev = m.rev /\ disk'[Home[t]].project # None
        BY <2>2, <2>3 DEF SyncOf
      <3> QED
        BY <2>6, <3>1 DEF Keeps, m
    <2>8. Held(disk'[Home[t]], Made(Home[t])', Kept')
      BY <1>2, <2>5, <2>7, HeldKept
    <2>9. Onward(t)
      BY <2>5, <2>7 DEF Onward, Keeps
    <2> QED
      BY <1>1, <1>2, <2>1, <2>4, <2>5, <2>8, <2>9, LossOnward DEF Gone
  <1>10. CASE Keep(t)
    <2>1. d.project # None /\ m.state = "conflict"
      BY <1>10 DEF Keep, m
    <2>2. m = d.meta
      BY <2>1 DEF SyncOf, Blank, m
    <2>3. resolve'[t].rev = m.rev /\ resolve'[t].project = d.project
      BY <1>0, <1>10, <2>2 DEF Keep, Idle
    <2>4. UNCHANGED <<disk, mem, push, edits, reached, discarded>> /\ Made(Home[t])' = Made(Home[t]) /\ Kept' = Kept
      BY <1>10 DEF Keep, diskVars, auxVars, Made, Kept
    <2>5. Rest(resolve'[t], disk'[Home[t]], Made(Home[t])', Kept')
      BY <1>2, <1>3, <2>1, <2>3, <2>4 DEF Rest, Held, m
    <2>6. push'[t] # Idle => Rest(push'[t], disk'[Home[t]], Made(Home[t])', Kept')
      BY <1>2, <2>1, <2>4 DEF LossInv, SavesHoldTheRest
    <2>7. Onward(t) /\ ~Gone(t)'
      BY <1>2, <2>1, <2>4 DEF Onward, Gone
    <2> QED
      BY <1>1, <1>2, <2>4, <2>5, <2>6, <2>7, LossCarried
  <1>11. CASE AskAct(t) \/ Refresh(t) \/ List(t)
    BY <1>11, LossQuiet DEF AskAct, Refresh, List, diskVars, auxVars
  <1>12. CASE Load(t)
    <2>1. push'[t] = Idle /\ resolve'[t] = Idle /\ ~Gone(t)' /\ Made(Home[t])' = Made(Home[t])
      BY <1>0, <1>12 DEF Load, Gone, Fresh, auxVars, Made
    <2>2. CASE d.project # None /\ m.state = "local"
      <3>1. d.meta \in Records /\ m = d.meta
        BY <1>0, <2>2 DEF SyncOf, Blank, Caches, m
      <3>2. disk'[Home[t]].meta = Offered(m) /\ disk'[Home[t]].project = d.project
        BY <1>0, <1>12, <2>2, <3>1 DEF Load, Caches, m
      <3>3. SyncOf(disk'[Home[t]]).rev = m.rev + 1 /\ SyncOf(disk'[Home[t]]).dirty
        <4>1. Offered(m) # None /\ Offered(m).rev = m.rev + 1 /\ Offered(m).dirty = TRUE
          BY <1>12, <2>2, <3>1, RevisedIsRecord, WrittenBase, NoneIsNoValue DEF Load, m
        <4> QED
          BY <3>2, <4>1 DEF SyncOf
      <3>4. Onward(t) /\ Held(disk'[Home[t]], Made(Home[t])', Kept')
        BY <1>2, <1>3, <2>1, <3>2, <3>3 DEF Onward, Held, m
      <3> QED
        BY <1>1, <2>1, <3>4, LossOnward
    <2>3. CASE ~(d.project # None /\ m.state = "local")
      <3>1. disk' = disk /\ edits' = edits
        BY <1>12, <2>3 DEF Load, auxVars, m
      <3>2. Onward(t) /\ Held(disk'[Home[t]], Made(Home[t])', Kept')
        BY <1>2, <2>1, <3>1 DEF Onward, Held
      <3> QED
        BY <1>1, <2>1, <3>2, LossOnward
    <2> QED
      BY <2>2, <2>3
  <1> QED
    BY <1>4, <1>5, <1>6, <1>7, <1>8, <1>9, <1>10, <1>11, <1>12 DEF PersonActs

(* A save begun carries the whole cache at its revision. *)
LEMMA StartPushLoss ==
  ASSUME LossInv, LossRegime, NEW t \in Tabs, TimerFires(t) \/ PushNow(t)
  PROVE  LossKept'
  <1> DEFINE d == disk[Home[t]]
  <1>0. /\ disk \in [Browsers -> Caches] /\ Home[t] \in Browsers /\ d \in Caches
        /\ push \in [Tabs -> Requests] /\ ProjectTypes
    BY TypesOpened DEF LossInv
  <1>1. Touches(t) /\ ProjectTypes'
    BY <1>0, SavesTouch, ProjectTypesNext DEF Next, Saves
  <1>2. UNCHANGED <<resolve, edits, reached, discarded>>
    BY DEF TimerFires, PushNow, auxVars
  <1>3. mem'[t].removed = mem[t].removed /\ mem'[t].forgotten = mem[t].forgotten
    BY <1>0, StartPushQuietly
  <1>4. PICK m : StartPush(t, m)
    BY DEF TimerFires, PushNow
  <1>5. CASE disk' = disk /\ push' = push
    <2>1. \A u \in Tabs : mem'[u].removed = mem[u].removed /\ mem'[u].forgotten = mem[u].forgotten
      BY <1>1, <1>3 DEF Touches
    <2> QED
      BY <1>2, <1>5, <2>1, LossQuiet
  <1>6. CASE /\ d.project # None /\ d.meta # None
             /\ push' = [push EXCEPT ![t] = [Idle EXCEPT !.stage = "sent", !.v = d.meta.v,
                                               !.rev = d.meta.rev, !.project = d.project]]
             /\ disk' = [disk EXCEPT ![Home[t]].meta.state = "saving"]
    <2>1. /\ d.meta \in Records /\ disk'[Home[t]].meta = [d.meta EXCEPT !.state = "saving"]
          /\ disk'[Home[t]].project = d.project
      BY <1>0, <1>6 DEF Caches
    <2>2. \A x \in SyncStates : /\ [d.meta EXCEPT !.state = x] \in Records
                                /\ [d.meta EXCEPT !.state = x].rev = d.meta.rev
                                /\ [d.meta EXCEPT !.state = x].dirty = d.meta.dirty
      BY <2>1 DEF Records
    <2>3. SyncOf(disk'[Home[t]]).rev = d.meta.rev /\ SyncOf(disk'[Home[t]]).dirty = d.meta.dirty
      BY <2>1, <2>2, StatesKnown, NoneIsNoValue DEF SyncOf
    <2>4. SyncOf(d) = d.meta /\ d.meta.rev \in Int
      BY <1>6, <2>1, Bounds DEF SyncOf, Records
    <2>5. Held(d, Made(Home[t]), Kept) /\ ~Gone(t)
      BY <1>6, HereIsHeld
    <2>6. Made(Home[t])' = Made(Home[t]) /\ Kept' = Kept
      BY <1>2 DEF Made, Kept
    <2>7. Onward(t) /\ Held(disk'[Home[t]], Made(Home[t])', Kept') /\ ~Gone(t)'
      BY <1>2, <1>3, <2>1, <2>3, <2>4, <2>5, <2>6 DEF Onward, Held, Gone
    <2>8. push'[t].rev = d.meta.rev /\ push'[t].project = d.project
      BY <1>0, <1>6 DEF Idle
    <2>9. Rest(push'[t], disk'[Home[t]], Made(Home[t])', Kept')
      BY <1>6, <2>1, <2>3, <2>4, <2>5, <2>6, <2>8 DEF Rest, Held
    <2>10. resolve'[t] # Idle => Rest(resolve'[t], disk'[Home[t]], Made(Home[t])', Kept')
      BY <1>2, <1>6, <2>1, <2>3, <2>4, <2>5, <2>6 DEF LossInv, SavesHoldTheRest, Rest
    <2> QED
      BY <1>1, <2>7, <2>9, <2>10, LossCarried
  <1> QED
    BY <1>4, <1>5, <1>6 DEF StartPush

(* The record is clean only when the save was of its revision: all is kept then. *)
LEMMA AdoptLoss ==
  ASSUME LossInv, LossRegime, NEW t \in Tabs, NEW s \in Copies, NEW rev, NEW m \in Memories, Adopt(t, s, rev, m),
         m.removed = mem[t].removed, m.forgotten = mem[t].forgotten, Touches(t), ProjectTypes',
         UNCHANGED <<edits, reached, discarded>>, push'[t] \in {push[t], Idle}, resolve'[t] \in {resolve[t], Idle},
         NEW r, r \in {push[t], resolve[t]}, r # Idle, r.rev = rev, r.stage = "served"
  PROVE  LossKept'
  <1> DEFINE d == disk[Home[t]]
             c == Adopted(d, s, rev)
  <1>0. /\ disk \in [Browsers -> Caches] /\ mem \in [Tabs -> Memories] /\ Home[t] \in Browsers /\ d \in Caches
    BY TypesOpened DEF LossInv
  <1>1. Made(Home[t])' = Made(Home[t]) /\ Kept' = Kept
    BY DEF Made, Kept
  <1>2. Held(d, Made(Home[t]), Kept)
    BY HereIsHeld
  <1>3. mem'[t].removed = m.removed /\ mem'[t].forgotten = m.forgotten
    BY <1>0 DEF Adopt, Memories
  <1>4. Gone(t)' <=> Gone(t)
    BY <1>3 DEF Gone
  <1>5. CASE Gone(t)
    <2>1. disk' = disk
      BY <1>5 DEF Adopt, Gone
    <2>2. Onward(t) /\ disk'[Home[t]].project = None
      BY <1>5, <2>1 DEF Onward, LossInv, GoneIsGone
    <2> QED
      BY <1>1, <1>2, <1>4, <1>5, <2>1, <2>2, LossOnward
  <1>6. CASE ~Gone(t)
    <2>1. disk'[Home[t]] = c
      BY <1>0, <1>6 DEF Adopt, Gone
    <2>2. Rest(r, d, Made(Home[t]), Kept) /\ EditsIn(r.project) \subseteq Kept
      BY <1>6 DEF LossInv, SavesHoldTheRest, CopiesAreReached, KnownTab, Saved, Kept
    <2>3. d.project \in Projects
      BY <1>0, <2>2 DEF Rest, Caches
    <2>4. /\ c.meta # None /\ c.project = Merge(d.project, s)
          /\ c.meta.dirty = (SyncOf(d).rev # rev) /\ c.meta.rev = SyncOf(d).rev
      BY <1>0, AdoptedMeta
    <2>5. c.project # None /\ EditsIn(c.project) = EditsIn(d.project)
      BY <2>3, <2>4, MergedIsProject, MergedEdits, NoneIsNoValue
    <2> HIDE DEF c
    <2>6. SyncOf(c).rev = SyncOf(d).rev /\ SyncOf(c).dirty = (SyncOf(d).rev # rev)
      BY <2>4 DEF SyncOf
    <2>7. Held(c, Made(Home[t]), Kept)
      <3>1. CASE SyncOf(d).rev = rev
        BY <2>2, <3>1 DEF Rest, Held
      <3>2. CASE SyncOf(d).rev # rev
        BY <1>2, <2>5, <2>6, <3>2 DEF Held
      <3> QED
        BY <3>1, <3>2
    <2>8. Onward(t)
      BY <2>1, <2>5, <2>6 DEF Onward
    <2> QED
      BY <1>1, <1>4, <1>6, <2>1, <2>7, <2>8, LossOnward
  <1> QED
    BY <1>5, <1>6

(* A refusal keeps the cache, or reconciles it. *)
LEMMA FailedLoss ==
  ASSUME LossInv, LossRegime, NEW t \in Tabs, NEW q \in Caches, NEW m \in Memories, Failed(t, q, m),
         m.removed = mem[t].removed, m.forgotten = mem[t].forgotten, ProjectTypes',
         disk[Home[t]].project = None => q.project = None,
         ~Gone(t) => Keeps(disk[Home[t]], q, Kept)
  PROVE  LossKept'
  <1> DEFINE d == disk[Home[t]]
  <1>0. /\ disk \in [Browsers -> Caches] /\ mem \in [Tabs -> Memories] /\ Home[t] \in Browsers /\ d \in Caches
        /\ push \in [Tabs -> Requests] /\ ProjectTypes
    BY TypesOpened DEF LossInv
  <1>1. Touches(t)
    BY <1>0, FailedTouches
  <1>2. /\ push'[t] = Idle /\ UNCHANGED <<resolve, edits, reached, discarded>>
        /\ Made(Home[t])' = Made(Home[t]) /\ Kept' = Kept
    BY <1>0 DEF Failed, auxVars, Made, Kept
  <1>3. Held(d, Made(Home[t]), Kept)
    BY HereIsHeld
  <1>4. Gone(t)' <=> Gone(t)
    <2>1. CASE mem[t].removed
      <3>1. mem'[t] = Finished(Dropped(mem[t], d)) /\ Dropped(mem[t], d) \in Memories
        BY <1>0, <2>1, DroppedMemory DEF Failed
      <3> QED
        BY <1>0, <3>1, DroppedMemory, FinishedMemory DEF Gone
    <2>2. CASE ~mem[t].removed
      <3>1. mem'[t] = Finished(m)
        BY <1>0, <2>2 DEF Failed
      <3> QED
        BY <3>1, FinishedMemory DEF Gone
    <2> QED
      BY <2>1, <2>2
  <1>5. CASE Gone(t)
    <2>1. OneTabEach /\ d.project = None
      BY <1>5, GoneIsAlone DEF LossInv, GoneIsGone
    <2>2. disk'[Home[t]].project = None
      BY <1>0, <2>1 DEF Failed, Caches
    <2>3. Held(disk'[Home[t]], Made(Home[t])', Kept')
      BY <1>2, <1>3, <2>1 DEF Held
    <2> QED
      BY <1>1, <1>4, <1>5, <2>1, <2>2, <2>3, LossCarried
  <1>6. CASE ~Gone(t)
    <2>1. disk'[Home[t]] = q
      BY <1>0, <1>6 DEF Failed, Gone
    <2>2. Held(disk'[Home[t]], Made(Home[t])', Kept') /\ Onward(t)
      BY <1>2, <1>3, <1>6, <2>1, HeldKept DEF Onward, Keeps
    <2> QED
      BY <1>1, <1>2, <1>4, <1>6, <2>2, LossOnward
  <1> QED
    BY <1>5, <1>6

LEMMA SavesLoss ==
  ASSUME LossInv, LossRegime, NEW t \in Tabs, Saves(t)
  PROVE  LossKept'
  <1> DEFINE d == disk[Home[t]]
             m == SyncOf(d)
  <1>0. /\ d \in Caches /\ mem[t] \in Memories /\ m \in Records /\ mem \in [Tabs -> Memories]
        /\ push \in [Tabs -> Requests] /\ ProjectTypes
    BY TypesOpened DEF LossInv
  <1>1. Touches(t) /\ ProjectTypes'
    BY <1>0, SavesTouch, ProjectTypesNext DEF Next
  <1> HIDE DEF m
  <1>2. CASE Online(t)
    <2>1. mem'[t].removed = mem[t].removed /\ mem'[t].forgotten = mem[t].forgotten
      BY <1>0, <1>2 DEF Online, Memories
    <2>2. \A u \in Tabs : mem'[u].removed = mem[u].removed /\ mem'[u].forgotten = mem[u].forgotten
      BY <1>1, <2>1 DEF Touches
    <2> QED
      BY <1>2, <2>2, LossQuiet DEF Online, netVars, auxVars
  <1>3. CASE PushServed(t)
    <2>1. /\ Finished(mem[t]) \in Memories /\ Finished(mem[t]).removed = mem[t].removed
          /\ Finished(mem[t]).forgotten = mem[t].forgotten
      BY <1>0, FinishedMemory
    <2>2. push[t].answer \in Copies /\ push[t].stage = "served" /\ push[t] # Idle
      BY <1>0, <1>3, SentIsNotIdle DEF PushServed, ProjectTypes, Shapes, Answered
    <2>3. Adopt(t, push[t].answer, push[t].rev, Finished(mem[t]))
      BY <1>3 DEF PushServed
    <2>4. push'[t] = Idle /\ resolve' = resolve /\ UNCHANGED <<edits, reached, discarded>>
      BY <1>0, <1>3 DEF PushServed, auxVars
    <2> QED
      BY <1>1, <2>1, <2>2, <2>3, <2>4, AdoptLoss
  <1>4. /\ \A x \in BOOLEAN : /\ [mem[t] EXCEPT !.timer = x] \in Memories
                              /\ [mem[t] EXCEPT !.timer = x].removed = mem[t].removed
                              /\ [mem[t] EXCEPT !.timer = x].forgotten = mem[t].forgotten
        /\ \A s \in Copies : /\ [mem[t] EXCEPT !.conflict = s] \in Memories
                             /\ [mem[t] EXCEPT !.conflict = s].removed = mem[t].removed
                             /\ [mem[t] EXCEPT !.conflict = s].forgotten = mem[t].forgotten
    BY <1>0 DEF Memories
  <1>5. ASSUME NEW q, q.project = d.project, SyncOf(q).rev = m.rev, SyncOf(q).dirty = m.dirty
        PROVE  Keeps(d, q, Kept)
    BY <1>5 DEF Keeps, m
  <1>6. CASE PushStale(t)
    <2> DEFINE s == push[t].answer
    <2>1. s \in Copies
      BY <1>0, <1>6 DEF PushStale, ProjectTypes, Shapes, Answered
    <2>2. CASE Reconcilable(d, s)
      <3> DEFINE n == [mem[t] EXCEPT !.timer = Mine(d) # {}]
      <3>1. Failed(t, Reconciled(d, s), n)
        BY <1>6, <2>2 DEF PushStale
      <3>2. Reconciled(d, s) \in Caches /\ d.project # None
        BY <1>0, <2>1, <2>2, ReconciledIsCache DEF Reconcilable
      <3>3. n \in Memories /\ n.removed = mem[t].removed /\ n.forgotten = mem[t].forgotten
        BY <1>4
      <3>4. KnownProject(SyncOf(d).base, Kept)
        <4>1. KnownProject(SyncOf(d).base, reached) /\ reached \subseteq Kept
          BY <1>0, TypesOpened DEF LossInv, CopiesAreReached, Kept
        <4> QED
          BY <4>1, KnownGrows
      <3>5. Keeps(d, Reconciled(d, s), Kept)
        BY <1>0, <2>1, <2>2, <3>4, ReconciledKeeps
      <3> HIDE DEF n
      <3> QED
        BY <1>1, <3>1, <3>2, <3>3, <3>5, FailedLoss
    <2>3. CASE ~Reconcilable(d, s)
      <3> DEFINE q == [d EXCEPT !.meta = [m EXCEPT !.state = "conflict"]]
                 n == [mem[t] EXCEPT !.conflict = s]
      <3>1. Failed(t, q, n)
        BY <1>6, <2>3 DEF PushStale, m
      <3>2. q \in Caches /\ q.project = d.project /\ SyncOf(q).rev = m.rev /\ SyncOf(q).dirty = m.dirty
        BY <1>0, StateSetValues
      <3>3. n \in Memories /\ n.removed = mem[t].removed /\ n.forgotten = mem[t].forgotten
        BY <1>4, <2>1
      <3> HIDE DEF q, n
      <3> QED
        BY <1>1, <1>5, <3>1, <3>2, <3>3, FailedLoss
    <2> QED
      BY <2>2, <2>3
  <1>7. CASE PushMissing(t)
    <2> DEFINE q1 == [d EXCEPT !.meta = None]
               q2 == [d EXCEPT !.meta = [m EXCEPT !.state = "local", !.gone = TRUE]]
               q3 == [d EXCEPT !.meta = [m EXCEPT !.v = 0, !.state = "saving"]]
               n1 == Dropped(mem[t], d)
               n3 == [mem[t] EXCEPT !.timer = TRUE]
    <2>1. q1 \in Caches /\ q1.project = d.project
      BY <1>0, MetaIsCache DEF Caches
    <2>2. /\ q2 \in Caches /\ q2.project = d.project /\ SyncOf(q2).rev = m.rev /\ SyncOf(q2).dirty = m.dirty
          /\ q3 \in Caches /\ q3.project = d.project /\ SyncOf(q3).rev = m.rev /\ SyncOf(q3).dirty = m.dirty
      BY <1>0, StateSetValues
    <2>3. /\ n1 \in Memories /\ n1.removed = mem[t].removed /\ n1.forgotten = mem[t].forgotten
          /\ n3 \in Memories /\ n3.removed = mem[t].removed /\ n3.forgotten = mem[t].forgotten
      BY <1>0, <1>4, DroppedMemory
    <2>4. \/ d.project = None /\ Failed(t, q1, n1)
          \/ Failed(t, q2, mem[t]) \/ Failed(t, q3, n3)
      BY <1>7 DEF PushMissing, m
    <2>5. d.project = None => Gone(t)
      <3>1. push[t] # Idle
        BY <1>7, SentIsNotIdle DEF PushMissing
      <3> QED
        BY <3>1 DEF LossInv, SavesHoldTheRest, Rest
    <2>6. Keeps(d, q2, Kept) /\ Keeps(d, q3, Kept)
      BY <1>5, <2>2
    <2> HIDE DEF q1, q2, q3, n1, n3
    <2>7. CASE d.project = None /\ Failed(t, q1, n1)
      BY <1>1, <2>1, <2>3, <2>5, <2>7, FailedLoss
    <2>8. CASE Failed(t, q2, mem[t])
      BY <1>0, <1>1, <2>2, <2>6, <2>8, FailedLoss
    <2>9. CASE Failed(t, q3, n3)
      BY <1>1, <2>2, <2>3, <2>6, <2>9, FailedLoss
    <2> QED
      BY <2>4, <2>7, <2>8, <2>9
  <1>8. CASE PushRefused(t)
    <2> DEFINE q == [d EXCEPT !.meta = [m EXCEPT !.state = "local", !.gone = FALSE]]
    <2>1. q \in Caches /\ q.project = d.project /\ SyncOf(q).rev = m.rev /\ SyncOf(q).dirty = m.dirty
      BY <1>0, StateSetValues
    <2>2. Failed(t, q, mem[t])
      BY <1>8 DEF PushRefused, m
    <2> HIDE DEF q
    <2> QED
      BY <1>0, <1>1, <1>5, <2>1, <2>2, FailedLoss
  <1>9. CASE PushLost(t)
    <2> DEFINE q == [d EXCEPT !.meta = [m EXCEPT !.state = "offline"]]
               n == [mem[t] EXCEPT !.timer = TRUE]
    <2>1. q \in Caches /\ q.project = d.project /\ SyncOf(q).rev = m.rev /\ SyncOf(q).dirty = m.dirty
      BY <1>0, StateSetValues
    <2>2. n \in Memories /\ n.removed = mem[t].removed /\ n.forgotten = mem[t].forgotten
      BY <1>4
    <2>3. Failed(t, q, n)
      BY <1>9 DEF PushLost, m
    <2> HIDE DEF q, n
    <2> QED
      BY <1>1, <1>5, <2>1, <2>2, <2>3, FailedLoss
  <1> QED
    BY <1>2, <1>3, <1>6, <1>7, <1>8, <1>9, StartPushLoss DEF Saves

(* A cache put in place of the tab's, that holds all it held. *)
LEMMA KeepsLoss ==
  ASSUME LossInv, LossRegime, NEW t \in Tabs, Touches(t), ProjectTypes', ~Gone(t), ~Gone(t)',
         UNCHANGED <<push, resolve, edits, reached, discarded>>,
         Keeps(disk[Home[t]], disk'[Home[t]], Kept)
  PROVE  LossKept'
  <1>1. Made(Home[t])' = Made(Home[t]) /\ Kept' = Kept
    BY DEF Made, Kept
  <1>2. Held(disk[Home[t]], Made(Home[t]), Kept)
    BY HereIsHeld
  <1>3. Held(disk'[Home[t]], Made(Home[t])', Kept')
    BY <1>1, <1>2, HeldKept
  <1>4. Onward(t)
    BY DEF Onward, Keeps
  <1> QED
    BY <1>3, <1>4, LossOnward

(* A merge with the server's versions, and an agreement over nothing waiting. *)
LEMMA MergedKeeps ==
  ASSUME NEW d, NEW c, NEW s \in Copies, d.project \in Projects, c.project = Merge(d.project, s), NEW k,
         SyncOf(c).rev = SyncOf(d).rev, SyncOf(c).dirty = SyncOf(d).dirty
  PROVE  Keeps(d, c, k)
  <1>1. c.project # None /\ EditsIn(c.project) = EditsIn(d.project)
    BY MergedIsProject, MergedEdits, NoneIsNoValue
  <1> QED
    BY <1>1 DEF Keeps

LEMMA AgreedKeeps ==
  ASSUME NEW d, SyncOf(d) \in Records, NEW c, NEW s \in Copies, NEW k,
         c.project = s.project, c.meta = Agreed(SyncOf(d), s), d.project = None \/ ~SyncOf(d).dirty
  PROVE  Keeps(d, c, k)
  <1> DEFINE m == SyncOf(d)
  <1>1. Agreed(m, s) # None /\ Agreed(m, s).rev = m.rev /\ s.project # None
    BY AgreedMeta, KnownOfCopy
  <1> HIDE DEF m
  <1>2. SyncOf(c).rev = m.rev /\ c.project # None
    BY <1>1 DEF SyncOf, m
  <1> QED
    BY <1>2 DEF Keeps, m

(* A read answered keeps what waits. *)
LEMMA RefreshedKeeps ==
  ASSUME LossInv, NEW t \in Tabs, NEW s \in Copies, NEW m \in Memories,
         Refreshed(t, disk[Home[t]], s, m)
  PROVE  Keeps(disk[Home[t]], disk'[Home[t]], Kept)
  <1> DEFINE d == disk[Home[t]]
             c == disk'[Home[t]]
  <1>0. /\ disk \in [Browsers -> Caches] /\ Home[t] \in Browsers /\ d \in Caches /\ SyncOf(d) \in Records
    BY TypesOpened DEF LossInv
  <1>2. SyncOf(d).dirty => d.meta \in Records /\ SyncOf(d) = d.meta
    BY <1>0 DEF SyncOf, Blank, Caches
  <1>3. CASE d.project = None \/ ~SyncOf(d).dirty
    <2>1. c.project = s.project /\ c.meta = Agreed(SyncOf(d), s)
      BY <1>0, <1>3 DEF Refreshed
    <2> QED
      BY <1>0, <1>3, <2>1, AgreedKeeps
  <1>4. CASE d.project # None /\ SyncOf(d).dirty /\ d.meta.v # 0 /\ s.v # d.meta.v
    <2>1. CASE Reconcilable(d, s)
      <3>1. c = Reconciled(d, s)
        BY <1>0, <1>4, <2>1 DEF Refreshed
      <3>2. KnownProject(SyncOf(d).base, Kept)
        <4>1. KnownProject(SyncOf(d).base, reached) /\ reached \subseteq Kept
          BY <1>0 DEF LossInv, CopiesAreReached, Kept
        <4> QED
          BY <4>1, KnownGrows
      <3> QED
        BY <1>0, <2>1, <3>1, <3>2, ReconciledKeeps
    <2>2. CASE ~Reconcilable(d, s)
      <3>1. c.project = d.project /\ c.meta = [d.meta EXCEPT !.state = "conflict"]
        BY <1>0, <1>4, <2>2 DEF Refreshed, Caches
      <3>2. \A x \in SyncStates : /\ [d.meta EXCEPT !.state = x] \in Records
                                  /\ [d.meta EXCEPT !.state = x].rev = d.meta.rev
                                  /\ [d.meta EXCEPT !.state = x].dirty = d.meta.dirty
        BY <1>2, <1>4 DEF Records
      <3>3. c.meta # None /\ c.meta.rev = d.meta.rev /\ c.meta.dirty = d.meta.dirty
        BY <3>1, <3>2, StatesKnown, NoneIsNoValue
      <3>4. SyncOf(c).rev = SyncOf(d).rev /\ SyncOf(c).dirty = SyncOf(d).dirty
        BY <1>2, <1>4, <3>3 DEF SyncOf
      <3> QED
        BY <3>1, <3>4 DEF Keeps
    <2> QED
      BY <2>1, <2>2
  <1>5. CASE d.project # None /\ SyncOf(d).dirty /\ (d.meta.v = 0 \/ s.v = d.meta.v)
    <2>1. /\ c.project = Merge(d.project, s)
          /\ c.meta = IF d.meta.state = "local" /\ d.meta.gone
                      THEN [d.meta EXCEPT !.state = "saving", !.gone = FALSE]
                      ELSE d.meta
      BY <1>0, <1>5 DEF Refreshed
    <2>2. \A x \in SyncStates : /\ [d.meta EXCEPT !.state = x, !.gone = FALSE] \in Records
                                /\ [d.meta EXCEPT !.state = x, !.gone = FALSE].rev = d.meta.rev
                                /\ [d.meta EXCEPT !.state = x, !.gone = FALSE].dirty = d.meta.dirty
      BY <1>2, <1>5 DEF Records
    <2>3. c.meta # None /\ c.meta.rev = d.meta.rev /\ c.meta.dirty = d.meta.dirty
      BY <1>2, <1>5, <2>1, <2>2, StatesKnown, NoneIsNoValue
    <2>4. SyncOf(c).rev = SyncOf(d).rev /\ SyncOf(c).dirty = SyncOf(d).dirty
      BY <1>2, <1>5, <2>3 DEF SyncOf
    <2>5. d.project \in Projects
      BY <1>0, <1>5 DEF Caches
    <2> QED
      BY <2>1, <2>4, <2>5, MergedKeeps
  <1> QED
    BY <1>3, <1>4, <1>5 DEF Refreshed

LEMMA ReadsLoss ==
  ASSUME LossInv, LossRegime, NEW t \in Tabs, Reads(t)
  PROVE  LossKept'
  <1> DEFINE d == disk[Home[t]]
             m == SyncOf(d)
  <1>0. /\ disk \in [Browsers -> Caches] /\ mem \in [Tabs -> Memories] /\ Home[t] \in Browsers
        /\ d \in Caches /\ mem[t] \in Memories /\ m \in Records /\ ProjectTypes /\ Regime
        /\ get \in [Tabs -> Requests] /\ list \in [Tabs -> Requests] /\ act \in [Tabs -> Requests]
        /\ push \in [Tabs -> Requests] /\ resolve \in [Tabs -> Requests]
    BY TypesOpened DEF LossInv
  <1>1. Touches(t) /\ ProjectTypes'
    BY <1>0, ReadsTouch, ProjectTypesNext DEF Next
  <1> HIDE DEF m
  <1>2. CASE GetServed(t)
    <2> DEFINE n == [mem[t] EXCEPT !.forgotten = FALSE]
    <2>1. get[t].answer \in Copies /\ get[t] # Idle
      BY <1>0, <1>2, SentIsNotIdle DEF GetServed, ProjectTypes, Shapes, Answered
    <2>2. n \in Memories /\ n.removed = mem[t].removed /\ ~n.forgotten
      BY <1>0 DEF Memories
    <2>3. Refreshed(t, d, get[t].answer, n)
      BY <1>2 DEF GetServed
    <2>4. ~Gone(t)
      BY <2>1, GoneIsAlone
    <2> HIDE DEF n
    <2>5. mem'[t].removed = mem[t].removed /\ ~mem'[t].forgotten
      BY <1>0, <2>1, <2>2, <2>3, RefreshedInRegime
    <2>6. Keeps(d, disk'[Home[t]], Kept)
      BY <2>1, <2>2, <2>3, RefreshedKeeps
    <2>7. UNCHANGED <<push, resolve, edits, reached, discarded>>
      BY <1>2 DEF GetServed, auxVars
    <2> QED
      BY <1>1, <2>4, <2>5, <2>6, <2>7, KeepsLoss DEF Gone
  <1>3. CASE GetMissing(t) \/ ListForgets(t)
    <2>1. /\ ~NothingForgotten
          /\ get[t] # Idle \/ list[t] # Idle
      BY <1>0, <1>3, SentIsNotIdle DEF GetMissing, ListForgets, Regime
    <2> QED
      BY <1>0, <2>1 DEF LossRegime, NothingRead, Regime
  <1>4. CASE GetLost(t) \/ ListServed(t) \/ ListMissing(t) \/ RemovalLost(t)
    BY <1>4, LossQuiet DEF GetLost, ListServed, ListMissing, RemovalLost, diskVars, auxVars
  <1>5. CASE KeepServed(t)
    <2> DEFINE n == [mem[t] EXCEPT !.conflict = None]
    <2>1. n \in Memories /\ n.removed = mem[t].removed /\ n.forgotten = mem[t].forgotten
      BY <1>0 DEF Memories
    <2>2. /\ resolve[t].answer \in Copies /\ Adopt(t, resolve[t].answer, resolve[t].rev, n)
          /\ resolve[t].stage = "served" /\ resolve[t] # Idle
      BY <1>0, <1>5, SentIsNotIdle DEF KeepServed, ProjectTypes, Shapes, Answered
    <2>3. resolve'[t] = Idle /\ push' = push /\ UNCHANGED <<edits, reached, discarded>>
      BY <1>0, <1>5 DEF KeepServed, auxVars
    <2> HIDE DEF n
    <2> QED
      BY <1>1, <2>1, <2>2, <2>3, AdoptLoss
  <1>6. CASE KeepLost(t)
    <2>1. UNCHANGED <<disk, mem, push, edits, reached, discarded>> /\ resolve'[t] = Idle
      BY <1>0, <1>6 DEF KeepLost, diskVars, auxVars
    <2>2. Held(disk'[Home[t]], Made(Home[t])', Kept') /\ Onward(t)
      BY <2>1, HereIsHeld DEF Held, Made, Kept, Onward
    <2>3. (Gone(t)' <=> Gone(t)) /\ (Gone(t) => disk'[Home[t]].project = None)
      BY <2>1 DEF Gone, LossInv, GoneIsGone
    <2>4. push'[t] # Idle => push[t] # Idle /\ push'[t].rev = push[t].rev /\ push'[t].project = push[t].project
      BY <2>1
    <2> QED
      BY <1>1, <2>1, <2>2, <2>3, <2>4, LossOnward
  <1>7. CASE ActServed(t)
    <2> DEFINE s == act[t].answer
               c == disk'[Home[t]]
    <2>1. s \in Copies /\ act[t] # Idle
      BY <1>0, <1>7, SentIsNotIdle DEF ActServed, ProjectTypes, Shapes, Answered
    <2>2. ~Gone(t)
      BY <2>1, GoneIsAlone
    <2>3. mem'[t].removed = mem[t].removed /\ ~mem'[t].forgotten
      BY <1>0, <1>7 DEF ActServed, Memories
    <2>4. UNCHANGED <<push, resolve, edits, reached, discarded>>
      BY <1>7 DEF ActServed, auxVars
    <2>5. Keeps(d, c, Kept)
      <3>1. CASE d.project # None /\ m.dirty
        <4>1. d.meta \in Records /\ m = d.meta
          BY <1>0, <3>1 DEF SyncOf, Blank, Caches, m
        <4>2. c.meta = [d.meta EXCEPT !.v = s.v, !.base = s.project] /\ c.project = Merge(d.project, s)
          BY <1>0, <1>7, <3>1 DEF ActServed, m
        <4>3. c.meta # None /\ c.meta.rev = d.meta.rev /\ c.meta.dirty = d.meta.dirty
          <5>1. [d.meta EXCEPT !.v = s.v, !.base = s.project] \in Records
            BY <2>1, <4>1, PatchedIsRecord, StatesKnown
          <5> QED
            BY <4>1, <4>2, <5>1, NoneIsNoValue DEF Records
        <4>4. SyncOf(c).rev = SyncOf(d).rev /\ SyncOf(c).dirty = SyncOf(d).dirty
          BY <4>1, <4>3 DEF SyncOf, m
        <4>5. d.project \in Projects
          BY <1>0, <3>1 DEF Caches
        <4> QED
          BY <2>1, <4>2, <4>4, <4>5, MergedKeeps
      <3>2. CASE ~(d.project # None /\ m.dirty)
        <4>1. c.meta = Agreed(m, s) /\ c.project = s.project
          BY <1>0, <1>7, <3>2 DEF ActServed, m
        <4> QED
          BY <1>0, <2>1, <3>2, <4>1, AgreedKeeps DEF m
      <3> QED
        BY <3>1, <3>2
    <2> QED
      BY <1>1, <2>2, <2>3, <2>4, <2>5, KeepsLoss DEF Gone
  <1>8. CASE ForgetAccount(t)
    <2>1. OneTabEach
      BY <1>0, <1>8 DEF ForgetAccount, Regime, LossRegime, NothingForgotten, NothingRead
    <2>2. CASE d.project # None /\ d.owned
      <3>1. disk'[Home[t]].project = None
        BY <1>0, <1>8, <2>2 DEF ForgetAccount, Forgotten
      <3>2. Gone(t)'
        <4>1. Dropped(mem[t], d) \in Memories
          BY <1>0, DroppedMemory
        <4>2. mem'[t] = [Dropped(mem[t], d) EXCEPT !.forgotten = TRUE, !.timer = FALSE, !.again = FALSE]
          BY <1>0, <1>8, <2>2 DEF ForgetAccount
        <4> QED
          BY <4>1, <4>2 DEF Gone, Memories
      <3>3. Made(Home[t])' = Made(Home[t]) /\ EditsIn(d.project) \subseteq Kept' /\ Kept \subseteq Kept'
        BY <1>8, <2>2 DEF ForgetAccount, Made, Kept
      <3>4. Held(disk'[Home[t]], Made(Home[t])', Kept')
        BY <3>3, HereIsHeld DEF Held
      <3> QED
        BY <1>1, <2>1, <3>1, <3>2, <3>4, LossCarried
    <2>3. CASE ~(d.project # None /\ d.owned)
      BY <1>8, <2>3, LossQuiet DEF ForgetAccount, diskVars, netVars
    <2> QED
      BY <2>2, <2>3
  <1> QED
    BY <1>2, <1>3, <1>4, <1>5, <1>6, <1>7, <1>8 DEF Reads

LEMMA ServesLoss ==
  ASSUME LossInv, LossRegime, NEW t \in Tabs, Serves(t)
  PROVE  LossKept'
  <1>0. push \in [Tabs -> Requests] /\ resolve \in [Tabs -> Requests] /\ ProjectTypes
    BY TypesOpened DEF LossInv
  <1>1. Touches(t) /\ ProjectTypes'
    BY <1>0, ServesTouch, ProjectTypesNext DEF Next
  <1>2. CASE ServeGet(t) \/ ServeList(t) \/ ServeRemoval(t)
    BY <1>2, LossQuiet DEF ServeGet, ServeList, ServeRemoval, diskVars, auxVars
  <1>3. CASE ServeAct(t)
    BY <1>1, <1>3, LossQuiet DEF ServeAct, Touches, diskVars
  <1>4. CASE ServePush(t) \/ ServeKeep(t)
    <2>1. UNCHANGED <<disk, mem, edits>>
      BY <1>4 DEF ServePush, ServeKeep, diskVars
    <2>2. Kept \subseteq Kept' /\ Made(Home[t])' = Made(Home[t])
      BY <1>1, <2>1 DEF Touches, Kept, Made
    <2>3. Held(disk'[Home[t]], Made(Home[t])', Kept') /\ Onward(t)
      BY <2>1, <2>2, HereIsHeld DEF Held, Onward
    <2>4. (Gone(t)' <=> Gone(t)) /\ (Gone(t) => disk'[Home[t]].project = None)
      BY <2>1 DEF Gone, LossInv, GoneIsGone
    <2>5. push'[t] # Idle => push[t] # Idle /\ push'[t].rev = push[t].rev /\ push'[t].project = push[t].project
      <3>1. CASE ServePush(t)
        <4>1. push[t] # Idle
          BY <3>1, SentIsNotIdle DEF ServePush
        <4> QED
          BY <1>0, <3>1, <4>1 DEF ServePush, Requests
      <3>2. CASE ServeKeep(t)
        BY <3>2 DEF ServeKeep
      <3> QED
        BY <1>4, <3>1, <3>2
    <2>6. resolve'[t] # Idle =>
            resolve[t] # Idle /\ resolve'[t].rev = resolve[t].rev /\ resolve'[t].project = resolve[t].project
      <3>1. CASE ServeKeep(t)
        <4>1. resolve[t] # Idle
          BY <3>1, SentIsNotIdle DEF ServeKeep
        <4> QED
          BY <1>0, <3>1, <4>1 DEF ServeKeep, Requests
      <3>2. CASE ServePush(t)
        BY <3>2 DEF ServePush
      <3> QED
        BY <1>4, <3>1, <3>2
    <2> QED
      BY <1>1, <2>3, <2>4, <2>5, <2>6, LossOnward
  <1> QED
    BY <1>2, <1>3, <1>4 DEF Serves

(* Nothing lost is inductive. *)
LEMMA LossInit == Init => LossInv
  <1> SUFFICES ASSUME Init PROVE LossInv
    OBVIOUS
  <1>1. ProjectTypes /\ CopiesAreReached /\ Regime
    BY ProjectTypesInit, CopiesInit, RegimeInit
  <1>2. /\ \A t \in Tabs : push[t] = Idle /\ resolve[t] = Idle /\ ~Gone(t)
        /\ \A b \in Browsers : Made(b) = {}
    BY DEF Init, Fresh, Gone, Made
  <1> QED
    BY <1>1, <1>2 DEF LossInv, GoneIsGone, SavesHoldTheRest, EditsAreHeld, Held

LEMMA LossNext == LossRegime /\ LossInv /\ [Next]_syncVars => LossInv'
  <1> SUFFICES ASSUME LossRegime, LossInv, [Next]_syncVars PROVE LossInv'
    OBVIOUS
  <1>1. ProjectTypes /\ CopiesAreReached /\ Regime
    BY DEF LossInv
  <1>4. ProjectTypes' /\ CopiesAreReached' /\ Regime'
    BY <1>1, ProjectTypesNext, CopiesNext, RegimeNext
  <1>2. ASSUME CloseAccount \/ ServerForgets \/ UNCHANGED syncVars PROVE LossKept'
    BY <1>2, LossQuiet DEF CloseAccount, ServerForgets, syncVars, diskVars, netVars, auxVars
  <1>3. LossKept'
    BY <1>2, PersonLoss, SavesLoss, ReadsLoss, ServesLoss DEF Next, LossKept
  <1> QED
    BY <1>4, <1>3 DEF LossInv, LossKept

\* In an instance where nothing takes a project away, or where nothing is read back
\* and who may take it away is the only tab of its browser: through conflicts,
\* refusals, lost answers and reloads, whichever tab saves, every edit is on the
\* server or was, waits in its browser under a dirty record, or was given up by a
\* person.  (The revision adopt compares, the base reconcile merges from.)
THEOREM EditsAreNeverLost ==
  ASSUME LossRegime
  PROVE  Spec => []NoEditIsLost
  <1>1. LossInv => NoEditIsLost
    BY DEF LossInv, EditsAreHeld, Held, Kept, NoEditIsLost
  <1> QED
    BY <1>1, LossInit, LossNext, PTL DEF Spec

\* Whatever happens, the server's copies a client holds (answers, the conflict put
\* to the person, the base of its record) and a save answered "served" carry only
\* edits the server kept: taking the server's copy cannot count on one it never had.
THEOREM CopiesStayReached == Spec => []CopiesAreReached
  <1>1. Init => ProjectTypes /\ CopiesAreReached
    BY ProjectTypesInit, CopiesInit
  <1>2. ProjectTypes /\ CopiesAreReached /\ [Next]_syncVars => ProjectTypes' /\ CopiesAreReached'
    BY ProjectTypesNext, CopiesNext
  <1> QED
    BY <1>1, <1>2, PTL DEF Spec

-----------------------------------------------------------------------------
(* Nothing is overwritten in silence: where tabs only save. *)

\* One tab in each browser, and it saves, removes and answers conflicts; nothing
\* reads the project back.
OnlySaves == OneTabEach /\ Events \cap {"refresh", "list", "act"} = {}

\* Project q has every edit of p, in its field.
Below(p, q) == \A f \in Fields : p.field[f] \subseteq q.field[f]

\* Project p under version v is not ahead of server sv, and is not short of what the
\* server has under that version.
Behind(v, p, sv) ==
  /\ v =< sv.v
  /\ v = sv.v /\ sv.project # None => Below(sv.project, p)

CopyBehind(s, sv) == s # None => Behind(s.v, s.project, sv)

\* A cache is what its version's project was, or the base's, with more edits.
CacheBehind(d, sv) ==
  /\ SyncOf(d).v =< sv.v
  /\ d.project # None =>
       /\ Behind(SyncOf(d).v, d.project, sv)
       /\ SyncOf(d).base # None => Below(SyncOf(d).base, d.project)

\* What is answered "served" is what was sent.
AnswerBehind(r, sv) ==
  CopyBehind(r.answer, sv) /\ (r.stage = "served" => r.answer.project = r.project)

\* While save p or choice r runs, its project is only added to; a choice runs in
\* a conflict, where no save does.
UnderWay(p, r, d) ==
  /\ p # Idle => Below(p.project, d.project) /\ SyncOf(d).state # "conflict"
  /\ r # Idle => Below(r.project, d.project) /\ SyncOf(d).state = "conflict" /\ p = Idle

OverAt(t) ==
  /\ AnswerBehind(push[t], server) /\ AnswerBehind(resolve[t], server)
  /\ CopyBehind(mem[t].conflict, server)
  /\ push[t] # Idle => Behind(push[t].v, push[t].project, server)
  /\ CacheBehind(disk[Home[t]], server)
  /\ ~Gone(t) => UnderWay(push[t], resolve[t], disk[Home[t]])

OverInv == LossInv /\ \A t \in Tabs : OverAt(t)

\* The server's copy is what it was, or later, or no more.
ServerMoves ==
  \/ server' = server
  \/ server'.v > server.v
  \/ server'.v = server.v /\ server'.project = None

(* What was behind the server stays behind it as it moves on. *)
LEMMA BehindOn ==
  ASSUME NEW sv, NEW tv, sv.v \in Int, tv.v \in Int,
         tv = sv \/ tv.v > sv.v \/ (tv.v = sv.v /\ tv.project = None)
  PROVE  \A v \in Int : \A p : Behind(v, p, sv) => Behind(v, p, tv)
  BY DEF Behind

(* More edits over what the server has are not behind it. *)
LEMMA BehindMore ==
  ASSUME NEW v, NEW p, NEW q, NEW sv, Behind(v, p, sv), Below(p, q)
  PROVE  Behind(v, q, sv)
  BY DEF Behind, Below

LEMMA VersionsAreNumbers ==
  ASSUME ProjectTypes, NEW t \in Tabs
  PROVE  /\ server.v \in Int /\ server.v >= 0
         /\ push[t].v \in Int /\ SyncOf(disk[Home[t]]).v \in Int
         /\ \A s \in {push[t].answer, resolve[t].answer, mem[t].conflict} : s # None => s.v \in Int
  <1>1. /\ push[t] \in Requests /\ resolve[t] \in Requests /\ mem[t] \in Memories
        /\ SyncOf(disk[Home[t]]) \in Records /\ server.v \in 0..MaxDataVersion
    BY TypesOpened DEF ProjectTypes, TypeOK
  <1>2. \A s \in {push[t].answer, resolve[t].answer, mem[t].conflict} : s # None => s \in Copies
    BY <1>1 DEF Requests, Memories
  <1> QED
    BY <1>1, <1>2, Bounds DEF Requests, Records, Copies

(* A tab's part is carried by the server's steps. *)
LEMMA OverOn ==
  ASSUME ProjectTypes, ProjectTypes', NEW t \in Tabs, ServerMoves
  PROVE  /\ \A r \in {push[t], resolve[t]} : AnswerBehind(r, server) => AnswerBehind(r, server')
         /\ CopyBehind(mem[t].conflict, server) => CopyBehind(mem[t].conflict, server')
         /\ Behind(push[t].v, push[t].project, server) => Behind(push[t].v, push[t].project, server')
         /\ CacheBehind(disk[Home[t]], server) => CacheBehind(disk[Home[t]], server')
  <1>1. server.v \in Int /\ server'.v \in Int
    BY VersionsAreNumbers, Bounds DEF ProjectTypes, TypeOK
  <1>2. \A v \in Int : \A p : Behind(v, p, server) => Behind(v, p, server')
    BY <1>1, BehindOn DEF ServerMoves
  <1>3. server.v =< server'.v
    BY <1>1 DEF ServerMoves
  <1>4. /\ push[t].v \in Int /\ SyncOf(disk[Home[t]]).v \in Int
        /\ \A s \in {push[t].answer, resolve[t].answer, mem[t].conflict} : s # None => s.v \in Int
    BY VersionsAreNumbers
  <1>5. \A s \in {push[t].answer, resolve[t].answer, mem[t].conflict} : CopyBehind(s, server) => CopyBehind(s, server')
    BY <1>2, <1>4 DEF CopyBehind
  <1>6. \A r \in {push[t], resolve[t]} : AnswerBehind(r, server) => AnswerBehind(r, server')
    BY <1>5 DEF AnswerBehind
  <1>7. CacheBehind(disk[Home[t]], server) => CacheBehind(disk[Home[t]], server')
    BY <1>1, <1>2, <1>3, <1>4 DEF CacheBehind
  <1> QED
    BY <1>2, <1>4, <1>5, <1>6, <1>7

(* A tab whose browser did not move is carried with them. *)
LEMMA OverStill ==
  ASSUME OverInv, ProjectTypes', NEW t \in Tabs, ServerMoves,
         push'[t] = push[t], resolve'[t] = resolve[t], disk'[Home[t]] = disk[Home[t]],
         mem'[t].conflict = mem[t].conflict, Gone(t)' <=> Gone(t)
  PROVE  OverAt(t)'
  BY OverOn DEF OverInv, LossInv, OverAt

(* One tab each: what a tab does leaves the others where they were. *)
LEMMA OverCarried ==
  ASSUME OverInv, OnlySaves, ProjectTypes', NEW t \in Tabs, Touches(t), ServerMoves, OverAt(t)'
  PROVE  \A u \in Tabs : OverAt(u)'
  <1> SUFFICES ASSUME NEW u \in Tabs, u # t PROVE OverAt(u)'
    OBVIOUS
  <1>1. Home[u] # Home[t] /\ Home[u] \in Browsers
    BY Bounds DEF OnlySaves, OneTabEach
  <1>2. /\ push'[u] = push[u] /\ resolve'[u] = resolve[u] /\ mem'[u] = mem[u]
        /\ disk'[Home[u]] = disk[Home[u]]
    BY <1>1 DEF Touches
  <1>3. Gone(u)' <=> Gone(u)
    BY <1>2 DEF Gone
  <1> QED
    BY <1>2, <1>3, OverStill

(* What the invariant says of the tab that moves. *)
LEMMA OverHere ==
  ASSUME OverInv, OnlySaves, NEW t \in Tabs
  PROVE  /\ OverAt(t) /\ ProjectTypes
         /\ get[t] = Idle /\ list[t] = Idle /\ act[t] = Idle
         /\ disk[Home[t]].project # None => ~Gone(t)
         /\ ~Gone(t) /\ (push[t] # Idle \/ resolve[t] # Idle) => disk[Home[t]].project # None
         /\ push[t] # Idle /\ ~Gone(t) => resolve[t] = Idle
  BY DEF OverInv, LossInv, Regime, OnlySaves, GoneIsGone, SavesHoldTheRest, Rest, OverAt, UnderWay

LEMMA NothingBehind ==
  \A sv : CopyBehind(None, sv) /\ AnswerBehind(Idle, sv)
  BY IdleStage DEF CopyBehind, AnswerBehind

(* What a write leaves of a record. *)
LEMMA WrittenState ==
  ASSUME NEW m \in Records
  PROVE  /\ Dirtied(m).v = m.v /\ Offered(m).v = m.v /\ Offered(m).state = "saving"
         /\ Dirtied(m).state = "conflict" <=> m.state = "conflict"
  BY DEF Dirtied, Offered, Records

LEMMA WrittenIsSome ==
  ASSUME NEW m \in Records, m.rev < MaxRev
  PROVE  Dirtied(m) # None /\ Offered(m) # None
  <1>1. \A n \in Records : n # None
    BY NoneIsNoValue
  <1> QED
    BY <1>1, RevisedIsRecord

(* A merge of versions leaves the fields. *)
LEMMA MergedFields ==
  ASSUME NEW p \in Projects, NEW s
  PROVE  Merge(p, s).field = p.field
  <1>1. p # None /\ Merge(p, s) = [p EXCEPT !.versions = p.versions \cup s.project.versions]
    BY NoneIsNoValue DEF Merge, Projects
  <1> QED
    BY <1>1 DEF Projects

(* reconcile leaves every edit of the server's copy. *)
LEMMA ReconciledAbove ==
  ASSUME NEW d \in Caches, NEW s \in Copies, Reconcilable(d, s), Below(SyncOf(d).base, d.project)
  PROVE  Below(s.project, Reconciled(d, s).project)
  <1> DEFINE p == d.project
             q == d.meta.base
  <1>1. p \in Projects /\ q \in Projects /\ d.meta \in Records
    BY ReconciledMeta
  <1>2. SyncOf(d) = d.meta
    BY <1>1, NoneIsNoValue DEF SyncOf
  <1>3. CASE Mine(d) = {}
    BY <1>3 DEF Reconciled, Below
  <1>4. CASE Mine(d) # {}
    <2> DEFINE o == [field    |-> [g \in Fields |-> IF g \in Mine(d) THEN p.field[g] ELSE s.project.field[g]],
                     versions |-> IF "versions" \in Mine(d) THEN p.versions ELSE s.project.versions]
    <2>1. o \in Projects
      BY <1>1 DEF Projects, Copies
    <2>2. Reconciled(d, s).project = Merge(o, s)
      BY <1>4 DEF Reconciled, Rebased
    <2>3. \A f \in Fields : o.field[f] = IF f \in Mine(d) THEN p.field[f] ELSE s.project.field[f]
      OBVIOUS
    <2>4. ASSUME NEW f \in Fields, f \in Mine(d) PROVE s.project.field[f] \subseteq p.field[f]
      <3>1. s.project.field[f] = q.field[f]
        BY <2>4 DEF Reconcilable, Mine, Changed
      <3> QED
        BY <1>2, <3>1 DEF Below
    <2> HIDE DEF o
    <2>5. Reconciled(d, s).project.field = o.field
      BY <2>1, <2>2, MergedFields
    <2> QED
      BY <2>3, <2>4, <2>5 DEF Below
  <1> QED
    BY <1>3, <1>4

(* A write only adds to the cache. *)
LEMMA WrittenOver ==
  ASSUME OverInv, OnlySaves, NEW t \in Tabs, NEW p, Written(t, p), p # None, ProjectTypes',
         push' = push, resolve' = resolve, server' = server,
         disk[Home[t]].project # None, Below(disk[Home[t]].project, p)
  PROVE  OverAt(t)'
  <1> DEFINE d == disk[Home[t]]
             c == disk'[Home[t]]
             m == SyncOf(d)
  <1>0. /\ disk \in [Browsers -> Caches] /\ mem \in [Tabs -> Memories] /\ Home[t] \in Browsers
        /\ d \in Caches /\ mem[t] \in Memories /\ m \in Records /\ OverAt(t)
    BY OverHere, TypesOpened
  <1>1. /\ Dirtied(m) # None /\ Dirtied(m).v = m.v /\ Dirtied(m).base = m.base
        /\ Dirtied(m).state = "conflict" <=> m.state = "conflict"
    <2>1. m \in Records /\ m.rev < MaxRev
      BY <1>0 DEF Written
    <2> HIDE DEF m
    <2> QED
      BY <2>1, WrittenBase, WrittenState, WrittenIsSome
  <1>2. c.project = p /\ c.meta = Dirtied(m)
    <2>1. c = [d EXCEPT !.project = p, !.meta = Dirtied(m)]
      BY <1>0 DEF Written
    <2> HIDE DEF m
    <2> QED
      BY <1>0, <2>1 DEF Caches
  <1>3. mem'[t].conflict = mem[t].conflict /\ (Gone(t)' <=> Gone(t))
    BY <1>0 DEF Written, Memories, Gone
  <1>4. /\ SyncOf(c).v = m.v /\ SyncOf(c).base = m.base
        /\ SyncOf(c).state = "conflict" <=> m.state = "conflict"
    BY <1>1, <1>2 DEF SyncOf
  <1>5. CacheBehind(c, server)
    BY <1>0, <1>2, <1>4, BehindMore DEF OverAt, CacheBehind, Below
  <1>6. UnderWay(push[t], resolve[t], d) => UnderWay(push[t], resolve[t], c)
    BY <1>2, <1>4 DEF UnderWay, Below
  <1> QED
    BY <1>0, <1>3, <1>5, <1>6 DEF OverAt

(* Everything a person does. *)
LEMMA PersonOver ==
  ASSUME OverInv, OnlySaves, NEW t \in Tabs, PersonActs(t), ProjectTypes'
  PROVE  OverAt(t)'
  <1> DEFINE d == disk[Home[t]]
             c == disk'[Home[t]]
             m == SyncOf(d)
  <1>0. /\ disk \in [Browsers -> Caches] /\ mem \in [Tabs -> Memories] /\ Home[t] \in Browsers
        /\ d \in Caches /\ mem[t] \in Memories /\ m \in Records /\ OverAt(t) /\ ProjectTypes
        /\ push \in [Tabs -> Requests] /\ resolve \in [Tabs -> Requests]
    BY OverHere, TypesOpened
  <1>1. /\ get[t] = Idle /\ list[t] = Idle /\ act[t] = Idle
        /\ d.project # None => ~Gone(t)
        /\ ~Gone(t) /\ (push[t] # Idle \/ resolve[t] # Idle) => d.project # None
        /\ push[t] # Idle /\ ~Gone(t) => resolve[t] = Idle
    BY OverHere
  <1> HIDE DEF m
  <1>2. ASSUME NEW f \in Fields, Edit(t, f) PROVE OverAt(t)'
    <2> DEFINE e == <<Home[t], edits[Home[t]] + 1>>
               p == [d.project EXCEPT !.field[f] = @ \cup {e}]
    <2>1. Written(t, p) /\ d.project # None /\ push' = push /\ resolve' = resolve /\ server' = server
      BY <1>2 DEF Edit, netVars
    <2>2. d.project \in Projects
      BY <1>0, <2>1 DEF Caches
    <2>3. Below(d.project, p)
      BY <2>2 DEF Below, Projects
    <2>4. p # None
      <3>1. edits[Home[t]] < MaxEdits /\ edits[Home[t]] \in 0..MaxEdits
        BY <1>0, <1>2 DEF Edit, ProjectTypes, TypeOK
      <3>2. edits[Home[t]] + 1 \in 1..MaxEdits
        BY <3>1, Bounds
      <3>3. e \in Edits
        BY <1>0, <3>2 DEF Edits
      <3>4. p \in Projects
        BY <2>2, <3>3 DEF Projects
      <3> QED
        BY <3>4, NoneIsNoValue
    <2> HIDE DEF p, e
    <2> QED
      BY <2>1, <2>3, <2>4, WrittenOver
  <1>3. ASSUME NEW x \in Versions, AddVersion(t, x) \/ Withdraw(t, x) PROVE OverAt(t)'
    <2>1. PICK v \in SUBSET Versions :
                   /\ Written(t, [d.project EXCEPT !.versions = v]) /\ d.project # None
                   /\ push' = push /\ resolve' = resolve /\ server' = server
      <3>1. CASE AddVersion(t, x)
        <4>1. d.project.versions \cup {x} \subseteq Versions
          BY <1>0, <3>1 DEF AddVersion, Caches, Projects
        <4> QED
          BY <3>1, <4>1 DEF AddVersion, netVars
      <3>2. CASE Withdraw(t, x)
        <4>1. d.project.versions \ {x} \subseteq Versions
          BY <1>0, <3>2 DEF Withdraw, Caches, Projects
        <4> QED
          BY <3>2, <4>1 DEF Withdraw, netVars
      <3> QED
        BY <1>3, <3>1, <3>2
    <2> DEFINE p == [d.project EXCEPT !.versions = v]
    <2>2. p \in Projects /\ p.field = d.project.field
      BY <1>0, <2>1 DEF Caches, Projects
    <2>3. Written(t, p)
      BY <2>1
    <2>4. Below(d.project, p)
      BY <2>2 DEF Below
    <2> HIDE DEF p
    <2> QED
      BY <2>1, <2>2, <2>3, <2>4, NoneIsNoValue, WrittenOver
  <1>4. CASE Create(t)
    <2>1. push[t] = Idle /\ ~Gone(t) /\ d.project = None
      BY <1>0, <1>4 DEF Create, Gone, Fresh
    <2>2. resolve[t] = Idle
      BY <1>1, <2>1
    <2>3. UNCHANGED <<server, push, resolve>> /\ server.v = 0 /\ server.project = None
      BY <1>0, <1>4 DEF Create, netVars, ProjectTypes, Shapes
    <2>4. c.project = NewProject /\ c.meta = Dirtied(Blank)
      <3>1. c = [d EXCEPT !.project = NewProject, !.meta = Dirtied(Blank)]
        BY <1>0, <1>4 DEF Create
      <3> QED
        BY <1>0, <3>1 DEF Caches
    <2>5. SyncOf(c).v = 0 /\ SyncOf(c).base = None
      <3>1. Dirtied(Blank).v = 0 /\ Dirtied(Blank).base = None /\ Dirtied(Blank) # None
        <4>1. Blank \in Records /\ Blank.rev < MaxRev
          BY FirstValues, BlankValues, Bounds
        <4> QED
          BY <4>1, BlankValues, WrittenBase, WrittenState, WrittenIsSome
      <3> QED
        BY <2>4, <3>1 DEF SyncOf
    <2>6. CacheBehind(c, server)
      BY <2>3, <2>5 DEF CacheBehind, Behind
    <2>7. mem'[t].conflict = mem[t].conflict
      BY <1>0, <1>4 DEF Create, Memories
    <2> QED
      BY <1>0, <2>1, <2>2, <2>3, <2>6, <2>7 DEF OverAt, UnderWay
  <1>5. CASE Remove(t)
    <2>1. c = Forgotten(d) /\ UNCHANGED <<server, push, resolve>>
      BY <1>0, <1>5 DEF Remove
    <2>2. CacheBehind(c, server)
      BY <1>0, <2>1, BlankValues, VersionsAreNumbers DEF Forgotten, SyncOf, CacheBehind
    <2>3. Gone(t)' /\ mem'[t].conflict \in {mem[t].conflict, None}
      <3>1. Dropped(mem[t], d) \in Memories /\ Dropped(mem[t], d).conflict \in {mem[t].conflict, None}
        BY <1>0, DroppedMemory
      <3>2. mem'[t] = [Dropped(mem[t], d) EXCEPT !.removed = TRUE]
        BY <1>0, <1>5 DEF Remove
      <3> QED
        BY <3>1, <3>2 DEF Gone, Memories
    <2> QED
      BY <1>0, <2>1, <2>2, <2>3, NothingBehind DEF OverAt
  <1>6. ASSUME d.project # None, m.state = "local", UNCHANGED <<server, push, resolve>>,
               disk' = [disk EXCEPT ![Home[t]].meta = Offered(@)], d.meta.rev < MaxRev,
               mem'[t].conflict \in {mem[t].conflict, None}, ~Gone(t)'
        PROVE  OverAt(t)'
    <2>1. d.meta \in Records /\ m = d.meta
      BY <1>0, <1>6 DEF SyncOf, Blank, Caches, m
    <2>2. c.meta = Offered(m) /\ c.project = d.project
      BY <1>0, <1>6, <2>1 DEF Caches
    <2>3. SyncOf(c).v = m.v /\ SyncOf(c).base = m.base /\ SyncOf(c).state = "saving"
      <3>1. /\ Offered(m) # None /\ Offered(m).v = m.v /\ Offered(m).base = m.base
            /\ Offered(m).state = "saving"
        BY <1>6, <2>1, WrittenIsSome, WrittenBase, WrittenState
      <3> QED
        BY <2>2, <3>1 DEF SyncOf
    <2>4. CacheBehind(c, server)
      BY <1>0, <2>2, <2>3 DEF OverAt, CacheBehind, m
    <2>5. UnderWay(push[t], resolve[t], c)
      BY <1>0, <1>1, <1>6, <2>2, <2>3 DEF OverAt, UnderWay, m
    <2> QED
      BY <1>0, <1>6, <2>4, <2>5, NothingBehind DEF OverAt
  <1>7. CASE RetryLocal(t)
    <2>1. mem'[t].conflict = mem[t].conflict /\ (Gone(t)' <=> Gone(t))
      BY <1>0, <1>7 DEF RetryLocal, Memories, Gone
    <2> QED
      BY <1>1, <1>6, <1>7, <2>1 DEF RetryLocal, netVars, m
  <1>8. CASE Reload(t)
    <2> DEFINE s == mem[t].conflict
    <2>1. s \in Copies /\ d.project # None /\ m.state = "conflict" /\ resolve[t] = Idle
      BY <1>0, <1>8 DEF Reload, Memories, m
    <2>2. push[t] = Idle
      BY <1>0, <1>1, <2>1 DEF OverAt, UnderWay, m
    <2>3. c.project = s.project /\ c.meta = Agreed(m, s)
      BY <1>0, <1>8 DEF Reload, m
    <2>4. SyncOf(c).v = s.v /\ SyncOf(c).base = s.project
      <3>1. Agreed(m, s) # None /\ Agreed(m, s).v = s.v /\ Agreed(m, s).base = s.project
        BY <1>0, <2>1, AgreedMeta
      <3> QED
        BY <2>3, <3>1 DEF SyncOf
    <2>5. Behind(s.v, s.project, server)
      BY <1>0, <2>1, NoneIsNoValue DEF OverAt, CopyBehind
    <2>6. CacheBehind(c, server)
      BY <2>3, <2>4, <2>5 DEF CacheBehind, Behind, Below
    <2>7. mem'[t].conflict = None /\ UNCHANGED <<server, push, resolve>>
      BY <1>0, <1>8 DEF Reload, netVars, Memories
    <2> QED
      BY <1>0, <2>1, <2>2, <2>6, <2>7, NothingBehind DEF OverAt, UnderWay
  <1>9. CASE Keep(t)
    <2>1. d.project # None /\ m.state = "conflict"
      BY <1>9 DEF Keep, m
    <2>2. push[t] = Idle
      BY <1>0, <1>1, <2>1 DEF OverAt, UnderWay, m
    <2>3. resolve'[t].project = d.project /\ resolve'[t].stage = "sent" /\ resolve'[t].answer = None
      BY <1>0, <1>9 DEF Keep, Idle
    <2>4. UNCHANGED <<server, disk, mem, push>>
      BY <1>9 DEF Keep, diskVars
    <2>5. AnswerBehind(resolve'[t], server)
      BY <2>3, NothingBehind DEF AnswerBehind
    <2>6. UnderWay(push[t], resolve'[t], d)
      BY <2>1, <2>2, <2>3 DEF UnderWay, Below, m
    <2> QED
      BY <1>0, <2>4, <2>5, <2>6 DEF OverAt
  <1>10. CASE AskAct(t) \/ Refresh(t) \/ List(t)
    BY <1>10, OverStill DEF AskAct, Refresh, List, diskVars, ServerMoves, Gone
  <1>11. CASE Load(t)
    <2>1. /\ push'[t] = Idle /\ resolve'[t] = Idle /\ ~Gone(t)' /\ mem'[t].conflict = None
          /\ server' = server
      BY <1>0, <1>11 DEF Load, Gone, Fresh
    <2>2. CacheBehind(c, server)
      <3>1. CASE d.project # None /\ m.state = "local"
        <4>1. d.meta \in Records /\ m = d.meta
          BY <1>0, <3>1 DEF SyncOf, Blank, Caches, m
        <4>2. c.meta = Offered(m) /\ c.project = d.project
          BY <1>0, <1>11, <3>1, <4>1 DEF Load, Caches, m
        <4>3. Offered(m) # None /\ Offered(m).v = m.v /\ Offered(m).base = m.base
          <5>1. m \in Records /\ m.rev < MaxRev
            BY <1>11, <3>1, <4>1 DEF Load, m
          <5> QED
            BY <5>1, WrittenBase, WrittenState, WrittenIsSome
        <4>4. SyncOf(c).v = m.v /\ SyncOf(c).base = m.base
          BY <4>2, <4>3 DEF SyncOf
        <4> QED
          BY <1>0, <4>2, <4>4 DEF OverAt, CacheBehind, m
      <3>2. CASE ~(d.project # None /\ m.state = "local")
        BY <1>0, <1>11, <3>2 DEF Load, OverAt, m
      <3> QED
        BY <3>1, <3>2
    <2> QED
      BY <2>1, <2>2, NothingBehind DEF OverAt, UnderWay
  <1> QED
    BY <1>2, <1>3, <1>4, <1>5, <1>7, <1>8, <1>9, <1>10, <1>11 DEF PersonActs

(* A save begun carries the cache under the version it is of. *)
LEMMA StartPushOver ==
  ASSUME OverInv, OnlySaves, NEW t \in Tabs, TimerFires(t) \/ PushNow(t), ProjectTypes'
  PROVE  OverAt(t)'
  <1> DEFINE d == disk[Home[t]]
             c == disk'[Home[t]]
  <1>0. /\ disk \in [Browsers -> Caches] /\ Home[t] \in Browsers /\ d \in Caches
        /\ push \in [Tabs -> Requests] /\ OverAt(t) /\ ProjectTypes
        /\ d.project # None => ~Gone(t)
    BY OverHere, TypesOpened
  <1>1. server' = server /\ resolve' = resolve
    BY DEF TimerFires, PushNow
  <1>2. mem'[t].conflict = mem[t].conflict /\ (Gone(t)' <=> Gone(t))
    BY <1>0, StartPushQuietly DEF Gone
  <1>3. PICK m : StartPush(t, m)
    BY DEF TimerFires, PushNow
  <1>4. CASE disk' = disk /\ push' = push
    BY <1>1, <1>2, <1>4, OverStill DEF ServerMoves
  <1>5. CASE /\ d.project # None /\ d.meta # None /\ Schedules(SyncOf(d))
             /\ push' = [push EXCEPT ![t] = [Idle EXCEPT !.stage = "sent", !.v = d.meta.v,
                                               !.rev = d.meta.rev, !.project = d.project]]
             /\ disk' = [disk EXCEPT ![Home[t]].meta.state = "saving"]
    <2>1. /\ d.meta \in Records /\ c.meta = [d.meta EXCEPT !.state = "saving"]
          /\ c.project = d.project /\ SyncOf(d) = d.meta
      BY <1>0, <1>5 DEF Caches, SyncOf
    <2>2. \A x \in SyncStates : /\ [d.meta EXCEPT !.state = x] \in Records
                                /\ [d.meta EXCEPT !.state = x].v = d.meta.v
                                /\ [d.meta EXCEPT !.state = x].base = d.meta.base
                                /\ [d.meta EXCEPT !.state = x].state = x
      BY <2>1 DEF Records
    <2>3. SyncOf(c).v = d.meta.v /\ SyncOf(c).base = d.meta.base /\ SyncOf(c).state = "saving"
      BY <2>1, <2>2, StatesKnown, NoneIsNoValue DEF SyncOf
    <2>4. /\ push'[t].v = d.meta.v /\ push'[t].project = d.project /\ push'[t].stage = "sent"
          /\ push'[t].answer = None
      BY <1>0, <1>5 DEF Idle
    <2>5. ~Gone(t) /\ resolve[t] = Idle
      BY <1>0, <1>5 DEF OverAt, UnderWay, Schedules
    <2>6. CacheBehind(c, server)
      BY <1>0, <2>1, <2>3 DEF OverAt, CacheBehind
    <2>7. AnswerBehind(push'[t], server) /\ Behind(push'[t].v, push'[t].project, server)
      BY <1>0, <1>5, <2>1, <2>4, NothingBehind DEF AnswerBehind, OverAt, CacheBehind
    <2>8. UnderWay(push'[t], resolve[t], c)
      BY <2>1, <2>3, <2>4, <2>5 DEF UnderWay, Below
    <2> QED
      BY <1>0, <1>1, <1>2, <2>6, <2>7, <2>8 DEF OverAt
  <1> QED
    BY <1>3, <1>4, <1>5 DEF StartPush

(* What the server kept is in the cache it answers. *)
LEMMA AdoptOver ==
  ASSUME OverInv, OnlySaves, NEW t \in Tabs, NEW r, r # Idle, r.stage = "served", r.answer \in Copies,
         NEW m \in Memories, Adopt(t, r.answer, r.rev, m),
         m.removed = mem[t].removed, m.forgotten = mem[t].forgotten, m.conflict \in {mem[t].conflict, None},
         \/ r = push[t] /\ push'[t] = Idle /\ resolve'[t] = resolve[t]
         \/ r = resolve[t] /\ resolve'[t] = Idle /\ push'[t] = push[t],
         server' = server
  PROVE  OverAt(t)'
  <1> DEFINE d == disk[Home[t]]
             c == Adopted(d, r.answer, r.rev)
             s == r.answer
  <1>0. /\ disk \in [Browsers -> Caches] /\ mem \in [Tabs -> Memories] /\ Home[t] \in Browsers /\ d \in Caches
        /\ OverAt(t) /\ ProjectTypes
        /\ ~Gone(t) => d.project # None
        /\ push[t] # Idle /\ ~Gone(t) => resolve[t] = Idle
    BY OverHere, TypesOpened
  <1>1. mem'[t].conflict = m.conflict /\ (Gone(t)' <=> Gone(t))
    BY <1>0 DEF Adopt, Memories, Gone
  <1>2. /\ AnswerBehind(push'[t], server) /\ AnswerBehind(resolve'[t], server)
        /\ CopyBehind(mem'[t].conflict, server)
        /\ push'[t] # Idle => Behind(push'[t].v, push'[t].project, server)
    BY <1>0, <1>1, NothingBehind DEF OverAt
  <1>3. CASE Gone(t)
    <2>1. disk' = disk
      BY <1>3 DEF Adopt, Gone
    <2> QED
      BY <1>0, <1>1, <1>2, <1>3, <2>1 DEF OverAt
  <1>4. CASE ~Gone(t)
    <2>1. disk'[Home[t]] = c
      BY <1>0, <1>4 DEF Adopt, Gone
    <2>2. d.project \in Projects
      BY <1>0, <1>4 DEF Caches
    <2>3. c.meta # None /\ c.project = Merge(d.project, s) /\ c.meta.v = s.v /\ c.meta.base = s.project
      BY <1>0, AdoptedMeta
    <2>4. c.project.field = d.project.field
      BY <2>2, <2>3, MergedFields
    <2> HIDE DEF c
    <2>5. SyncOf(c).v = s.v /\ SyncOf(c).base = s.project
      BY <2>3 DEF SyncOf
    <2>6. Behind(s.v, s.project, server) /\ s.project = r.project
      BY <1>0, NoneIsNoValue DEF OverAt, AnswerBehind, CopyBehind
    <2>7. Below(s.project, c.project)
      BY <1>0, <1>4, <2>4, <2>6 DEF OverAt, UnderWay, Below
    <2>8. CacheBehind(c, server)
      <3>1. Behind(s.v, c.project, server)
        BY <2>6, <2>7, BehindMore
      <3> QED
        BY <2>5, <2>6, <2>7, <3>1 DEF CacheBehind, Behind
    <2>9. push'[t] = Idle /\ resolve'[t] = Idle
      BY <1>0, <1>4 DEF OverAt, UnderWay
    <2> QED
      BY <1>1, <1>2, <2>1, <2>8, <2>9 DEF OverAt, UnderWay
  <1> QED
    BY <1>3, <1>4

(* A refusal leaves the cache where it was, or reconciles it. *)
LEMMA FailedOver ==
  ASSUME OverInv, OnlySaves, NEW t \in Tabs, NEW q \in Caches, NEW m \in Memories, Failed(t, q, m),
         push[t] # Idle, m.removed = mem[t].removed, m.forgotten = mem[t].forgotten,
         disk[Home[t]].project # None => q.project # None,
         CopyBehind(m.conflict, server), CacheBehind(q, server)
  PROVE  OverAt(t)'
  <1> DEFINE d == disk[Home[t]]
  <1>0. /\ disk \in [Browsers -> Caches] /\ mem \in [Tabs -> Memories] /\ Home[t] \in Browsers /\ d \in Caches
        /\ push \in [Tabs -> Requests] /\ mem[t] \in Memories /\ OverAt(t) /\ ProjectTypes
        /\ d.project # None => ~Gone(t)
        /\ push[t] # Idle /\ ~Gone(t) => resolve[t] = Idle
    BY OverHere, TypesOpened
  <1>1. push'[t] = Idle /\ UNCHANGED <<server, resolve>>
    BY <1>0 DEF Failed
  <1>2. Gone(t)' <=> Gone(t)
    BY <1>0, FailedInRegime
  <1>3. CopyBehind(mem'[t].conflict, server)
    <2>1. mem'[t].conflict \in {mem[t].conflict, m.conflict, None}
      BY <1>0, FailedCopies
    <2> QED
      BY <1>0, <2>1, NothingBehind DEF OverAt
  <1>4. CacheBehind(disk'[Home[t]], server)
    <2>1. CASE mem[t].removed
      <3>1. disk'[Home[t]].project = None /\ disk'[Home[t]].meta = None
        BY <1>0, <2>1 DEF Failed, Caches, Gone
      <3> QED
        BY <1>0, <3>1, BlankValues, VersionsAreNumbers DEF SyncOf, CacheBehind
    <2>2. CASE ~mem[t].removed
      BY <1>0, <2>2 DEF Failed
    <2> QED
      BY <2>1, <2>2
  <1> QED
    BY <1>0, <1>1, <1>2, <1>3, <1>4, NothingBehind DEF OverAt, UnderWay

(* A save begun, answered, refused or lost. *)
LEMMA SavesOver ==
  ASSUME OverInv, OnlySaves, NEW t \in Tabs, Saves(t), ProjectTypes'
  PROVE  OverAt(t)'
  <1> DEFINE d == disk[Home[t]]
             m == SyncOf(d)
  <1>0. /\ d \in Caches /\ mem[t] \in Memories /\ m \in Records /\ mem \in [Tabs -> Memories]
        /\ push \in [Tabs -> Requests] /\ ProjectTypes /\ OverAt(t)
    BY OverHere, TypesOpened
  <1> HIDE DEF m
  <1>1. CacheBehind(d, server) /\ CopyBehind(push[t].answer, server) /\ CopyBehind(mem[t].conflict, server)
    BY <1>0 DEF OverAt, AnswerBehind
  <1>2. CASE Online(t)
    <2>1. mem'[t].conflict = mem[t].conflict /\ (Gone(t)' <=> Gone(t))
      BY <1>0, <1>2 DEF Online, Memories, Gone
    <2> QED
      BY <1>2, <2>1, OverStill DEF Online, netVars, ServerMoves
  <1>3. CASE PushServed(t)
    <2>1. /\ Finished(mem[t]) \in Memories /\ Finished(mem[t]).removed = mem[t].removed
          /\ Finished(mem[t]).forgotten = mem[t].forgotten /\ Finished(mem[t]).conflict = mem[t].conflict
      BY <1>0, FinishedMemory
    <2>2. push[t].answer \in Copies /\ push[t].stage = "served" /\ push[t] # Idle
      BY <1>0, <1>3, SentIsNotIdle DEF PushServed, ProjectTypes, Shapes, Answered
    <2>3. Adopt(t, push[t].answer, push[t].rev, Finished(mem[t]))
      BY <1>3 DEF PushServed
    <2>4. push'[t] = Idle /\ resolve' = resolve /\ server' = server
      BY <1>0, <1>3 DEF PushServed
    <2> QED
      BY <2>1, <2>2, <2>3, <2>4, AdoptOver
  <1>4. /\ \A x \in BOOLEAN : /\ [mem[t] EXCEPT !.timer = x] \in Memories
                              /\ [mem[t] EXCEPT !.timer = x].removed = mem[t].removed
                              /\ [mem[t] EXCEPT !.timer = x].forgotten = mem[t].forgotten
                              /\ [mem[t] EXCEPT !.timer = x].conflict = mem[t].conflict
        /\ \A s \in Copies : /\ [mem[t] EXCEPT !.conflict = s] \in Memories
                             /\ [mem[t] EXCEPT !.conflict = s].removed = mem[t].removed
                             /\ [mem[t] EXCEPT !.conflict = s].forgotten = mem[t].forgotten
                             /\ [mem[t] EXCEPT !.conflict = s].conflict = s
    BY <1>0 DEF Memories
  <1>5. ASSUME NEW q, q.project = d.project, SyncOf(q).v = m.v, SyncOf(q).base = m.base
        PROVE  CacheBehind(q, server)
    BY <1>1, <1>5 DEF CacheBehind, m
  <1>6. CASE PushStale(t)
    <2> DEFINE s == push[t].answer
    <2>1. s \in Copies /\ push[t] # Idle
      BY <1>0, <1>6, SentIsNotIdle DEF PushStale, ProjectTypes, Shapes, Answered
    <2>2. CASE Reconcilable(d, s)
      <3> DEFINE n == [mem[t] EXCEPT !.timer = Mine(d) # {}]
                 q == Reconciled(d, s)
      <3>1. Failed(t, q, n)
        BY <1>6, <2>2 DEF PushStale
      <3>2. q \in Caches /\ q.project # None
        <4>1. q \in Caches /\ q.project \in Projects
          BY <1>0, <2>1, <2>2, ReconciledIsCache, ReconciledMeta
        <4> QED
          BY <4>1, NoneIsNoValue
      <3>3. /\ n \in Memories /\ n.removed = mem[t].removed /\ n.forgotten = mem[t].forgotten
            /\ n.conflict = mem[t].conflict
        BY <1>4
      <3>4. Below(s.project, q.project)
        <4>1. Below(SyncOf(d).base, d.project)
          BY <1>1, <2>2 DEF CacheBehind, Reconcilable
        <4> QED
          BY <1>0, <2>1, <2>2, <4>1, ReconciledAbove
      <3>5. q.meta # None /\ q.meta.v = s.v /\ q.meta.base = s.project
        BY <1>0, <2>1, <2>2, ReconciledMeta
      <3>6. Behind(s.v, s.project, server)
        BY <1>1, <2>1, NoneIsNoValue DEF CopyBehind
      <3> HIDE DEF n, q
      <3>7. SyncOf(q).v = s.v /\ SyncOf(q).base = s.project
        BY <3>5 DEF SyncOf
      <3>8. CacheBehind(q, server)
        <4>1. Behind(s.v, q.project, server)
          BY <3>4, <3>6, BehindMore
        <4> QED
          BY <3>4, <3>6, <3>7, <4>1 DEF CacheBehind, Behind
      <3> QED
        BY <1>1, <2>1, <3>1, <3>2, <3>3, <3>8, FailedOver
    <2>3. CASE ~Reconcilable(d, s)
      <3> DEFINE q == [d EXCEPT !.meta = [m EXCEPT !.state = "conflict"]]
                 n == [mem[t] EXCEPT !.conflict = s]
      <3>1. Failed(t, q, n)
        BY <1>6, <2>3 DEF PushStale, m
      <3>2. q \in Caches /\ q.project = d.project /\ SyncOf(q).v = m.v /\ SyncOf(q).base = m.base
        BY <1>0, StateSetValues
      <3>3. n \in Memories /\ n.removed = mem[t].removed /\ n.forgotten = mem[t].forgotten /\ n.conflict = s
        BY <1>4, <2>1
      <3> HIDE DEF q, n
      <3> QED
        BY <1>1, <1>5, <2>1, <3>1, <3>2, <3>3, FailedOver
    <2> QED
      BY <2>2, <2>3
  <1>7. CASE PushMissing(t)
    <2> DEFINE q1 == [d EXCEPT !.meta = None]
               q2 == [d EXCEPT !.meta = [m EXCEPT !.state = "local", !.gone = TRUE]]
               q3 == [d EXCEPT !.meta = [m EXCEPT !.v = 0, !.state = "saving"]]
               n1 == Dropped(mem[t], d)
               n3 == [mem[t] EXCEPT !.timer = TRUE]
    <2>1. q1 \in Caches /\ q1.project = d.project /\ q1.meta = None
      BY <1>0, MetaIsCache DEF Caches
    <2>2. /\ q2 \in Caches /\ q2.project = d.project /\ SyncOf(q2).v = m.v /\ SyncOf(q2).base = m.base
          /\ q3 \in Caches /\ q3.project = d.project /\ SyncOf(q3).v = 0 /\ SyncOf(q3).base = m.base
      BY <1>0, StateSetValues
    <2>3. /\ n1 \in Memories /\ n1.removed = mem[t].removed /\ n1.forgotten = mem[t].forgotten
          /\ n1.conflict \in {mem[t].conflict, None}
          /\ n3 \in Memories /\ n3.removed = mem[t].removed /\ n3.forgotten = mem[t].forgotten
          /\ n3.conflict = mem[t].conflict
      BY <1>0, <1>4, DroppedMemory
    <2>4. \/ d.project = None /\ Failed(t, q1, n1)
          \/ Failed(t, q2, mem[t]) \/ Failed(t, q3, n3)
      BY <1>7 DEF PushMissing, m
    <2>5. push[t] # Idle
      BY <1>7, SentIsNotIdle DEF PushMissing
    <2>6. /\ d.project = None => CacheBehind(q1, server)
          /\ CacheBehind(q2, server) /\ CacheBehind(q3, server)
      <3>1. d.project = None => CacheBehind(q1, server)
        BY <1>0, <2>1, BlankValues, VersionsAreNumbers DEF SyncOf, CacheBehind
      <3>2. server.v \in Int /\ server.v >= 0 /\ (server.project # None => server.v # 0)
        BY <1>0, VersionsAreNumbers DEF ProjectTypes, Shapes
      <3>3. CacheBehind(q3, server)
        BY <1>1, <2>2, <3>2 DEF CacheBehind, Behind, m
      <3> QED
        BY <1>5, <2>2, <3>1, <3>3
    <2> HIDE DEF q1, q2, q3, n1, n3
    <2>7. CASE d.project = None /\ Failed(t, q1, n1)
      BY <1>1, <2>1, <2>3, <2>5, <2>6, <2>7, NothingBehind, FailedOver
    <2>8. CASE Failed(t, q2, mem[t])
      BY <1>0, <1>1, <2>2, <2>5, <2>6, <2>8, FailedOver
    <2>9. CASE Failed(t, q3, n3)
      BY <1>1, <2>2, <2>3, <2>5, <2>6, <2>9, FailedOver
    <2> QED
      BY <2>4, <2>7, <2>8, <2>9
  <1>8. CASE PushRefused(t)
    <2> DEFINE q == [d EXCEPT !.meta = [m EXCEPT !.state = "local", !.gone = FALSE]]
    <2>1. q \in Caches /\ q.project = d.project /\ SyncOf(q).v = m.v /\ SyncOf(q).base = m.base
      BY <1>0, StateSetValues
    <2>2. Failed(t, q, mem[t]) /\ push[t] # Idle
      BY <1>8, SentIsNotIdle DEF PushRefused, m
    <2> HIDE DEF q
    <2> QED
      BY <1>0, <1>1, <1>5, <2>1, <2>2, FailedOver
  <1>9. CASE PushLost(t)
    <2> DEFINE q == [d EXCEPT !.meta = [m EXCEPT !.state = "offline"]]
               n == [mem[t] EXCEPT !.timer = TRUE]
    <2>1. q \in Caches /\ q.project = d.project /\ SyncOf(q).v = m.v /\ SyncOf(q).base = m.base
      BY <1>0, StateSetValues
    <2>2. /\ n \in Memories /\ n.removed = mem[t].removed /\ n.forgotten = mem[t].forgotten
          /\ n.conflict = mem[t].conflict
      BY <1>4
    <2>3. Failed(t, q, n) /\ push[t] # Idle
      BY <1>9 DEF PushLost, m
    <2> HIDE DEF q, n
    <2> QED
      BY <1>1, <1>5, <2>1, <2>2, <2>3, FailedOver
  <1> QED
    BY <1>2, <1>3, <1>6, <1>7, <1>8, <1>9, StartPushOver DEF Saves

(* A choice answered; nothing else is read where tabs only save. *)
LEMMA ReadsOver ==
  ASSUME OverInv, OnlySaves, NEW t \in Tabs, Reads(t), ProjectTypes'
  PROVE  OverAt(t)'
  <1> DEFINE d == disk[Home[t]]
  <1>0. /\ disk \in [Browsers -> Caches] /\ mem \in [Tabs -> Memories] /\ Home[t] \in Browsers
        /\ d \in Caches /\ mem[t] \in Memories /\ ProjectTypes /\ OverAt(t)
        /\ push \in [Tabs -> Requests] /\ resolve \in [Tabs -> Requests]
        /\ get[t] = Idle /\ list[t] = Idle /\ act[t] = Idle
    BY OverHere, TypesOpened
  <1>1. CASE KeepServed(t)
    <2> DEFINE n == [mem[t] EXCEPT !.conflict = None]
    <2>1. /\ n \in Memories /\ n.removed = mem[t].removed /\ n.forgotten = mem[t].forgotten
          /\ n.conflict = None
      BY <1>0 DEF Memories
    <2>2. /\ resolve[t].answer \in Copies /\ Adopt(t, resolve[t].answer, resolve[t].rev, n)
          /\ resolve[t].stage = "served" /\ resolve[t] # Idle
      BY <1>0, <1>1, SentIsNotIdle DEF KeepServed, ProjectTypes, Shapes, Answered
    <2>3. resolve'[t] = Idle /\ push' = push /\ server' = server
      BY <1>0, <1>1 DEF KeepServed
    <2> HIDE DEF n
    <2> QED
      BY <2>1, <2>2, <2>3, AdoptOver
  <1>2. CASE KeepLost(t)
    <2>1. resolve'[t] = Idle /\ UNCHANGED <<server, disk, mem, push>>
      BY <1>0, <1>2 DEF KeepLost, diskVars
    <2>2. Gone(t)' <=> Gone(t)
      BY <2>1 DEF Gone
    <2> QED
      BY <1>0, <2>1, <2>2, NothingBehind DEF OverAt, UnderWay
  <1>3. CASE RemovalLost(t)
    BY <1>3, OverStill DEF RemovalLost, diskVars, ServerMoves, Gone
  <1>4. CASE ForgetAccount(t)
    <2>1. CASE d.project # None /\ d.owned
      <3>1. disk'[Home[t]] = Forgotten(d) /\ UNCHANGED <<server, push, resolve>>
        BY <1>0, <1>4, <2>1 DEF ForgetAccount, netVars
      <3>2. CacheBehind(disk'[Home[t]], server)
        BY <1>0, <3>1, BlankValues, VersionsAreNumbers DEF Forgotten, SyncOf, CacheBehind
      <3>3. Gone(t)' /\ mem'[t].conflict \in {mem[t].conflict, None}
        <4>1. Dropped(mem[t], d) \in Memories /\ Dropped(mem[t], d).conflict \in {mem[t].conflict, None}
          BY <1>0, DroppedMemory
        <4>2. mem'[t] = [Dropped(mem[t], d) EXCEPT !.forgotten = TRUE, !.timer = FALSE, !.again = FALSE]
          BY <1>0, <1>4, <2>1 DEF ForgetAccount
        <4> QED
          BY <4>1, <4>2 DEF Gone, Memories
      <3> QED
        BY <1>0, <3>1, <3>2, <3>3, NothingBehind DEF OverAt
    <2>2. CASE ~(d.project # None /\ d.owned)
      BY <1>4, <2>2, OverStill DEF ForgetAccount, diskVars, netVars, ServerMoves, Gone
    <2> QED
      BY <2>1, <2>2
  <1>5. ~(GetServed(t) \/ GetMissing(t) \/ GetLost(t) \/ ListServed(t) \/ ListMissing(t) \/ ListForgets(t) \/ ActServed(t))
    BY <1>0, IdleStage DEF GetServed, GetMissing, GetLost, ListServed, ListMissing, ListForgets, ActServed
  <1> QED
    BY <1>1, <1>2, <1>3, <1>4, <1>5 DEF Reads

(* The server's steps: what it accepts is later, what it answers is what it has. *)
LEMMA ServedMoves ==
  ASSUME OverInv, OnlySaves, NEW t \in Tabs, Serves(t)
  PROVE  ServerMoves /\ ~ServeAct(t)
  <1>1. ProjectTypes /\ act[t] = Idle
    BY OverHere
  <1>2. server.v \in Int /\ server \in [v : 0..MaxDataVersion, project : Projects \cup {None}]
    BY <1>1, VersionsAreNumbers DEF ProjectTypes, TypeOK
  <1>3. ASSUME NEW p, Accept(p) PROVE ServerMoves
    BY <1>2, <1>3 DEF Accept, ServerMoves
  <1>4. Refuse => ServerMoves
    BY DEF Refuse, ServerMoves
  <1>5. ASSUME ServePush(t) PROVE ServerMoves
    BY <1>3, <1>4, <1>5 DEF ServePush
  <1>6. ASSUME ServeKeep(t) PROVE ServerMoves
    BY <1>3, <1>4, <1>6 DEF ServeKeep
  <1>7. ASSUME ServeGet(t) \/ ServeList(t) PROVE ServerMoves
    BY <1>7 DEF ServeGet, ServeList, ServerMoves
  <1>8. ASSUME ServeRemoval(t) PROVE ServerMoves
    BY <1>2, <1>8 DEF ServeRemoval, ServerMoves
  <1>9. ~ServeAct(t)
    BY <1>1, IdleStage DEF ServeAct
  <1> QED
    BY <1>5, <1>6, <1>7, <1>8, <1>9 DEF Serves, ServeAct

(* What the server answers is its own copy, or what was sent. *)
LEMMA ServesOver ==
  ASSUME OverInv, OnlySaves, NEW t \in Tabs, Serves(t), ProjectTypes'
  PROVE  OverAt(t)'
  <1>0. /\ push \in [Tabs -> Requests] /\ resolve \in [Tabs -> Requests] /\ ProjectTypes /\ OverAt(t)
        /\ ServerMoves /\ ~ServeAct(t)
    BY OverHere, TypesOpened, ServedMoves
  <1>1. /\ \A r \in {push[t], resolve[t]} : AnswerBehind(r, server')
        /\ CopyBehind(mem[t].conflict, server')
        /\ push[t] # Idle => Behind(push[t].v, push[t].project, server')
        /\ CacheBehind(disk[Home[t]], server')
    BY <1>0, OverOn DEF OverAt
  <1>2. CopyBehind(server', server')
    <2>1. server'.v \in Int
      BY Bounds DEF ProjectTypes, TypeOK
    <2> QED
      BY <2>1 DEF CopyBehind, Behind, Below
  <1>3. CASE ServeGet(t) \/ ServeList(t) \/ ServeRemoval(t)
    BY <1>0, <1>3, OverStill DEF ServeGet, ServeList, ServeRemoval, diskVars, Gone
  <1>4. CASE ServePush(t)
    <2>1. UNCHANGED <<disk, mem, resolve>> /\ (Gone(t)' <=> Gone(t)) /\ push[t] # Idle
      BY <1>4, SentIsNotIdle DEF ServePush, Gone
    <2>2. push'[t].v = push[t].v /\ push'[t].project = push[t].project
      BY <1>0, <1>4 DEF ServePush, Requests
    <2>3. AnswerBehind(push'[t], server')
      <3>1. CASE /\ push' = [push EXCEPT ![t].stage = "served", ![t].answer = server']
                 /\ Accept(push[t].project)
        <4>1. push'[t].answer = server' /\ server'.project = push[t].project
          BY <1>0, <3>1 DEF Requests, Accept
        <4> QED
          BY <1>2, <2>2, <4>1 DEF AnswerBehind
      <3>2. CASE push' = [push EXCEPT ![t].stage = "stale", ![t].answer = server']
        <4>1. push'[t].answer = server' /\ push'[t].stage = "stale"
          BY <1>0, <3>2 DEF Requests
        <4> QED
          BY <1>2, <4>1 DEF AnswerBehind
      <3>3. CASE \E x \in {"missing", "refused"} : push' = [push EXCEPT ![t].stage = x]
        <4>1. push'[t].answer = push[t].answer /\ push'[t].stage \in {"missing", "refused"}
          BY <1>0, <3>3 DEF Requests
        <4> QED
          BY <1>1, <4>1 DEF AnswerBehind
      <3> QED
        BY <1>4, <3>1, <3>2, <3>3 DEF ServePush
    <2>4. UnderWay(push[t], resolve[t], disk[Home[t]]) => UnderWay(push'[t], resolve[t], disk[Home[t]])
      BY <2>1, <2>2 DEF UnderWay
    <2> QED
      BY <1>0, <1>1, <2>1, <2>2, <2>3, <2>4 DEF OverAt
  <1>5. CASE ServeKeep(t)
    <2>1. UNCHANGED <<disk, mem, push>> /\ (Gone(t)' <=> Gone(t)) /\ resolve[t] # Idle
      BY <1>5, SentIsNotIdle DEF ServeKeep, diskVars, Gone
    <2>2. resolve'[t] = Idle \/ resolve'[t].project = resolve[t].project
      BY <1>0, <1>5 DEF ServeKeep, Requests
    <2>3. AnswerBehind(resolve'[t], server')
      <3>1. CASE /\ resolve' = [resolve EXCEPT ![t].stage = "served", ![t].answer = server']
                 /\ Accept(resolve[t].project)
        <4>1. resolve'[t].answer = server' /\ server'.project = resolve[t].project
              /\ resolve'[t].project = resolve[t].project
          BY <1>0, <3>1 DEF Requests, Accept
        <4> QED
          BY <1>2, <4>1 DEF AnswerBehind
      <3>2. CASE resolve' = [resolve EXCEPT ![t] = Idle]
        BY <1>0, <3>2, NothingBehind
      <3> QED
        BY <1>5, <3>1, <3>2 DEF ServeKeep
    <2>4. UnderWay(push[t], resolve[t], disk[Home[t]]) => UnderWay(push[t], resolve'[t], disk[Home[t]])
      BY <2>1, <2>2 DEF UnderWay
    <2> QED
      BY <1>0, <1>1, <2>1, <2>3, <2>4 DEF OverAt
  <1> QED
    BY <1>0, <1>3, <1>4, <1>5 DEF Serves

(* Nothing overwritten is inductive. *)
LEMMA OverInit == Init => OverInv
  <1> SUFFICES ASSUME Init PROVE OverInv
    OBVIOUS
  <1>1. LossInv /\ ProjectTypes
    BY LossInit, ProjectTypesInit
  <1>2. ASSUME NEW t \in Tabs PROVE OverAt(t)
    <2> DEFINE first == [Blank EXCEPT !.v = 1, !.state = "saved", !.base = NewProject]
    <2>0. Home[t] \in Browsers
      BY Bounds
    <2>1. push[t] = Idle /\ resolve[t] = Idle /\ mem[t].conflict = None
      BY DEF Init, Fresh
    <2>2. first.v = 1 /\ first.base = NewProject
      BY DEF Blank
    <2>3. first # None
      <3>1. 1 \in 0..MaxDataVersion
        BY Bounds
      <3>2. \A x \in SyncStates : [Blank EXCEPT !.v = 1, !.state = x, !.base = NewProject] \in Records
        BY <3>1, FirstValues DEF Records
      <3> QED
        BY <3>2, StatesKnown, NoneIsNoValue
    <2> HIDE DEF first
    <2>4. \/ server.v = 0 /\ disk[Home[t]].project = None /\ disk[Home[t]].meta = None
          \/ /\ server.v = 1 /\ server.project = NewProject
             /\ disk[Home[t]].project = NewProject /\ disk[Home[t]].meta = first
      BY <2>0 DEF Init, first
    <2>5. CacheBehind(disk[Home[t]], server)
      BY <2>2, <2>3, <2>4, BlankValues DEF CacheBehind, SyncOf, Behind, Below
    <2> QED
      BY <2>1, <2>5, NothingBehind DEF OverAt, UnderWay
  <1> QED
    BY <1>1, <1>2 DEF OverInv

LEMMA OnlySavesIsSafe == OnlySaves => LossRegime
  BY DEF OnlySaves, LossRegime, NothingRead

LEMMA OverNext == OnlySaves /\ OverInv /\ [Next]_syncVars => OverInv'
  <1> SUFFICES ASSUME OnlySaves, OverInv, [Next]_syncVars PROVE OverInv'
    OBVIOUS
  <1>1. LossInv' /\ ProjectTypes' /\ ProjectTypes
    BY OnlySavesIsSafe, LossNext DEF OverInv, LossInv
  <1>2. ASSUME CloseAccount \/ ServerForgets \/ UNCHANGED syncVars PROVE \A t \in Tabs : OverAt(t)'
    <2>1. ServerMoves /\ UNCHANGED <<disk, mem, push, resolve>>
      BY <1>1, <1>2 DEF CloseAccount, ServerForgets, syncVars, diskVars, netVars, ServerMoves, ProjectTypes, TypeOK
    <2> QED
      BY <1>1, <2>1, OverStill DEF Gone
  <1>3. ASSUME NEW t \in Tabs, PersonActs(t) \/ Saves(t) \/ Reads(t) \/ Serves(t) PROVE \A u \in Tabs : OverAt(u)'
    <2>1. Touches(t)
      BY <1>1, <1>3, PersonTouches, SavesTouch, ReadsTouch, ServesTouch
    <2>2. OverAt(t)'
      BY <1>1, <1>3, PersonOver, SavesOver, ReadsOver, ServesOver
    <2>3. ServerMoves
      <3>1. PersonActs(t) => server' = server
        BY DEF PersonActs, Create, Remove, RetryLocal, Edit, AddVersion, Withdraw, Reload, Keep, AskAct, Refresh, List, Load
      <3>2. Saves(t) => server' = server
        BY DEF Saves, TimerFires, PushNow, Online, PushServed, PushStale, PushMissing, PushRefused, PushLost, Failed
      <3>3. Reads(t) => server' = server
        BY DEF Reads, GetServed, GetMissing, GetLost, ListServed, ListMissing, ListForgets, KeepServed, KeepLost,
               ActServed, RemovalLost, ForgetAccount
      <3> QED
        BY <1>3, <3>1, <3>2, <3>3, ServedMoves DEF ServerMoves
    <2> QED
      BY <1>1, <2>1, <2>2, <2>3, OverCarried
  <1> QED
    BY <1>1, <1>2, <1>3 DEF Next, OverInv

\* While tabs only save, one in each browser, a write on the server drops no edit of
\* a field unless a person kept their copy on purpose: a save that passes the
\* compare-and-set carries everything the server has under that version.
THEOREM WritesDropNothing ==
  ASSUME OnlySaves
  PROVE  Spec => NoSilentOverwrite
  <1> DEFINE Kind == (server.project # None /\ server'.project # None /\ ~\E t \in Tabs : ServeKeep(t)) =>
                        \A f \in Fields : server.project.field[f] \subseteq server'.project.field[f]
  <1>1. OverInv /\ [Next]_syncVars => [Kind]_syncVars
    <2> SUFFICES ASSUME OverInv, Next, server.project # None, server'.project # None,
                        ~\E t \in Tabs : ServeKeep(t), NEW f \in Fields
                 PROVE  server.project.field[f] \subseteq server'.project.field[f]
      OBVIOUS
    <2>1. CASE server' = server
      BY <2>1
    <2>2. ASSUME NEW t \in Tabs, ServePush(t) PROVE server.project.field[f] \subseteq server'.project.field[f]
      <3>1. OverAt(t) /\ push[t] # Idle
        BY <2>2, OverHere, SentIsNotIdle DEF ServePush
      <3>2. CASE push[t].v = server.v /\ server'.project = push[t].project
        BY <3>1, <3>2 DEF OverAt, Behind, Below
      <3>3. server' = server \/ (push[t].v = server.v /\ server'.project = push[t].project)
        BY <2>2 DEF ServePush, Accept, Refuse
      <3> QED
        BY <2>1, <3>2, <3>3
    <2>3. ASSUME NEW t \in Tabs, PersonActs(t) \/ Saves(t) \/ Reads(t) PROVE server' = server
      <3>1. PersonActs(t) => server' = server
        BY DEF PersonActs, Create, Remove, RetryLocal, Edit, AddVersion, Withdraw, Reload, Keep, AskAct, Refresh, List, Load
      <3>2. Saves(t) => server' = server
        BY DEF Saves, TimerFires, PushNow, Online, PushServed, PushStale, PushMissing, PushRefused, PushLost, Failed
      <3>3. Reads(t) => server' = server
        BY DEF Reads, GetServed, GetMissing, GetLost, ListServed, ListMissing, ListForgets, KeepServed, KeepLost,
               ActServed, RemovalLost, ForgetAccount
      <3> QED
        BY <2>3, <3>1, <3>2, <3>3
    <2>4. ASSUME NEW t \in Tabs, Serves(t), ~ServePush(t), ~ServeKeep(t) PROVE server' = server
      <3>1. ~ServeAct(t)
        BY <2>4, ServedMoves
      <3>2. ~ServeRemoval(t)
        BY DEF ServeRemoval, OverInv, LossInv, ProjectTypes, TypeOK
      <3> QED
        BY <2>4, <3>1, <3>2 DEF Serves, ServeGet, ServeList
    <2>5. ~CloseAccount /\ ~ServerForgets
      BY DEF CloseAccount, ServerForgets, OverInv, LossInv, ProjectTypes, TypeOK
    <2> QED
      BY <2>1, <2>2, <2>3, <2>4, <2>5 DEF Next
  <1> QED
    BY <1>1, OverInit, OverNext, PTL DEF Spec, NoSilentOverwrite

\* Where tabs only save, the project a tab forgot with its account does not come back
\* to its browser: a save answered after the deletion is not adopted.
THEOREM ForgottenIsNotBroughtBack ==
  ASSUME OnlySaves
  PROVE  Spec => ForgottenStaysForgotten
  <1> DEFINE Kind == \A t \in Tabs : (mem[t].forgotten /\ disk[Home[t]].project = None /\ server.project = None)
                        => disk'[Home[t]].project = None
  <1>1. OverInv /\ [Next]_syncVars => [Kind]_syncVars
    <2> SUFFICES ASSUME OverInv, Next, NEW t \in Tabs, mem[t].forgotten, disk[Home[t]].project = None
                 PROVE  disk'[Home[t]].project = None
      OBVIOUS
    <2> DEFINE d == disk[Home[t]]
    <2>0. /\ disk \in [Browsers -> Caches] /\ mem \in [Tabs -> Memories] /\ Home[t] \in Browsers
          /\ d \in Caches /\ ProjectTypes /\ get[t] = Idle /\ list[t] = Idle /\ act[t] = Idle
      BY OverHere, TypesOpened
    <2>1. ASSUME NEW u \in Tabs, u # t, PersonActs(u) \/ Saves(u) \/ Reads(u) \/ Serves(u) PROVE disk'[Home[t]] = d
      <3>1. Touches(u)
        BY <2>0, <2>1, PersonTouches, SavesTouch, ReadsTouch, ServesTouch
      <3>2. Home[u] # Home[t]
        BY <2>1 DEF OnlySaves, OneTabEach
      <3> QED
        BY <2>0, <3>1, <3>2 DEF Touches
    <2>2. CASE PersonActs(t)
      <3>1. ~Create(t)
        BY <2>0 DEF Create, Fresh
      <3>2. ASSUME NEW f \in Fields, Edit(t, f) PROVE FALSE
        BY <3>2 DEF Edit
      <3>3. ASSUME NEW x \in Versions, AddVersion(t, x) \/ Withdraw(t, x) PROVE FALSE
        <4>1. ~AddVersion(t, x)
          BY DEF AddVersion
        <4> QED
          BY <3>3, <4>1 DEF Withdraw
      <3>4. Load(t) => disk' = disk
        BY DEF Load
      <3> QED
        BY <2>2, <3>1, <3>2, <3>3, <3>4
           DEF PersonActs, Remove, RetryLocal, Reload, Keep, AskAct, Refresh, List, diskVars
    <2>3. CASE Saves(t)
      <3>1. CASE TimerFires(t) \/ PushNow(t)
        BY <2>0, <3>1, StartPushQuietly
      <3>2. CASE PushServed(t)
        <4>1. Finished(mem[t]).forgotten
          BY <2>0, FinishedMemory, TypesOpened
        <4> QED
          BY <3>2, <4>1 DEF PushServed, Adopt
      <3>3. ASSUME NEW q, NEW m, Failed(t, q, m), q.project = d.project PROVE disk'[Home[t]].project = None
        BY <2>0, <3>3 DEF Failed, Caches
      <3>4. \A x : [d EXCEPT !.meta = x].project = d.project
        BY <2>0 DEF Caches
      <3>5. CASE PushStale(t)
        BY <3>3, <3>4, <3>5 DEF PushStale, Reconcilable
      <3>6. CASE PushMissing(t)
        BY <3>3, <3>4, <3>6 DEF PushMissing
      <3>7. CASE PushRefused(t)
        BY <3>3, <3>4, <3>7 DEF PushRefused
      <3>8. CASE PushLost(t)
        BY <3>3, <3>4, <3>8 DEF PushLost
      <3> QED
        BY <2>3, <3>1, <3>2, <3>5, <3>6, <3>7, <3>8 DEF Saves, Online
    <2>4. CASE Reads(t)
      <3>1. CASE KeepServed(t)
        <4>1. [mem[t] EXCEPT !.conflict = None].forgotten
          BY <2>0 DEF Memories
        <4> QED
          BY <3>1, <4>1 DEF KeepServed, Adopt
      <3>2. ~(GetServed(t) \/ GetMissing(t) \/ ListForgets(t) \/ ActServed(t))
        BY <2>0, IdleStage DEF GetServed, GetMissing, ListForgets, ActServed
      <3> QED
        BY <2>4, <3>1, <3>2
           DEF Reads, GetLost, ListServed, ListMissing, KeepLost, RemovalLost, ForgetAccount, diskVars
    <2>5. CASE Serves(t)
      BY <2>5 DEF Serves, ServePush, ServeGet, ServeList, ServeKeep, ServeAct, ServeRemoval, diskVars
    <2>6. CASE CloseAccount \/ ServerForgets
      BY <2>6 DEF CloseAccount, ServerForgets, diskVars
    <2> QED
      BY <2>1, <2>2, <2>3, <2>4, <2>5, <2>6 DEF Next
  <1> QED
    BY <1>1, OverInit, OverNext, PTL DEF Spec, ForgottenStaysForgotten
=============================================================================
