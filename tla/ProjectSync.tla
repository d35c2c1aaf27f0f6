----------------------------- MODULE ProjectSync -----------------------------
(***************************************************************************)
(* The web client's projects (GTFS-EXPRESS-WEB/src/utils/projectStore.js): *)
(* one project, edited in the tabs of several browsers, cached in each     *)
(* browser's localStorage and kept on the server by a compare-and-set on   *)
(* its data_version.                                                       *)
(*                                                                         *)
(* A tab is one event loop: an action is what runs between two awaits.     *)
(* The tabs of a browser share its storage (disk) and nothing else: the    *)
(* timers, the maps and the sets of the module (mem) and its requests in   *)
(* flight belong to the tab.                                               *)
(*                                                                         *)
(* The value of a field is the set of the edits it reflects: an edit is    *)
(* made from the value on screen.  The versions of a project are a set,    *)
(* because the code merges them one by one; the journal, which is a union  *)
(* everywhere, and the zips of the versions are left out.  The server is   *)
(* not in the repository: what the client expects of it is modelled.       *)
(***************************************************************************)
EXTENDS Integers, FiniteSets, Functions

CONSTANTS
  Browsers, Tabs,
  Home,            \* the browser of each tab
  Fields,          \* the writable fields, the versions apart
  Versions,        \* the versions that may be added to the project
  Account,         \* whether the project is an account's, or this browser's token's
  Events,          \* what happens around the code in this instance
  MaxEdits,        \* bound: the edits of all the browsers together
  MaxDataVersion,  \* bound: the writes the server accepts
  MaxRev,          \* bound: a browser's revisions
  MaxAsked,        \* bound: a tab's requests under way, saves and removals apart
  None

Happenings ==
  {"create", "versions", "loss", "quota", "load", "refresh", "list", "remove",
   "keep", "act", "close", "purge"}

ASSUME ProjectSyncAssumption ==
  /\ Home \in [Tabs -> Browsers]
  /\ Account \in BOOLEAN
  /\ Events \subseteq Happenings
  /\ MaxEdits \in Nat /\ MaxAsked \in Nat
  /\ MaxDataVersion \in Nat \ {0} /\ MaxRev \in Nat \ {0}

VARIABLES
  server,    \* the server's copy and its data_version
  disk,      \* per browser: the cached project, whether it names its account, the sync record
  mem,       \* per tab: timers, again, conflicts, removed, forgotten
  push,      \* per tab: the save that runs
  get,       \* per tab: the read of the project that runs
  resolve,   \* per tab: the resolution of a conflict that runs; no project: a reload
  list,      \* per tab: the list of the server's projects being read
  del,       \* per tab: whether a removal is on its way to the server
  act,       \* per tab: an act of the server's on the project that runs
  closed,    \* whether the account was deleted, and the tab that asked told
  edits,     \* per browser: how many edits were made
  reached,   \* history: the edits the server has ever kept
  discarded, \* history: the edits a person gave up
  fate       \* history: what became of each version

diskVars == <<disk, mem>>
netVars  == <<push, get, resolve, list, del, act>>
auxVars  == <<edits, reached, discarded, fate>>
syncVars == <<server, disk, mem, push, get, resolve, list, del, act, closed,
              edits, reached, discarded, fate>>

-----------------------------------------------------------------------------
(* Values. *)

Edits    == Browsers \X (1..MaxEdits)
Projects == [field : [Fields -> SUBSET Edits], versions : SUBSET Versions]
NewProject == [field |-> [f \in Fields |-> {}], versions |-> {}]

\* What an answer of the server carries: the project and its data_version.
Copies == [v : 1..MaxDataVersion, project : Projects]

SyncStates == {"none", "saved", "saving", "offline", "conflict", "local"}

\* A sync record; v = 0 is the code's null, gone a refusal kept from a 404.
Records == [v : 0..MaxDataVersion, dirty : BOOLEAN, rev : 0..MaxRev, state : SyncStates,
            base : Projects \cup {None}, gone : BOOLEAN]

Caches   == [project : Projects \cup {None}, owned : BOOLEAN, meta : Records \cup {None}]
Memories == [timer : BOOLEAN, again : BOOLEAN, conflict : Copies \cup {None},
             removed : BOOLEAN, forgotten : BOOLEAN]

\* A request: what it was sent with, and its answer.
Stages   == {"none", "sent", "served", "stale", "missing", "refused", "rows"}
Requests == [stage : Stages, v : 0..MaxDataVersion, dirty : BOOLEAN, rev : 0..MaxRev,
             project : Projects \cup {None}, answer : Copies \cup {None}]

Blank == [v |-> 0, dirty |-> FALSE, rev |-> 0, state |-> "none", base |-> None, gone |-> FALSE]

Idle == [stage |-> "none", v |-> 0, dirty |-> FALSE, rev |-> 0, project |-> None, answer |-> None]

Fresh == [timer |-> FALSE, again |-> FALSE, conflict |-> None, removed |-> FALSE, forgotten |-> FALSE]

ASSUME NoneIsNoValue == None \notin Projects \cup Records \cup Copies

\* The record setSync writes its patch over.
SyncOf(d) == IF d.meta = None THEN Blank ELSE d.meta

EditsIn(p) == UNION {p.field[f] : f \in Fields}

TypeOK ==
  /\ server \in [v : 0..MaxDataVersion, project : Projects \cup {None}]
  /\ disk \in [Browsers -> Caches]
  /\ mem \in [Tabs -> Memories]
  /\ \A requests \in {push, get, resolve, list, act} : requests \in [Tabs -> Requests]
  /\ del \in [Tabs -> BOOLEAN]
  /\ closed \in {"no", "served", "told"}
  /\ edits \in [Browsers -> 0..MaxEdits]
  /\ reached \subseteq Edits /\ discarded \subseteq Edits
  /\ fate \in [Versions -> {"new", "added", "withdrawn"}]

\* Either nothing was created yet, or the project is saved and open everywhere.
Init ==
  /\ \/ /\ server = [v |-> 0, project |-> None]
        /\ disk = [b \in Browsers |-> [project |-> None, owned |-> FALSE, meta |-> None]]
        /\ "create" \in Events
     \/ /\ server = [v |-> 1, project |-> NewProject]
        /\ disk = [b \in Browsers |->
             [project |-> NewProject, owned |-> Account,
              meta |-> [Blank EXCEPT !.v = 1, !.state = "saved", !.base = NewProject]]]
  /\ mem = [t \in Tabs |-> Fresh]
  /\ push = [t \in Tabs |-> Idle] /\ get = [t \in Tabs |-> Idle]
  /\ resolve = [t \in Tabs |-> Idle] /\ list = [t \in Tabs |-> Idle]
  /\ act = [t \in Tabs |-> Idle]
  /\ del = [t \in Tabs |-> FALSE]
  /\ closed = "no"
  /\ edits = [b \in Browsers |-> 0]
  /\ reached = {} /\ discarded = {}
  /\ fate = [x \in Versions |-> "new"]

-----------------------------------------------------------------------------
(* The pure parts. *)

\* mergeServerFields: the copy here keeps its fields and takes the server's versions.
Merge(p, s) ==
  IF p = None THEN s.project ELSE [p EXCEPT !.versions = @ \cup s.project.versions]

\* The fields whose hash is not the base's, "versions" among them.
Changed(p, base) ==
  {f \in Fields : p.field[f] # base.field[f]}
    \cup (IF p.versions # base.versions THEN {"versions"} ELSE {})

\* Mutation: what changed on both sides is not compared.
ReconcilableWhateverChanged(d, s) == d.project # None /\ SyncOf(d).base # None

\* reconcile's condition: a base, and no field changed on both sides.
Reconcilable(d, s) ==
  /\ d.project # None
  /\ SyncOf(d).base # None
  /\ Changed(d.project, d.meta.base) \cap Changed(s.project, d.meta.base) = {}

Mine(d) == Changed(d.project, d.meta.base)

\* The server's copy with the fields changed here, then its versions merged in.
Rebased(d, s) ==
  Merge([field    |-> [f \in Fields |-> IF f \in Mine(d) THEN d.project.field[f] ELSE s.project.field[f]],
         versions |-> IF "versions" \in Mine(d) THEN d.project.versions ELSE s.project.versions], s)

\* The record of a copy both sides agree on.
Agreed(meta, s) ==
  [meta EXCEPT !.v = s.v, !.base = s.project, !.dirty = FALSE, !.state = "saved"]

\* reconcile: nothing changed here, or what changed here on top of the server's.
Reconciled(d, s) ==
  IF Mine(d) = {}
    THEN [project |-> s.project, owned |-> Account,
          meta |-> [Agreed(d.meta, s) EXCEPT !.gone = FALSE]]
    ELSE [project |-> Rebased(d, s), owned |-> Account,
          meta |-> [d.meta EXCEPT !.v = s.v, !.base = s.project, !.dirty = TRUE,
                                  !.state = "saving", !.gone = FALSE]]

\* markDirty: a new revision; a conflict and a refusal stay what they are.
Dirtied(meta) ==
  [meta EXCEPT !.dirty = TRUE, !.rev = @ + 1,
               !.state = IF @ \in {"conflict", "local"} THEN @ ELSE "saving"]

Schedules(meta) == meta.state \notin {"conflict", "local"}

\* forgetLocal: neither the project nor its record.
Forgotten(d) == [project |-> None, owned |-> FALSE, meta |-> None]

\* dropSync's part of the tab's memory.
Dropped(m, d) == IF d.meta = None THEN m ELSE [m EXCEPT !.conflict = None]

\* push's `finally`: what asked to save meanwhile is scheduled.
Finished(m) == [m EXCEPT !.timer = @ \/ m.again, !.again = FALSE]

\* Signed in, a project the server never said is the account's is not forgotten.
KeptForAttach(d) == Account /\ ~d.owned

-----------------------------------------------------------------------------
(* The person's acts on the project. *)

\* updateProject: written to the storage, then dirty.
Written(t, p) ==
  LET d == disk[Home[t]] IN
    /\ SyncOf(d).rev < MaxRev
    /\ disk' = [disk EXCEPT ![Home[t]].project = p, ![Home[t]].meta = Dirtied(SyncOf(d))]
    /\ mem' = [mem EXCEPT ![t].timer = @ \/ Schedules(SyncOf(d))]

Create(t) ==
  /\ "create" \in Events
  /\ server.v = 0
  /\ \A b \in Browsers : disk[b].project = None /\ edits[b] = 0
  /\ \A u \in Tabs : push[u] = Idle /\ mem[u] = Fresh
  /\ disk' = [disk EXCEPT ![Home[t]].project = NewProject, ![Home[t]].meta = Dirtied(Blank)]
  /\ mem' = [mem EXCEPT ![t].timer = TRUE, ![t].removed = FALSE]
  /\ UNCHANGED <<server, netVars, closed, auxVars>>

Edit(t, f) ==
  LET b == Home[t]
      p == disk[b].project
  IN /\ p # None
     /\ edits[b] < MaxEdits /\ FoldFunction(+, 0, edits) < MaxEdits
     /\ Written(t, [p EXCEPT !.field[f] = @ \cup {<<b, edits[b] + 1>>}])
     /\ edits' = [edits EXCEPT ![b] = @ + 1]
     /\ UNCHANGED <<server, netVars, closed, reached, discarded, fate>>

\* withVersion: the change applied becomes a version.
AddVersion(t, x) ==
  LET p == disk[Home[t]].project IN
    /\ "versions" \in Events
    /\ p # None
    /\ fate[x] = "new"
    /\ Written(t, [p EXCEPT !.versions = @ \cup {x}])
    /\ fate' = [fate EXCEPT ![x] = "added"]
    /\ UNCHANGED <<server, netVars, closed, edits, reached, discarded>>

\* withoutAppliedVersion: the version is withdrawn.
Withdraw(t, x) ==
  LET p == disk[Home[t]].project IN
    /\ p # None
    /\ x \in p.versions
    /\ Written(t, [p EXCEPT !.versions = @ \ {x}])
    /\ fate' = [fate EXCEPT ![x] = "withdrawn"]
    /\ UNCHANGED <<server, netVars, closed, edits, reached, discarded>>

\* removeProject: removed here at once, on the server when it was ever there.
Remove(t) ==
  LET d == disk[Home[t]] IN
    /\ "remove" \in Events
    /\ d.project # None
    /\ disk' = [disk EXCEPT ![Home[t]] = Forgotten(d)]
    /\ mem' = [mem EXCEPT ![t] = [Dropped(@, d) EXCEPT !.removed = TRUE]]
    /\ del' = [del EXCEPT ![t] = @ \/ SyncOf(d).v # 0]
    /\ discarded' = discarded \cup EditsIn(d.project)
    /\ UNCHANGED <<server, push, get, resolve, list, act, closed, edits, reached, fate>>

\* retryLocal: what the server refused is offered again.
Offered(meta) ==
  [meta EXCEPT !.state = "saving", !.gone = FALSE, !.dirty = TRUE, !.rev = @ + 1]

RetryLocal(t) ==
  LET d == disk[Home[t]] IN
    /\ d.project # None /\ SyncOf(d).state = "local"
    /\ d.meta.rev < MaxRev
    /\ disk' = [disk EXCEPT ![Home[t]].meta = Offered(@)]
    /\ mem' = [mem EXCEPT ![t].timer = TRUE]
    /\ UNCHANGED <<server, netVars, closed, auxVars>>

-----------------------------------------------------------------------------
(* Saving. *)

\* push: one save at a time in a tab, of the project as it is now.
StartPush(t, m) ==
  LET d == disk[Home[t]] IN
    \/ /\ push[t] # Idle
       /\ mem' = [mem EXCEPT ![t] = [m EXCEPT !.again = TRUE]]
       /\ UNCHANGED <<disk, push>>
    \/ /\ push[t] = Idle
       /\ d.project = None \/ d.meta = None \/ ~Schedules(SyncOf(d))
       /\ mem' = [mem EXCEPT ![t] = Finished(m)]
       /\ UNCHANGED <<disk, push>>
    \/ /\ push[t] = Idle
       /\ d.project # None /\ d.meta # None /\ Schedules(SyncOf(d))
       /\ push' = [push EXCEPT ![t] = [Idle EXCEPT !.stage = "sent", !.v = d.meta.v,
                                         !.rev = d.meta.rev, !.project = d.project]]
       /\ disk' = [disk EXCEPT ![Home[t]].meta.state = "saving"]
       /\ mem' = [mem EXCEPT ![t] = m]

\* schedule's timer.
TimerFires(t) ==
  /\ mem[t].timer
  /\ StartPush(t, [mem[t] EXCEPT !.timer = FALSE])
  /\ UNCHANGED <<server, get, resolve, list, del, act, closed, auxVars>>

\* flushProject before an act, and whenOnServer's first save.
PushNow(t) ==
  /\ SyncOf(disk[Home[t]]).dirty
  /\ "act" \in Events
  /\ StartPush(t, [mem[t] EXCEPT !.timer = @ /\ SyncOf(disk[Home[t]]).v # 0])
  /\ UNCHANGED <<server, get, resolve, list, del, act, closed, auxVars>>

Accept(p) ==
  /\ server.v < MaxDataVersion
  /\ server' = [v |-> server.v + 1, project |-> p]
  /\ reached' = reached \cup EditsIn(p)

Refuse == UNCHANGED <<server, reached>>

\* The server answers a save: a project created, a compare-and-set that holds or
\* not, a project it does not keep, a quota.  A project that comes back after a
\* removal takes a data_version it never had.
ServePush(t) ==
  LET r == push[t]
      answers(stage) == push' = [push EXCEPT ![t].stage = stage, ![t].answer = server']
  IN /\ r.stage = "sent"
     /\ \/ /\ r.v = 0 /\ server.project = None /\ closed = "no"
           /\ Accept(r.project) /\ answers("served")
        \/ /\ r.v = 0 /\ ("quota" \in Events \/ closed # "no")
           /\ Refuse /\ push' = [push EXCEPT ![t].stage = "refused"]
        \/ /\ r.v # 0 /\ server.project = None
           /\ Refuse /\ push' = [push EXCEPT ![t].stage = "missing"]
        \/ /\ r.v # 0 /\ server.project # None /\ r.v = server.v
           /\ Accept(r.project) /\ answers("served")
        \/ /\ r.v # 0 /\ server.project # None /\ r.v # server.v
           /\ Refuse /\ answers("stale")
     /\ UNCHANGED <<disk, mem, get, resolve, list, del, act, closed, edits, discarded, fate>>

\* Mutation: clean whatever was written while the save ran.
AdoptedIsClean(d, s, rev) ==
  [project |-> Merge(d.project, s), owned |-> Account,
   meta |-> [Agreed(SyncOf(d), s) EXCEPT !.gone = FALSE]]

\* adopt: the server has what was sent; still dirty when written again meanwhile.
Adopted(d, s, rev) ==
  LET clean == SyncOf(d).rev = rev IN
    [project |-> Merge(d.project, s), owned |-> Account,
     meta |-> [Agreed(SyncOf(d), s) EXCEPT !.dirty = ~clean, !.gone = FALSE,
                                           !.state = IF clean THEN "saved" ELSE "saving"]]

\* Mutation: the projects of a deleted account are adopted like any other.
AdoptForgotten(t, s, rev, m) ==
  LET d == disk[Home[t]] IN
    \/ /\ m.removed
       /\ del' = [del EXCEPT ![t] = TRUE]
       /\ mem' = [mem EXCEPT ![t] = m]
       /\ UNCHANGED disk
    \/ /\ ~m.removed
       /\ disk' = [disk EXCEPT ![Home[t]] = Adopted(d, s, rev)]
       /\ mem' = [mem EXCEPT ![t] = [m EXCEPT !.timer = @ \/ SyncOf(d).rev # rev]]
       /\ UNCHANGED del

Adopt(t, s, rev, m) ==
  LET d == disk[Home[t]] IN
    \/ /\ m.forgotten
       /\ mem' = [mem EXCEPT ![t] = m]
       /\ UNCHANGED <<disk, del>>
    \/ /\ ~m.forgotten /\ m.removed
       /\ del' = [del EXCEPT ![t] = TRUE]
       /\ mem' = [mem EXCEPT ![t] = m]
       /\ UNCHANGED disk
    \/ /\ ~m.forgotten /\ ~m.removed
       /\ disk' = [disk EXCEPT ![Home[t]] = Adopted(d, s, rev)]
       /\ mem' = [mem EXCEPT ![t] = [m EXCEPT !.timer = @ \/ SyncOf(d).rev # rev]]
       /\ UNCHANGED del

PushServed(t) ==
  /\ push[t].stage = "served"
  /\ Adopt(t, push[t].answer, push[t].rev, Finished(mem[t]))
  /\ push' = [push EXCEPT ![t] = Idle]
  /\ UNCHANGED <<server, get, resolve, list, act, closed, auxVars>>

\* failed: a project removed meanwhile is dropped; otherwise each refusal has its way.
Failed(t, d, m) ==
  /\ push' = [push EXCEPT ![t] = Idle]
  /\ IF mem[t].removed
       THEN /\ disk' = [disk EXCEPT ![Home[t]].meta = None]
            /\ mem' = [mem EXCEPT ![t] = Finished(Dropped(mem[t], disk[Home[t]]))]
       ELSE /\ disk' = [disk EXCEPT ![Home[t]] = d]
            /\ mem' = [mem EXCEPT ![t] = Finished(m)]
  /\ UNCHANGED <<server, get, resolve, list, del, act, closed, auxVars>>

\* A conflict the fields settle, or one for the person.
PushStale(t) ==
  LET d == disk[Home[t]]
      s == push[t].answer
  IN /\ push[t].stage = "stale"
     /\ IF Reconcilable(d, s)
          THEN Failed(t, Reconciled(d, s), [mem[t] EXCEPT !.timer = Mine(d) # {}])
          ELSE Failed(t, [d EXCEPT !.meta = [SyncOf(d) EXCEPT !.state = "conflict"]],
                      [mem[t] EXCEPT !.conflict = s])

\* A project the server no longer keeps: an account's is kept here "not saved",
\* this browser's own is created again.
PushMissing(t) ==
  LET d == disk[Home[t]] IN
    /\ push[t].stage = "missing"
    /\ \/ /\ d.project = None
          /\ Failed(t, [d EXCEPT !.meta = None], Dropped(mem[t], d))
       \/ /\ d.project # None /\ d.owned
          /\ Failed(t, [d EXCEPT !.meta = [SyncOf(d) EXCEPT !.state = "local", !.gone = TRUE]], mem[t])
       \/ /\ d.project # None /\ ~d.owned
          /\ Failed(t, [d EXCEPT !.meta = [SyncOf(d) EXCEPT !.v = 0, !.state = "saving"]],
                    [mem[t] EXCEPT !.timer = TRUE])

PushRefused(t) ==
  LET d == disk[Home[t]] IN
    /\ push[t].stage = "refused"
    /\ Failed(t, [d EXCEPT !.meta = [SyncOf(d) EXCEPT !.state = "local", !.gone = FALSE]], mem[t])

\* Mutation: no retry is scheduled.
PushLostForGood(t) ==
  LET d == disk[Home[t]] IN
    /\ "loss" \in Events
    /\ push[t] # Idle
    /\ ~(push[t].v = 0 /\ push[t].stage = "served")
    /\ Failed(t, [d EXCEPT !.meta = [SyncOf(d) EXCEPT !.state = "offline"]], mem[t])

\* The network fails before or after the server saw the save; a create is lost
\* before only, what the server makes of a second one being unknown here.
PushLost(t) ==
  LET d == disk[Home[t]] IN
    /\ "loss" \in Events
    /\ push[t] # Idle
    /\ ~(push[t].v = 0 /\ push[t].stage = "served")
    /\ Failed(t, [d EXCEPT !.meta = [SyncOf(d) EXCEPT !.state = "offline"]],
              [mem[t] EXCEPT !.timer = TRUE])

\* flushDirty, when the browser is back online.
Online(t) ==
  LET meta == SyncOf(disk[Home[t]]) IN
    /\ "loss" \in Events
    /\ meta.dirty /\ Schedules(meta)
    /\ mem' = [mem EXCEPT ![t].timer = TRUE]
    /\ UNCHANGED <<server, disk, netVars, closed, auxVars>>

-----------------------------------------------------------------------------
(* Reading. *)

\* The requests a tab has under way.
Asked(t) == Cardinality({r \in {<<"get", get[t]>>, <<"resolve", resolve[t]>>,
                                <<"list", list[t]>>, <<"act", act[t]>>} : r[2] # Idle})

\* refreshProject: the record is read before the request and again after it.
Refresh(t) ==
  LET meta == SyncOf(disk[Home[t]]) IN
    /\ "refresh" \in Events
    /\ get[t] = Idle /\ Asked(t) < MaxAsked
    /\ get' = [get EXCEPT ![t] = [Idle EXCEPT !.stage = "sent", !.v = meta.v, !.dirty = meta.dirty]]
    /\ UNCHANGED <<server, diskVars, push, resolve, list, del, act, closed, auxVars>>

ServeGet(t) ==
  /\ get[t].stage = "sent"
  /\ get' = IF server.project = None
              THEN [get EXCEPT ![t].stage = "missing"]
              ELSE [get EXCEPT ![t].stage = "served", ![t].answer = server]
  /\ UNCHANGED <<server, diskVars, push, resolve, list, del, act, closed, auxVars>>

\* With nothing pending the server's copy is taken; else the two are merged by
\* field over another data_version, or the person is asked.
Refreshed(t, d, s, m) ==
  \/ /\ d.project = None \/ ~SyncOf(d).dirty
     /\ disk' = [disk EXCEPT ![Home[t]] =
          [project |-> s.project, owned |-> Account, meta |-> Agreed(SyncOf(d), s)]]
     /\ mem' = [mem EXCEPT ![t] = m]
  \/ /\ d.project # None /\ SyncOf(d).dirty
     /\ d.meta.v # 0 /\ s.v # d.meta.v
     /\ IF Reconcilable(d, s)
          THEN /\ disk' = [disk EXCEPT ![Home[t]] = Reconciled(d, s)]
               /\ mem' = [mem EXCEPT ![t] = [m EXCEPT !.timer = Mine(d) # {}]]
          ELSE /\ disk' = [disk EXCEPT ![Home[t]].meta.state = "conflict"]
               /\ mem' = [mem EXCEPT ![t] = [m EXCEPT !.conflict = s]]
  \/ /\ d.project # None /\ SyncOf(d).dirty
     /\ d.meta.v = 0 \/ s.v = d.meta.v
     /\ disk' = [disk EXCEPT ![Home[t]] =
          [project |-> Merge(d.project, s), owned |-> Account,
           meta |-> IF d.meta.state = "local" /\ d.meta.gone
                      THEN [d.meta EXCEPT !.state = "saving", !.gone = FALSE]
                      ELSE d.meta]]
     /\ mem' = [mem EXCEPT ![t] = [m EXCEPT !.timer = TRUE]]

GetServed(t) ==
  /\ get[t].stage = "served"
  /\ Refreshed(t, disk[Home[t]], get[t].answer, [mem[t] EXCEPT !.forgotten = FALSE])
  /\ get' = [get EXCEPT ![t] = Idle]
  /\ UNCHANGED <<server, push, resolve, list, del, act, closed, auxVars>>

\* A 404, judged by the record read before the request.
GetMissing(t) ==
  LET d == disk[Home[t]]
      r == get[t]
      forget == ~KeptForAttach(d) /\ r.v # 0 /\ ~r.dirty
      again  == ~KeptForAttach(d) /\ ~forget /\ d.project # None /\ (r.v # 0 \/ r.dirty)
  IN /\ r.stage = "missing"
     /\ disk' = IF forget THEN [disk EXCEPT ![Home[t]] = Forgotten(d)] ELSE disk
     /\ mem' = IF forget THEN [mem EXCEPT ![t] = Dropped(@, d)]
               ELSE [mem EXCEPT ![t].timer = @ \/ again]
     /\ get' = [get EXCEPT ![t] = Idle]
     /\ UNCHANGED <<server, push, resolve, list, del, act, closed, auxVars>>

GetLost(t) ==
  /\ "loss" \in Events
  /\ get[t] # Idle
  /\ get' = [get EXCEPT ![t] = Idle]
  /\ UNCHANGED <<server, diskVars, push, resolve, list, del, act, closed, auxVars>>

\* refreshProjects: the rows, then each project that is new or newer.
List(t) ==
  /\ "list" \in Events
  /\ list[t] = Idle /\ Asked(t) < MaxAsked
  /\ list' = [list EXCEPT ![t].stage = "sent"]
  /\ UNCHANGED <<server, diskVars, push, get, resolve, del, act, closed, auxVars>>

ServeList(t) ==
  /\ list[t].stage = "sent"
  /\ list' = IF server.project = None
               THEN [list EXCEPT ![t].stage = "missing"]
               ELSE [list EXCEPT ![t].stage = "served", ![t].v = server.v]
  /\ UNCHANGED <<server, diskVars, push, get, resolve, del, act, closed, auxVars>>

ListServed(t) ==
  LET d == disk[Home[t]]
      newer == d.project = None \/ (~SyncOf(d).dirty /\ SyncOf(d).v # list[t].v)
  IN /\ list[t].stage = "served"
     /\ IF newer
          THEN /\ get[t] = Idle
               /\ get' = [get EXCEPT ![t] = [Idle EXCEPT !.stage = "sent",
                            !.v = SyncOf(d).v, !.dirty = SyncOf(d).dirty]]
          ELSE UNCHANGED get
     /\ list' = [list EXCEPT ![t] = Idle]
     /\ UNCHANGED <<server, diskVars, push, resolve, del, act, closed, auxVars>>

\* Not listed: the cache is read now, the project forgotten once the other
\* projects' reads are awaited.
ListMissing(t) ==
  LET d == disk[Home[t]] IN
    /\ list[t].stage = "missing"
    /\ list' = [list EXCEPT ![t] =
         IF d.project # None /\ SyncOf(d).v # 0 /\ ~SyncOf(d).dirty
           THEN [Idle EXCEPT !.stage = "rows"] ELSE Idle]
    /\ UNCHANGED <<server, diskVars, push, get, resolve, del, act, closed, auxVars>>

ListForgets(t) ==
  LET d == disk[Home[t]] IN
    /\ list[t].stage = "rows"
    /\ list' = [list EXCEPT ![t] = Idle]
    /\ IF KeptForAttach(d)
         THEN UNCHANGED diskVars
         ELSE /\ disk' = [disk EXCEPT ![Home[t]] = Forgotten(d)]
              /\ mem' = [mem EXCEPT ![t] = Dropped(@, d)]
    /\ UNCHANGED <<server, push, get, resolve, del, act, closed, auxVars>>

-----------------------------------------------------------------------------
(* Conflicts, the server's own acts, the account, the page. *)

\* resolveConflict("reload") on the project's page, the server's copy being in the
\* tab's map.
Reload(t) ==
  LET d == disk[Home[t]]
      s == mem[t].conflict
  IN /\ d.project # None /\ SyncOf(d).state = "conflict"
     /\ resolve[t] = Idle
     /\ s # None
     /\ disk' = [disk EXCEPT ![Home[t]] =
          [project |-> s.project, owned |-> Account, meta |-> Agreed(SyncOf(d), s)]]
     /\ mem' = [mem EXCEPT ![t].conflict = None]
     /\ discarded' = discarded \cup (EditsIn(d.project) \ EditsIn(s.project))
     /\ UNCHANGED <<server, netVars, closed, edits, reached, fate>>

\* resolveConflict("keep"): this copy is sent over the server's, whatever its version.
Keep(t) ==
  LET d == disk[Home[t]] IN
    /\ "keep" \in Events
    /\ SyncOf(d).state = "conflict" /\ d.project # None
    /\ resolve[t] = Idle /\ Asked(t) < MaxAsked
    /\ resolve' = [resolve EXCEPT ![t] = [Idle EXCEPT !.stage = "sent", !.project = d.project, !.rev = d.meta.rev]]
    /\ UNCHANGED <<server, diskVars, push, get, list, del, act, closed, auxVars>>

ServeKeep(t) ==
  /\ resolve[t].stage = "sent"
  /\ \/ /\ server.project # None
        /\ Accept(resolve[t].project)
        /\ discarded' = discarded \cup (EditsIn(server.project) \ EditsIn(resolve[t].project))
        /\ resolve' = [resolve EXCEPT ![t].stage = "served", ![t].answer = server']
     \/ /\ server.project = None
        /\ Refuse
        /\ resolve' = [resolve EXCEPT ![t] = Idle]
        /\ UNCHANGED discarded
  /\ UNCHANGED <<diskVars, push, get, list, del, act, closed, edits, fate>>

KeepServed(t) ==
  /\ resolve[t].stage = "served"
  /\ Adopt(t, resolve[t].answer, resolve[t].rev, [mem[t] EXCEPT !.conflict = None])
  /\ resolve' = [resolve EXCEPT ![t] = Idle]
  /\ UNCHANGED <<server, push, get, list, act, closed, auxVars>>

KeepLost(t) ==
  /\ "loss" \in Events
  /\ resolve[t] # Idle
  /\ resolve' = [resolve EXCEPT ![t] = Idle]
  /\ UNCHANGED <<server, diskVars, push, get, list, del, act, closed, auxVars>>

\* An act of the server's on the project: a review, a member, a delivery.
AskAct(t) ==
  /\ "act" \in Events
  /\ disk[Home[t]].project # None /\ SyncOf(disk[Home[t]]).v # 0
  /\ act[t] = Idle /\ Asked(t) < MaxAsked
  /\ act' = [act EXCEPT ![t].stage = "sent"]
  /\ UNCHANGED <<server, diskVars, push, get, resolve, list, del, closed, auxVars>>

ServeAct(t) ==
  /\ act[t].stage = "sent"
  /\ \/ /\ server.project # None
        /\ Accept(server.project)
        /\ act' = [act EXCEPT ![t].stage = "served", ![t].answer = server']
     \/ /\ server.project = None
        /\ Refuse
        /\ act' = [act EXCEPT ![t] = Idle]
  /\ UNCHANGED <<diskVars, push, get, resolve, list, del, closed, edits, discarded, fate>>

\* adoptServerProject: with writes pending, they go over the new data_version.
ActServed(t) ==
  LET d == disk[Home[t]]
      s == act[t].answer
      pending == d.project # None /\ SyncOf(d).dirty
  IN /\ act[t].stage = "served"
     /\ disk' = [disk EXCEPT ![Home[t]] =
          [project |-> IF pending THEN Merge(d.project, s) ELSE s.project,
           owned   |-> Account,
           meta    |-> IF pending THEN [d.meta EXCEPT !.v = s.v, !.base = s.project]
                       ELSE Agreed(SyncOf(d), s)]]
     /\ mem' = [mem EXCEPT ![t].forgotten = FALSE, ![t].timer = @ \/ pending]
     /\ act' = [act EXCEPT ![t] = Idle]
     /\ UNCHANGED <<server, push, get, resolve, list, del, closed, auxVars>>

\* The removal reaches the server, or is lost: nobody asks again.
ServeRemoval(t) ==
  /\ del[t]
  /\ server' = [server EXCEPT !.project = None]
  /\ del' = [del EXCEPT ![t] = FALSE]
  /\ UNCHANGED <<diskVars, push, get, resolve, list, act, closed, auxVars>>

RemovalLost(t) ==
  /\ "loss" \in Events
  /\ del[t]
  /\ del' = [del EXCEPT ![t] = FALSE]
  /\ UNCHANGED <<server, diskVars, push, get, resolve, list, act, closed, auxVars>>

\* The server forgets the project, its retention over.
ServerForgets ==
  /\ "purge" \in Events
  /\ server.project # None
  /\ server' = [server EXCEPT !.project = None]
  /\ UNCHANGED <<diskVars, netVars, closed, auxVars>>

\* The server deletes the account and its projects.
CloseAccount ==
  /\ "close" \in Events /\ Account
  /\ closed = "no"
  /\ closed' = "served"
  /\ server' = [server EXCEPT !.project = None]
  /\ UNCHANGED <<diskVars, netVars, auxVars>>

\* forgetAccountProjects, in the tab that asked, once the deletion is answered.
ForgetAccount(t) ==
  LET d == disk[Home[t]] IN
    /\ closed = "served"
    /\ closed' = "told"
    /\ IF d.project # None /\ d.owned
         THEN /\ disk' = [disk EXCEPT ![Home[t]] = Forgotten(d)]
              /\ mem' = [mem EXCEPT ![t] = [Dropped(@, d) EXCEPT
                                              !.forgotten = TRUE, !.timer = FALSE, !.again = FALSE]]
              /\ discarded' = discarded \cup EditsIn(d.project)
         ELSE UNCHANGED <<diskVars, discarded>>
    /\ UNCHANGED <<server, netVars, edits, reached, fate>>

\* Mutation: a page that opens offers what was refused and leaves what is dirty.
LoadOffersOnly(t) ==
  LET meta == SyncOf(disk[Home[t]])
      offer == disk[Home[t]].project # None /\ meta.state = "local"
  IN /\ "load" \in Events
     /\ ~(push[t].v = 0 /\ push[t].stage = "served")
     /\ offer => meta.rev < MaxRev
     /\ disk' = IF offer THEN [disk EXCEPT ![Home[t]].meta = Offered(@)] ELSE disk
     /\ mem' = [mem EXCEPT ![t] = [Fresh EXCEPT !.timer = offer]]
     /\ push' = [push EXCEPT ![t] = Idle]
     /\ get' = [get EXCEPT ![t] = Idle]
     /\ resolve' = [resolve EXCEPT ![t] = Idle]
     /\ list' = [list EXCEPT ![t] = Idle]
     /\ act' = [act EXCEPT ![t] = Idle]
     /\ UNCHANGED <<server, del, closed, auxVars>>

\* The page is closed or reloaded, then opened: its memory and its answers are
\* lost, configureRemote offers what was refused and saves what is dirty.
Load(t) ==
  LET meta == SyncOf(disk[Home[t]])
      offer == disk[Home[t]].project # None /\ meta.state = "local"
  IN /\ "load" \in Events
     /\ ~(push[t].v = 0 /\ push[t].stage = "served")
     /\ offer => meta.rev < MaxRev
     /\ disk' = IF offer THEN [disk EXCEPT ![Home[t]].meta = Offered(@)] ELSE disk
     /\ mem' = [mem EXCEPT ![t] = [Fresh EXCEPT !.timer = offer \/ (meta.dirty /\ Schedules(meta))]]
     /\ push' = [push EXCEPT ![t] = Idle]
     /\ get' = [get EXCEPT ![t] = Idle]
     /\ resolve' = [resolve EXCEPT ![t] = Idle]
     /\ list' = [list EXCEPT ![t] = Idle]
     /\ act' = [act EXCEPT ![t] = Idle]
     /\ UNCHANGED <<server, del, closed, auxVars>>

-----------------------------------------------------------------------------

PersonActs(t) ==
  \/ Create(t) \/ Remove(t) \/ RetryLocal(t)
  \/ \E f \in Fields : Edit(t, f)
  \/ \E x \in Versions : AddVersion(t, x) \/ Withdraw(t, x)
  \/ Reload(t) \/ Keep(t) \/ AskAct(t)
  \/ Refresh(t) \/ List(t) \/ Load(t)

Saves(t) ==
  \/ TimerFires(t) \/ PushNow(t) \/ Online(t)
  \/ PushServed(t) \/ PushStale(t) \/ PushMissing(t) \/ PushRefused(t) \/ PushLost(t)

Reads(t) ==
  \/ GetServed(t) \/ GetMissing(t) \/ GetLost(t)
  \/ ListServed(t) \/ ListMissing(t) \/ ListForgets(t)
  \/ KeepServed(t) \/ KeepLost(t) \/ ActServed(t) \/ RemovalLost(t) \/ ForgetAccount(t)

Serves(t) ==
  \/ ServePush(t) \/ ServeGet(t) \/ ServeList(t) \/ ServeKeep(t) \/ ServeAct(t) \/ ServeRemoval(t)

Next == (\E t \in Tabs : PersonActs(t) \/ Saves(t) \/ Reads(t) \/ Serves(t)) \/ CloseAccount \/ ServerForgets

Spec == Init /\ [][Next]_syncVars

\* Timers fire, and a save that is tried again and again is one day answered;
\* nothing makes a person act, nor a page load.
Fairness ==
  \A t \in Tabs :
    /\ WF_syncVars(TimerFires(t))
    /\ SF_syncVars(ServePush(t))
    /\ SF_syncVars(PushServed(t) \/ PushStale(t) \/ PushMissing(t) \/ PushRefused(t))

FairSpec == Spec /\ Fairness

-----------------------------------------------------------------------------

\* The edits of browser b.
Made(b) == {<<b, i>> : i \in 1..edits[b]}

\* No edit is lost: it is on the server, or it was there once, or it waits in its
\* browser under a record that says so, or somebody chose to give it up.
NoEditIsLost ==
  \A b \in Browsers : \A e \in Made(b) :
    \/ e \in reached \cup discarded
    \/ /\ disk[b].project # None /\ e \in EditsIn(disk[b].project)
       /\ SyncOf(disk[b]).dirty

\* "Never a silent overwrite": a write on the server drops no edit of a field,
\* unless a person kept their copy on purpose.
NoSilentOverwrite ==
  [][ (server.project # None /\ server'.project # None /\ ~\E t \in Tabs : ServeKeep(t)) =>
        \A f \in Fields : server.project.field[f] \subseteq server'.project.field[f] ]_syncVars

\* A conflict put to the person shows a change somebody else made.
ConflictIsAnothers ==
  \A t \in Tabs : mem[t].conflict # None =>
    \E f \in Fields : \E e \in mem[t].conflict.project.field[f] : e[1] # Home[t]

\* The projects of an account deleted in a tab stay forgotten in its browser.
ForgottenStaysForgotten ==
  [][ \A t \in Tabs :
        (mem[t].forgotten /\ disk[Home[t]].project = None /\ server.project = None)
          => disk'[Home[t]].project = None ]_syncVars

\* A version withdrawn does not come back to the browser it was withdrawn in.
WithdrawnStaysWithdrawn ==
  \A b \in Browsers : disk[b].project # None =>
    \A x \in disk[b].project.versions : fate[x] # "withdrawn"

\* What waits to be saved has a timer or a save running in some tab of its
\* browser: no answer, refusal or merge leaves it to wait for the next edit, save
\* in a tab that removed the project and then read it back, whose mark stays.
DirtyIsScheduled ==
  \A b \in Browsers :
    (disk[b].project # None /\ SyncOf(disk[b]).dirty /\ Schedules(disk[b].meta))
      => \E t \in Tabs : Home[t] = b /\ (mem[t].timer \/ push[t] # Idle \/ mem[t].removed)

\* Every edit reaches the server, or ends with the person: a conflict to resolve,
\* a refusal to read, a choice made.  (The server of the model stops at its bound.)
EveryEditSettles ==
  \A b \in Browsers : \A i \in 1..MaxEdits :
    (edits[b] >= i) ~>
      \/ <<b, i>> \in reached \cup discarded
      \/ SyncOf(disk[b]).state \in {"conflict", "local"}
      \/ server.v = MaxDataVersion
=============================================================================
