---------------------------- MODULE ImportQueue ----------------------------
(***************************************************************************)
(* The import of feeds: services/db/feedImporter.js in the API's process,  *)
(* services/db/importChild.js in the child it forks, and the entry guard   *)
(* of editSession.migrateWithParsedData, their only caller.                *)
(*                                                                         *)
(* A request asks for the import of its session's feed.  One import runs   *)
(* at a time, the others wait in line.  The child builds the session's     *)
(* gtfs.db; the folder holds the marker _importing meanwhile, so that a    *)
(* partial database is told from a whole one across a crash.               *)
(*                                                                         *)
(* The API is one event loop: an action is what runs between two turns of  *)
(* it.  A promise resolved in a turn continues before the next turn, which *)
(* Settled states: no event is handled while a granted import has not yet  *)
(* forked its child.                                                       *)
(***************************************************************************)
EXTENDS Integers, SequencesExt

CONSTANTS Requests,   \* the requests that may be in flight together
          Sessions,
          SessionOf,  \* the session of each request
          QueueMax,   \* imports admitted at once, the running one included
          None

ASSUME ImportQueueAssumption ==
  /\ SessionOf \in [Requests -> Sessions]
  /\ QueueMax \in Nat \ {0}
  /\ None \notin Requests

VARIABLES
  running,       \* feedImporter's `running`
  shuttingDown,  \* feedImporter's `shuttingDown`
  waiting,       \* feedImporter's `waiting`, the oldest first
  current,       \* the request of feedImporter's `current`, or None
  child,         \* how far current's child is
  pc,            \* where each request is
  marker,        \* per session, whether its folder holds _importing
  db             \* per session, its gtfs.db

importVars == <<running, shuttingDown, waiting, current, child, pc, marker, db>>

Answers == {"imported", "failed", "busy"}

TypeOK ==
  /\ running \in BOOLEAN
  /\ shuttingDown \in BOOLEAN
  /\ waiting \in Seq(Requests) /\ Len(waiting) < QueueMax
  /\ current \in Requests \cup {None}
  /\ child \in {"none", "started", "building", "imported", "refused", "dead"}
  /\ pc \in [Requests -> {"idle", "waiting", "granted", "importing"} \cup Answers]
  /\ marker \in [Sessions -> BOOLEAN]
  /\ db \in [Sessions -> {"none", "partial", "whole"}]

Init ==
  /\ running = FALSE
  /\ shuttingDown = FALSE
  /\ waiting = <<>>
  /\ current = None
  /\ child = "none"
  /\ pc = [r \in Requests |-> "idle"]
  /\ marker = [s \in Sessions |-> FALSE]
  /\ db = [s \in Sessions |-> "none"]

-----------------------------------------------------------------------------
(* The state predicates the code reads. *)

\* Every continuation of the current turn has run: the next event may come.
Settled == \A r \in Requests : pc[r] # "granted"

\* The session's gtfs.db is there and no import of it is unanswered.
HasEditDbOnDisk(s) == db[s] # "none" /\ ~marker[s]

\* Whether this process runs or queues the import of a session.
IsImporting(s) ==
  \/ current # None /\ SessionOf[current] = s
  \/ \E i \in DOMAIN waiting : SessionOf[waiting[i]] = s

-----------------------------------------------------------------------------
(* The API's process. *)

\* Mutation: `running` goes down although the slot is handed over.
ReleaseAndFree(r, answer) ==
  /\ running' = FALSE
  /\ waiting' = IF waiting = <<>> THEN <<>> ELSE Tail(waiting)
  /\ pc' = IF waiting = <<>>
             THEN [pc EXCEPT ![r] = answer]
             ELSE [pc EXCEPT ![r] = answer, ![Head(waiting)] = "granted"]

\* Mutation: a freed slot wakes nobody.
ReleaseWakesNobody(r, answer) ==
  /\ running' = FALSE
  /\ pc' = [pc EXCEPT ![r] = answer]
  /\ UNCHANGED waiting

\* The turn's continuation of a released slot: the head of the line takes it
\* over without `running` going down, or the slot is free.
Release(r, answer) ==
  IF waiting = <<>>
    THEN /\ running' = FALSE
         /\ waiting' = <<>>
         /\ pc' = [pc EXCEPT ![r] = answer]
    ELSE /\ running' = running
         /\ waiting' = Tail(waiting)
         /\ pc' = [pc EXCEPT ![r] = answer, ![Head(waiting)] = "granted"]

\* Mutation: the running import is left out of the count.
AskCountsTheLineOnly(r) ==
  /\ Settled
  /\ pc[r] = "idle"
  /\ ~HasEditDbOnDisk(SessionOf[r])
  /\ \/ /\ ~shuttingDown /\ ~running
        /\ running' = TRUE
        /\ pc' = [pc EXCEPT ![r] = "granted"]
        /\ UNCHANGED waiting
     \/ /\ ~shuttingDown /\ running /\ Len(waiting) < QueueMax
        /\ waiting' = Append(waiting, r)
        /\ pc' = [pc EXCEPT ![r] = "waiting"]
        /\ UNCHANGED running
  /\ UNCHANGED <<shuttingDown, current, child, marker, db>>

\* migrateWithParsedData finds no database, then importFeed's acquire grants,
\* queues or refuses at once.
Ask(r) ==
  /\ Settled
  /\ pc[r] = "idle"
  /\ ~HasEditDbOnDisk(SessionOf[r])
  /\ \/ /\ shuttingDown
        /\ pc' = [pc EXCEPT ![r] = "busy"]
        /\ UNCHANGED <<running, waiting>>
     \/ /\ ~shuttingDown /\ ~running
        /\ running' = TRUE
        /\ pc' = [pc EXCEPT ![r] = "granted"]
        /\ UNCHANGED waiting
     \/ /\ ~shuttingDown /\ running /\ 1 + Len(waiting) >= QueueMax
        /\ pc' = [pc EXCEPT ![r] = "busy"]
        /\ UNCHANGED <<running, waiting>>
     \/ /\ ~shuttingDown /\ running /\ 1 + Len(waiting) < QueueMax
        /\ waiting' = Append(waiting, r)
        /\ pc' = [pc EXCEPT ![r] = "waiting"]
        /\ UNCHANGED running
  /\ UNCHANGED <<shuttingDown, current, child, marker, db>>

\* The granted import writes its marker, then forks its child.
Fork(r) ==
  /\ pc[r] = "granted"
  /\ marker' = [marker EXCEPT ![SessionOf[r]] = TRUE]
  /\ current' = r
  /\ child' = "started"
  /\ pc' = [pc EXCEPT ![r] = "importing"]
  /\ UNCHANGED <<running, shuttingDown, waiting, db>>

\* The session's folder went while the request was in line: writing the marker
\* throws, and the `finally` gives the slot back.
MarkerFails(r) ==
  /\ pc[r] = "granted"
  /\ Release(r, "failed")
  /\ UNCHANGED <<shuttingDown, current, child, marker, db>>

\* A request's timer in line (QUEUE_WAIT_MS): it leaves from where it stands.
QueueTimeout(i) ==
  /\ Settled
  /\ i \in DOMAIN waiting
  /\ waiting' = RemoveAt(waiting, i)
  /\ pc' = [pc EXCEPT ![waiting[i]] = "busy"]
  /\ UNCHANGED <<running, shuttingDown, current, child, marker, db>>

\* Mutation: the database of an import without its answer stays.
CloseKeepsDatabase ==
  /\ Settled
  /\ child \in {"imported", "refused", "dead"}
  /\ current' = None
  /\ child' = "none"
  /\ marker' = [marker EXCEPT ![SessionOf[current]] = FALSE]
  /\ Release(current, IF child = "imported" THEN "imported" ELSE "failed")
  /\ UNCHANGED <<shuttingDown, db>>

\* The child's "close": the database of an import without its answer goes,
\* then the marker, then the slot.
Close ==
  /\ Settled
  /\ child \in {"imported", "refused", "dead"}
  /\ current' = None
  /\ child' = "none"
  /\ marker' = [marker EXCEPT ![SessionOf[current]] = FALSE]
  /\ IF child = "imported"
       THEN UNCHANGED db
       ELSE db' = [db EXCEPT ![SessionOf[current]] = "none"]
  /\ Release(current, CASE child = "imported" -> "imported"
                        [] child = "dead" /\ shuttingDown -> "busy"
                        [] OTHER -> "failed")
  /\ UNCHANGED shuttingDown

\* Mutation: the shutdown kills the child and leaves the line as it is.
StopAllKeepsLine ==
  /\ Settled
  /\ ~shuttingDown
  /\ shuttingDown' = TRUE
  /\ child' = IF child \in {"started", "building"} THEN "dead" ELSE child
  /\ UNCHANGED <<running, waiting, current, pc, marker, db>>

\* SIGTERM: the line refused, the running child killed, nothing admitted any
\* more.  An answer the child has already sent still counts.
StopAll ==
  /\ Settled
  /\ ~shuttingDown
  /\ shuttingDown' = TRUE
  /\ waiting' = <<>>
  /\ pc' = [r \in Requests |-> IF pc[r] = "waiting" THEN "busy" ELSE pc[r]]
  /\ child' = IF child \in {"started", "building"} THEN "dead" ELSE child
  /\ UNCHANGED <<running, current, marker, db>>

\* The process ends, drained or not, and starts again: its memory is lost, the
\* folders stay.  The child loses its channel and exits; it may have created,
\* finished or dropped its database by then.
Restart ==
  /\ running' = FALSE
  /\ shuttingDown' = FALSE
  /\ waiting' = <<>>
  /\ current' = None
  /\ child' = "none"
  /\ pc' = [r \in Requests |-> "idle"]
  /\ UNCHANGED marker
  /\ IF child \in {"started", "building"}
       THEN \/ UNCHANGED db
            \/ \E fate \in {"none", "partial", "whole"} :
                 /\ child = "building" \/ db[SessionOf[current]] = "none"
                 /\ db' = [db EXCEPT ![SessionOf[current]] = fate]
       ELSE UNCHANGED db

-----------------------------------------------------------------------------
(* The child. *)

\* A missing file, a feed past the cap, or a database already there.
ChildRefuses ==
  /\ child = "started"
  /\ child' = "refused"
  /\ UNCHANGED <<running, shuttingDown, waiting, current, pc, marker, db>>

ChildCreates ==
  /\ child = "started"
  /\ db[SessionOf[current]] = "none"
  /\ db' = [db EXCEPT ![SessionOf[current]] = "partial"]
  /\ child' = "building"
  /\ UNCHANGED <<running, shuttingDown, waiting, current, pc, marker>>

ChildLoads ==
  /\ child = "building"
  /\ db' = [db EXCEPT ![SessionOf[current]] = "whole"]
  /\ child' = "imported"
  /\ UNCHANGED <<running, shuttingDown, waiting, current, pc, marker>>

\* The rows were refused: the child drops what it had created.
ChildDrops ==
  /\ child = "building"
  /\ db' = [db EXCEPT ![SessionOf[current]] = "none"]
  /\ child' = "refused"
  /\ UNCHANGED <<running, shuttingDown, waiting, current, pc, marker>>

\* Out of memory, or killed at IMPORT_TIMEOUT_MS: no answer.
ChildStops ==
  /\ child \in {"started", "building"}
  /\ child' = "dead"
  /\ UNCHANGED <<running, shuttingDown, waiting, current, pc, marker, db>>

-----------------------------------------------------------------------------
(* The requests. *)

\* An answered request ends; its client may ask again.
Forget(r) ==
  /\ Settled
  /\ pc[r] \in Answers
  /\ pc' = [pc EXCEPT ![r] = "idle"]
  /\ UNCHANGED <<running, shuttingDown, waiting, current, child, marker, db>>

\* An upload replaces the session's folder; no request of the session is in
\* flight (WorkingCopy has the overlaps).
NewFeed(s) ==
  /\ Settled
  /\ \A r \in Requests : SessionOf[r] = s => pc[r] = "idle"
  /\ db' = [db EXCEPT ![s] = "none"]
  /\ marker' = [marker EXCEPT ![s] = FALSE]
  /\ UNCHANGED <<running, shuttingDown, waiting, current, child, pc>>

Child == ChildRefuses \/ ChildCreates \/ ChildLoads \/ ChildDrops \/ ChildStops

Next ==
  \/ \E r \in Requests : Ask(r) \/ Fork(r) \/ MarkerFails(r) \/ Forget(r)
  \/ \E i \in DOMAIN waiting : QueueTimeout(i)
  \/ \E s \in Sessions : NewFeed(s)
  \/ Close \/ StopAll \/ Restart
  \/ Child

Spec == Init /\ [][Next]_importVars

\* The child ends by itself or at its time limit, its "close" is delivered, and
\* a promise's continuation runs.  Nothing makes a client ask, the timers in
\* line fire, or the process stop.
Fairness ==
  /\ WF_importVars(ChildStops)
  /\ WF_importVars(Close)
  /\ \A r \in Requests : WF_importVars(Fork(r) \/ MarkerFails(r))

FairSpec == Spec /\ Fairness

-----------------------------------------------------------------------------
(* What makes it correct. *)

\* The requests the slot belongs to.
Holders == {r \in Requests : pc[r] \in {"granted", "importing"}}

\* The slot is taken exactly while one request holds it, and nobody is in line
\* for a slot that is free: `running` survives every hand-over, refusal,
\* failure and shutdown without leaking the slot or lending it twice.
SlotNeverLeaks ==
  /\ running <=> Holders # {}
  /\ \A r1, r2 \in Holders : r1 = r2
  /\ waiting # <<>> => running

\* A database that is not whole always has its marker beside it, whatever
\* stopped the child or the process: hasEditDbOnDisk never takes it for a
\* working copy.
PartialIsMarked == \A s \in Sessions : db[s] = "partial" => marker[s]

\* Once SIGTERM is handled nothing imports or waits and nothing will: the
\* child "would outlive the process and write a database nobody waits for".
ShutdownStopsImports ==
  shuttingDown =>
    /\ waiting = <<>>
    /\ child \notin {"started", "building"}
    /\ \A r \in Requests : pc[r] \notin {"granted", "waiting"}

\* A request answered "imported" has its session's database on disk for as long
\* as nobody replaces the feed.
ImportedHoldsDatabase ==
  \A r \in Requests : pc[r] = "imported" => HasEditDbOnDisk(SessionOf[r])

\* The line holds each waiting request once, and no other.
LineIsExact ==
  /\ \A i, j \in DOMAIN waiting : waiting[i] = waiting[j] => i = j
  /\ \A i \in DOMAIN waiting : pc[waiting[i]] = "waiting"
  /\ \A r \in Requests : pc[r] = "waiting" => \E i \in DOMAIN waiting : waiting[i] = r

\* `current` is the request whose child runs; its session's folder has the
\* marker, a database under construction is partial, an answered one whole.
CurrentIsImporting ==
  /\ current # None <=> child # "none"
  /\ \A r \in Requests : pc[r] = "importing" <=> current = r
  /\ current # None => marker[SessionOf[current]]
  /\ child = "building" => db[SessionOf[current]] = "partial"
  /\ child = "imported" => db[SessionOf[current]] = "whole"

\* Every step keeps these together.
InductiveInv ==
  /\ TypeOK
  /\ SlotNeverLeaks
  /\ LineIsExact
  /\ CurrentIsImporting
  /\ PartialIsMarked
  /\ ShutdownStopsImports

\* The queue is a first-come-first-served gate of one slot.
Gate == INSTANCE SlotGate WITH
          Tasks <- Requests, Slots <- 1, LineMax <- QueueMax - 1,
          holders <- Holders, line <- waiting

ImplementsGate == Gate!Spec

\* Whoever is in line gets the slot, is refused, or is lost with the process:
\* an import before it that hangs or dies gives the slot back.
NobodyWaitsForEver == \A r \in Requests : pc[r] = "waiting" ~> pc[r] # "waiting"
=============================================================================
