---------------------------- MODULE WorkingCopy ----------------------------
(***************************************************************************)
(* One session's working copy: its folder (the feed's CSVs, gtfs.db, the   *)
(* marker _importing), the open database and the edit mode the process     *)
(* remembers of it, and everything that changes them: the upload, the edit *)
(* mode, the export, the reads, the heartbeat, the sweep and a crash.      *)
(* Every table of the API is keyed by session, so one session is enough;   *)
(* the import queue it shares with the others is ImportQueue.              *)
(*                                                                         *)
(* The API is one event loop: an action runs from one await on real I/O to *)
(* the next.  Whatever other requests and the sweep do, they do between    *)
(* two actions.                                                            *)
(***************************************************************************)
EXTENDS Integers, FiniteSets

CONSTANTS Uploads, Enters, Exports, Heartbeats,  \* the requests in flight at once
          Client,    \* when the session's client may send one (MaySend)
          MayIdle,   \* whether the folder may pass SESSION_CLEANUP_AGE_MS
          MaxCrashes,    \* how many times the process stops
          CutsRemovals,  \* whether it may stop in the middle of a removal
          None

Requests == Uploads \cup Enters \cup Exports \cup Heartbeats
Importers == Uploads \cup Enters

\* What a gtfs.db holds: one upload's feed (None: no feed, or a part or a mix of
\* several), whether its rows are all in, and _project_meta.edit_mode_active.
Contents == [feed : Uploads \cup {None}, whole : BOOLEAN, editing : BOOLEAN]

ASSUME WorkingCopyAssumption ==
  /\ None \notin Requests /\ None \notin Contents
  /\ Uploads \cap Enters = {} /\ Uploads \cap Exports = {} /\ Uploads \cap Heartbeats = {}
  /\ Enters \cap Exports = {} /\ Enters \cap Heartbeats = {} /\ Exports \cap Heartbeats = {}
  /\ Client \in {"alone", "serial", "any"}
  /\ MayIdle \in BOOLEAN
  /\ MaxCrashes \in Nat
  /\ CutsRemovals \in BOOLEAN

VARIABLES
  dir,        \* the session's folder exists
  csv,        \* per upload, how much of its feed the folder holds
  db,         \* gtfs.db, or None
  marker,     \* the folder holds _importing
  idle,       \* the folder's effective mtime is past the age limit
  handle,     \* connection.js `handles`: none, the file on disk, or one unlinked since
  ghost,      \* what an unlinked file still open holds
  editMode,   \* connection.js `editModeFlags`
  uploading,  \* sessionManager.js `uploadInProgress`
  pc,         \* where each request is
  child,      \* the session's import child
  sweep,      \* where cleanupOldSessions is with this folder
  crashes,    \* how many times the process has stopped
  acked,      \* the feed the client was answered with, and still counts on
  wanted      \* the client's last answered enter or exit was an enter

diskVars == <<dir, csv, db, marker, idle>>
openVars == <<handle, ghost>>
clientVars == <<acked, wanted>>
copyVars == <<diskVars, openVars, editMode, uploading, pc, child, sweep, crashes, clientVars>>

Empty == [feed |-> None, whole |-> TRUE, editing |-> FALSE]

FolderOK ==
  /\ dir \in BOOLEAN
  /\ csv \in [Uploads -> {"none", "part", "all"}]
  /\ marker \in BOOLEAN
  /\ idle \in BOOLEAN
  /\ ~dir => db = None /\ ~marker /\ \A u \in Uploads : csv[u] = "none"

FileOK ==
  /\ db \in Contents \cup {None}
  /\ ghost \in Contents \cup {None}
  /\ handle \in {"none", "file", "gone"}
  /\ handle = "file" => db # None
  /\ handle = "gone" <=> ghost # None

ProcessOK ==
  /\ editMode \in BOOLEAN
  /\ uploading \in BOOLEAN
  /\ pc \in [Requests -> {"idle", "clearing", "cleared", "unpacking", "validating",
                          "queued", "importing", "saving", "committed", "failing",
                          "cleaned", "working", "overdue", "touching"}]
  /\ child \in {"none", "started", "building", "detached"}
  /\ sweep \in {"rest", "looked", "purging", "collecting"}
  /\ crashes \in 0..MaxCrashes
  /\ acked \in Uploads \cup {None}
  /\ wanted \in BOOLEAN

TypeOK == FolderOK /\ FileOK /\ ProcessOK

Init ==
  /\ dir = FALSE
  /\ csv = [u \in Uploads |-> "none"]
  /\ db = None
  /\ marker = FALSE
  /\ idle = FALSE
  /\ handle = "none"
  /\ ghost = None
  /\ editMode = FALSE
  /\ uploading = FALSE
  /\ pc = [r \in Requests |-> "idle"]
  /\ child = "none"
  /\ sweep = "rest"
  /\ crashes = 0
  /\ acked = None
  /\ wanted = FALSE

-----------------------------------------------------------------------------
(* What the code reads. *)

\* Mutation: a database is a working copy whatever stands beside it.
OnDiskMarkedOrNot == db # None

HasEditDbOnDisk == db # None /\ ~marker

HasEditDb == handle # "none"

\* What a request that opens the working copy now is given.
Open == IF handle = "gone" THEN ghost ELSE db

\* feedImporter.isImporting: running or queued.
IsImporting == \E r \in Importers : pc[r] \in {"queued", "importing"}

\* Mutation: a token counts for as long as its handler has not released it.
AnyMutationActive == \E x \in Exports : pc[x] \in {"working", "overdue"}

\* An export's token, while it is younger than STALE_OP_MS.
SessionMutationActive == \E x \in Exports : pc[x] = "working"

\* The requests their client has no answer from yet are the others.
Answered == {"idle", "committed", "failing", "cleaned"}

\* When the client sends a request: with nothing of the session under way; once
\* its last request is answered; or at any time, from several tabs.
MaySend ==
  CASE Client = "alone" -> sweep \notin {"purging", "collecting"} /\ \A r \in Requests : pc[r] = "idle"
    [] Client = "serial" -> \A r \in Requests : pc[r] \in Answered
    [] Client = "any" -> TRUE

\* The feed an import of the folder's CSVs gives.
FeedOnDisk ==
  IF \E u \in Uploads : csv[u] = "all" /\ \A v \in Uploads \ {u} : csv[v] = "none"
    THEN CHOOSE u \in Uploads : csv[u] = "all"
    ELSE None

-----------------------------------------------------------------------------
(* What the actions are made of. *)

\* connection.closeEditDb with removeFile: false.
CloseHandle == handle' = "none" /\ ghost' = None

\* gtfs.db is unlinked: whoever has it open keeps the file without a name.
UnlinkDb ==
  /\ db' = None
  /\ handle' = IF handle = "file" THEN "gone" ELSE handle
  /\ ghost' = IF handle = "file" THEN db ELSE ghost
  /\ child' = IF child = "building" THEN "detached" ELSE child

\* closeEditDb with removeFile: true.
CloseAndUnlink ==
  /\ CloseHandle
  /\ editMode' = FALSE
  /\ db' = None
  /\ child' = IF child = "building" THEN "detached" ELSE child

\* fsp.rm unlinks the folder's entries in the thread pool, in any order...
RemoveEntry ==
  /\ dir
  /\ \/ /\ marker
        /\ marker' = FALSE
        /\ UNCHANGED <<csv, db, openVars, child>>
     \/ /\ db # None
        /\ UnlinkDb
        /\ UNCHANGED <<csv, marker>>
     \/ /\ \E u \in Uploads : csv[u] # "none"
        /\ csv' = [u \in Uploads |-> "none"]
        /\ UNCHANGED <<db, marker, openVars, child>>
  /\ UNCHANGED <<dir, idle, editMode, uploading, pc, sweep, clientVars, crashes>>

\* ...then the folder itself.
RemoveFolder ==
  /\ dir' = FALSE
  /\ csv' = [u \in Uploads |-> "none"]
  /\ marker' = FALSE
  /\ idle' = FALSE
  /\ UnlinkDb

-----------------------------------------------------------------------------
(* The upload (uploadGTFSFile). *)

\* Mutation: the handle stays open across the upload.
UploadKeepsHandle(u) ==
  /\ pc[u] = "idle"
  /\ MaySend
  /\ UNCHANGED openVars
  /\ uploading' = TRUE
  /\ pc' = [pc EXCEPT ![u] = "clearing"]
  /\ acked' = None
  /\ UNCHANGED <<diskVars, editMode, child, sweep, wanted, crashes>>

\* The database probed for its edits and closed, the caches cleared, the upload
\* marked: one turn.  The edit mode is left as it is.
UploadStart(u) ==
  /\ pc[u] = "idle"
  /\ MaySend
  /\ CloseHandle
  /\ uploading' = TRUE
  /\ pc' = [pc EXCEPT ![u] = "clearing"]
  /\ acked' = None
  /\ UNCHANGED <<diskVars, editMode, child, sweep, wanted, crashes>>

\* Mutation: the old folder is kept when it has a database.
UploadKeepsFolder(u) ==
  /\ pc[u] = "clearing"
  /\ pc' = [pc EXCEPT ![u] = "cleared"]
  /\ UNCHANGED <<diskVars, openVars, child, editMode, uploading, sweep, clientVars, crashes>>

\* loadSample: a folder of a new session, filled and imported the same way.
SampleStart(u) ==
  /\ ~dir /\ ~HasEditDb /\ ~editMode /\ sweep = "rest"
  /\ \A r \in Requests : pc[r] = "idle"
  /\ uploading' = TRUE
  /\ pc' = [pc EXCEPT ![u] = "cleared"]
  /\ acked' = None
  /\ UNCHANGED <<diskVars, openVars, editMode, child, sweep, wanted, crashes>>

\* The removal of the previous folder ends.
UploadCleared(u) ==
  /\ pc[u] = "clearing"
  /\ RemoveFolder
  /\ pc' = [pc EXCEPT ![u] = "cleared"]
  /\ UNCHANGED <<editMode, uploading, sweep, clientVars, crashes>>

\* mkdir, the zip written, the extraction begun.
UploadUnpack(u) ==
  /\ pc[u] = "cleared"
  /\ dir' = TRUE
  /\ idle' = FALSE
  /\ csv' = [csv EXCEPT ![u] = "part"]
  /\ pc' = [pc EXCEPT ![u] = "unpacking"]
  /\ UNCHANGED <<db, marker, openVars, editMode, uploading, child, sweep, clientVars, crashes>>

\* The last entry is written: into this upload's folder, or into the one an
\* overlapping upload has put in its place.
UploadUnpacked(u) ==
  /\ pc[u] = "unpacking"
  /\ dir
  /\ csv' = [csv EXCEPT ![u] = IF csv[u] = "part" THEN "all" ELSE "part"]
  /\ idle' = FALSE
  /\ pc' = [pc EXCEPT ![u] = "validating"]
  /\ UNCHANGED <<dir, db, marker, openVars, editMode, uploading, child, sweep, clientVars, crashes>>

\* Mutation: an error of the archive is not answered.
UploadFailsChecks(u) ==
  /\ pc[u] = "validating"
  /\ pc' = [pc EXCEPT ![u] = "failing"]
  /\ UNCHANGED <<diskVars, openVars, editMode, uploading, child, sweep, clientVars, crashes>>

\* A write, the archive, the required files or the validator: the answer is an
\* error, and the cleanup is still to come.
UploadFails(u) ==
  /\ pc[u] \in {"cleared", "unpacking", "validating"}
  /\ pc' = [pc EXCEPT ![u] = "failing"]
  /\ UNCHANGED <<diskVars, openVars, editMode, uploading, child, sweep, clientVars, crashes>>

\* migrateWithParsedData: no folder is an error, a database there or open is
\* taken as it is, otherwise the import is asked for.
UploadMigrate(u) ==
  /\ pc[u] = "validating"
  /\ \/ /\ ~dir
        /\ CloseAndUnlink
        /\ pc' = [pc EXCEPT ![u] = "failing"]
     \/ /\ dir /\ (HasEditDb \/ HasEditDbOnDisk)
        /\ handle' = IF HasEditDb THEN handle ELSE "file"
        /\ pc' = [pc EXCEPT ![u] = "saving"]
        /\ UNCHANGED <<db, ghost, editMode, child>>
     \/ /\ dir /\ ~HasEditDb /\ ~HasEditDbOnDisk
        /\ pc' = [pc EXCEPT ![u] = "queued"]
        /\ UNCHANGED <<db, openVars, editMode, child>>
  /\ UNCHANGED <<dir, csv, marker, idle, uploading, sweep, clientVars, crashes>>

\* _session_meta.json and the report written, the 200 sent.
UploadCommit(u) ==
  /\ pc[u] = "saving"
  /\ pc' = [pc EXCEPT ![u] = "committed"]
  /\ acked' = u
  /\ UNCHANGED <<diskVars, openVars, editMode, uploading, child, sweep, wanted, crashes>>

\* The statistics are logged; the mark goes.
UploadEnd(u) ==
  /\ pc[u] = "committed"
  /\ uploading' = FALSE
  /\ pc' = [pc EXCEPT ![u] = "idle"]
  /\ UNCHANGED <<diskVars, openVars, editMode, child, sweep, clientVars, crashes>>

\* Mutation: a failed upload leaves its folder to the sweep.
UploadLeavesFolder(u) ==
  /\ pc[u] = "failing"
  /\ pc' = [pc EXCEPT ![u] = "cleaned"]
  /\ UNCHANGED <<diskVars, openVars, child, editMode, uploading, sweep, clientVars, crashes>>

\* A failed upload's removal ends...
UploadCleanup(u) ==
  /\ pc[u] = "failing"
  /\ RemoveFolder
  /\ pc' = [pc EXCEPT ![u] = "cleaned"]
  /\ UNCHANGED <<editMode, uploading, sweep, clientVars, crashes>>

\* Mutation: the mark of a failed upload stays.
UploadLeavesMark(u) ==
  /\ pc[u] = "cleaned"
  /\ CloseHandle
  /\ pc' = [pc EXCEPT ![u] = "idle"]
  /\ UNCHANGED <<diskVars, editMode, uploading, child, sweep, clientVars, crashes>>

\* ...and its continuation closes what was opened meanwhile.
UploadDropped(u) ==
  /\ pc[u] = "cleaned"
  /\ CloseHandle
  /\ uploading' = FALSE
  /\ pc' = [pc EXCEPT ![u] = "idle"]
  /\ UNCHANGED <<diskVars, editMode, child, sweep, clientVars, crashes>>

\* The folder is being removed, for an upload or for the sweep.
Removing ==
  \/ \E u \in Uploads : pc[u] \in {"clearing", "failing"}
  \/ sweep \in {"purging", "collecting"}

\* An entry of it goes.
Unlinking == Removing /\ RemoveEntry

-----------------------------------------------------------------------------
(* The import of the session's feed, and the answer to who asked for it. *)

\* The queue's slot: the marker, then the fork; without its folder it throws.
ImportStart(r) ==
  /\ pc[r] = "queued"
  /\ \A q \in Importers : pc[q] # "importing"
  /\ \/ /\ dir
        /\ marker' = TRUE
        /\ idle' = FALSE
        /\ child' = "started"
        /\ pc' = [pc EXCEPT ![r] = "importing"]
        /\ UNCHANGED <<dir, csv, db, openVars, editMode, uploading, sweep, clientVars, crashes>>
     \/ /\ ~dir
        /\ IF r \in Uploads
             THEN /\ CloseAndUnlink
                  /\ pc' = [pc EXCEPT ![r] = "failing"]
             ELSE /\ pc' = [pc EXCEPT ![r] = "idle"]
                  /\ UNCHANGED <<db, openVars, editMode, child>>
        /\ UNCHANGED <<dir, csv, marker, idle, uploading, sweep, clientVars, crashes>>

\* SERVER_BUSY, at once or after QUEUE_WAIT_MS: nothing is closed.
ImportRefused(r) ==
  /\ pc[r] = "queued"
  /\ pc' = [pc EXCEPT ![r] = IF r \in Uploads THEN "failing" ELSE "idle"]
  /\ UNCHANGED <<diskVars, openVars, editMode, uploading, child, sweep, clientVars, crashes>>

\* The child reads the CSVs and creates the database, unless one is there.
ChildCreates ==
  /\ child = "started"
  /\ dir /\ db = None
  /\ \E u \in Uploads : csv[u] # "none"
  /\ db' = [feed |-> FeedOnDisk, whole |-> FALSE, editing |-> FALSE]
  /\ child' = "building"
  /\ UNCHANGED <<dir, csv, marker, idle, openVars, editMode, uploading, pc, sweep, clientVars, crashes>>

\* The child has answered: the marker goes, and in the same turn the requester
\* opens the database, creating an empty one if it is gone; without a folder it
\* throws.
ImportDone(r) ==
  /\ pc[r] = "importing"
  /\ child \in {"building", "detached"}
  /\ child' = "none"
  /\ marker' = FALSE
  /\ LET imported == IF child = "building" THEN [db EXCEPT !.whole = TRUE] ELSE db
         opened == IF imported = None THEN Empty ELSE imported
     IN \/ /\ HasEditDb
           /\ db' = IF r \in Enters /\ handle = "file"
                      THEN [imported EXCEPT !.editing = TRUE] ELSE imported
           /\ ghost' = IF r \in Enters /\ handle = "gone"
                         THEN [ghost EXCEPT !.editing = TRUE] ELSE ghost
           /\ UNCHANGED handle
        \/ /\ ~HasEditDb /\ dir
           /\ db' = IF r \in Enters THEN [opened EXCEPT !.editing = TRUE] ELSE opened
           /\ handle' = "file"
           /\ UNCHANGED ghost
        \/ /\ ~HasEditDb /\ ~dir
           /\ UNCHANGED <<db, openVars>>
  /\ IF HasEditDb \/ dir
       THEN /\ pc' = [pc EXCEPT ![r] = IF r \in Uploads THEN "saving" ELSE "idle"]
            /\ editMode' = IF r \in Enters THEN TRUE ELSE editMode
            /\ wanted' = IF r \in Enters THEN TRUE ELSE wanted
       ELSE /\ pc' = [pc EXCEPT ![r] = IF r \in Uploads THEN "failing" ELSE "idle"]
            /\ editMode' = IF r \in Uploads THEN FALSE ELSE editMode
            /\ UNCHANGED wanted
  /\ UNCHANGED <<dir, csv, idle, uploading, sweep, acked, crashes>>

\* The child refused or stopped: what gtfs.db names goes, then the marker.  An
\* upload that was not refused for its size closes the database too.
ImportFails(r) ==
  /\ pc[r] = "importing"
  /\ marker' = FALSE
  /\ db' = None
  /\ child' = "none"
  /\ \/ /\ r \in Uploads
        /\ CloseHandle
        /\ editMode' = FALSE
     \/ /\ handle' = IF handle = "file" THEN "gone" ELSE handle
        /\ ghost' = IF handle = "file" THEN db ELSE ghost
        /\ UNCHANGED editMode
  /\ pc' = [pc EXCEPT ![r] = IF r \in Uploads THEN "failing" ELSE "idle"]
  /\ UNCHANGED <<dir, csv, idle, uploading, sweep, clientVars, crashes>>

-----------------------------------------------------------------------------
(* The edit mode, the reads, the export and the heartbeat. *)

\* enterEditMode with a database there: opened, the flag set and stamped.
Enter(r) ==
  /\ pc[r] = "idle"
  /\ MaySend
  /\ HasEditDb \/ HasEditDbOnDisk
  /\ editMode' = TRUE
  /\ wanted' = TRUE
  /\ IF handle = "gone"
       THEN /\ ghost' = [ghost EXCEPT !.editing = TRUE]
            /\ UNCHANGED <<db, handle, idle>>
       ELSE /\ handle' = "file"
            /\ db' = [db EXCEPT !.editing = TRUE]
            /\ idle' = FALSE
            /\ UNCHANGED ghost
  /\ UNCHANGED <<dir, csv, marker, uploading, pc, child, sweep, acked, crashes>>

\* enterEditMode of a folder whose CSVs have no database yet: its import first.
EnterImports(r) ==
  /\ pc[r] = "idle"
  /\ MaySend
  /\ dir /\ ~HasEditDb /\ ~HasEditDbOnDisk
  /\ pc' = [pc EXCEPT ![r] = "queued"]
  /\ UNCHANGED <<diskVars, openVars, editMode, uploading, child, sweep, clientVars, crashes>>

\* Mutation: leaving edit mode only clears the flag in memory.
ExitUnstamped ==
  /\ MaySend
  /\ editMode' = FALSE
  /\ wanted' = FALSE
  /\ UNCHANGED <<diskVars, openVars, uploading, pc, child, sweep, acked, crashes>>

\* exitEditMode: the flag cleared, and stamped if it was set and a handle is open.
Exit ==
  /\ MaySend
  /\ editMode' = FALSE
  /\ wanted' = FALSE
  /\ IF editMode /\ handle = "file"
       THEN db' = [db EXCEPT !.editing = FALSE] /\ idle' = FALSE
       ELSE UNCHANGED <<db, idle>>
  /\ ghost' = IF editMode /\ handle = "gone" THEN [ghost EXCEPT !.editing = FALSE] ELSE ghost
  /\ UNCHANGED <<dir, csv, marker, handle, uploading, pc, child, sweep, acked, crashes>>

\* ensureDbHandle: every read, the edit status and a refused edit reopen the
\* database; its WAL refreshes the folder.
Read ==
  /\ MaySend
  /\ ~HasEditDb /\ HasEditDbOnDisk
  /\ handle' = "file"
  /\ idle' = FALSE
  /\ UNCHANGED <<dir, csv, db, marker, ghost, editMode, uploading, pc, child, sweep, clientVars, crashes>>

\* exportGTFS let through by requireEditMode: the flag, or its stamp, and the
\* token that pins the session until the answer is closed.
ExportStart(x) ==
  /\ pc[x] = "idle"
  /\ MaySend
  /\ HasEditDb \/ HasEditDbOnDisk
  /\ editMode \/ Open.editing
  /\ editMode' = TRUE
  /\ handle' = IF HasEditDb THEN handle ELSE "file"
  /\ idle' = (HasEditDb /\ idle)
  /\ pc' = [pc EXCEPT ![x] = "working"]
  /\ UNCHANGED <<dir, csv, db, marker, ghost, uploading, child, sweep, clientVars, crashes>>

\* The validation and the archive take more than STALE_OP_MS.
TokenGoesStale(x) ==
  /\ pc[x] = "working"
  /\ pc' = [pc EXCEPT ![x] = "overdue"]
  /\ UNCHANGED <<diskVars, openVars, editMode, uploading, child, sweep, clientVars, crashes>>

\* The answer is finished or its connection closed: the token is released.
ExportEnd(x) ==
  /\ pc[x] \in {"working", "overdue"}
  /\ pc' = [pc EXCEPT ![x] = "idle"]
  /\ UNCHANGED <<diskVars, openVars, editMode, uploading, child, sweep, clientVars, crashes>>

\* touchSession: the folder is looked at...
HeartbeatLooks(h) ==
  /\ pc[h] = "idle"
  /\ MaySend
  /\ dir
  /\ pc' = [pc EXCEPT ![h] = "touching"]
  /\ UNCHANGED <<diskVars, openVars, editMode, uploading, child, sweep, clientVars, crashes>>

\* ...then .heartbeat written, which fails without a folder.
HeartbeatWrites(h) ==
  /\ pc[h] = "touching"
  /\ idle' = (idle /\ ~dir)
  /\ pc' = [pc EXCEPT ![h] = "idle"]
  /\ UNCHANGED <<dir, csv, db, marker, openVars, editMode, uploading, child, sweep, clientVars, crashes>>

-----------------------------------------------------------------------------
(* The sweep (cleanupOldSessions), at this folder. *)

\* An import this process does not run.
Orphan == dir /\ ~uploading /\ marker /\ ~IsImporting

\* Mutation: an orphan waits for the age limit like any other folder.
CollectsOldOrphans ==
  /\ sweep = "rest"
  /\ Orphan /\ idle
  /\ CloseHandle
  /\ sweep' = "collecting"
  /\ acked' = None
  /\ UNCHANGED <<diskVars, editMode, uploading, pc, child, wanted, crashes>>

\* The orphan of a restart: closed, and its removal begun.
SweepCollects ==
  /\ sweep = "rest"
  /\ Orphan
  /\ CloseHandle
  /\ sweep' = "collecting"
  /\ acked' = None
  /\ UNCHANGED <<diskVars, editMode, uploading, pc, child, wanted, crashes>>

\* The folder's stats are read, then its files' one after the other: old enough.
SweepLooks ==
  /\ sweep = "rest"
  /\ dir /\ ~Orphan /\ idle
  /\ sweep' = "looked"
  /\ UNCHANGED <<diskVars, openVars, editMode, uploading, pc, child, clientVars, crashes>>

\* Mutation: the age decides alone.
SweepDecidesByAge ==
  /\ sweep = "looked"
  /\ CloseHandle
  /\ sweep' = "purging"
  /\ acked' = None
  /\ UNCHANGED <<diskVars, editMode, uploading, pc, child, wanted, crashes>>

\* The turn after the last stat: an upload or a token postpones the removal,
\* otherwise the caches are cleared, the handle closed and the removal begun.
SweepDecides ==
  /\ sweep = "looked"
  /\ \/ /\ uploading \/ SessionMutationActive
        /\ sweep' = "rest"
        /\ UNCHANGED <<openVars, acked>>
     \/ /\ ~uploading /\ ~SessionMutationActive
        /\ CloseHandle
        /\ sweep' = "purging"
        /\ acked' = None
  /\ UNCHANGED <<diskVars, editMode, uploading, pc, child, wanted, crashes>>

\* The removal ends.
SweepRemoves ==
  /\ sweep \in {"purging", "collecting"}
  /\ RemoveFolder
  /\ sweep' = "rest"
  /\ UNCHANGED <<editMode, uploading, pc, clientVars, crashes>>

-----------------------------------------------------------------------------
(* The world. *)

\* SESSION_CLEANUP_AGE_MS without a touch: every other request is far shorter
\* than a wait in line or an export.
Age ==
  /\ MayIdle
  /\ dir /\ ~idle /\ sweep = "rest"
  /\ \A r \in Requests : pc[r] \in {"idle", "queued", "working", "overdue"}
  /\ idle' = TRUE
  /\ UNCHANGED <<dir, csv, db, marker, openVars, editMode, uploading, pc, child, sweep, clientVars, crashes>>

\* The process stops and starts again: its memory is lost, the folder stays as
\* it is, and the child, losing its channel, leaves its database at any point.
Crash ==
  /\ crashes < MaxCrashes
  /\ CutsRemovals \/ ~Removing
  /\ crashes' = crashes + 1
  /\ CloseHandle
  /\ editMode' = FALSE
  /\ uploading' = FALSE
  /\ pc' = [r \in Requests |-> "idle"]
  /\ child' = "none"
  /\ sweep' = "rest"
  /\ IF child = "building"
       THEN db' \in {None, db, [db EXCEPT !.whole = TRUE]}
       ELSE UNCHANGED db
  /\ UNCHANGED <<dir, csv, marker, idle, clientVars>>

UploadStep(u) ==
  \/ UploadCleared(u) \/ UploadUnpack(u) \/ UploadUnpacked(u) \/ UploadFails(u)
  \/ UploadMigrate(u) \/ UploadCommit(u) \/ UploadEnd(u)
  \/ UploadCleanup(u) \/ UploadDropped(u)

ImportStep(r) == ImportStart(r) \/ ImportDone(r) \/ ImportFails(r)

Sweep == SweepCollects \/ SweepLooks \/ SweepDecides \/ SweepRemoves

Next ==
  \/ \E u \in Uploads : UploadStart(u) \/ SampleStart(u) \/ UploadStep(u)
  \/ \E r \in Importers : ImportStep(r) \/ ImportRefused(r)
  \/ ChildCreates
  \/ \E r \in Enters : Enter(r) \/ EnterImports(r)
  \/ Exit \/ Read
  \/ \E x \in Exports : ExportStart(x) \/ TokenGoesStale(x) \/ ExportEnd(x)
  \/ \E h \in Heartbeats : HeartbeatLooks(h) \/ HeartbeatWrites(h)
  \/ Sweep \/ Unlinking
  \/ Age \/ Crash

Spec == Init /\ [][Next]_copyVars

\* A handler goes on after its I/O, the queue serves or, at QUEUE_WAIT_MS,
\* refuses, the child ends by itself or at its time limit, the sweep comes every 30 minutes.  Nothing
\* makes a client send or an export end.
Fairness ==
  /\ \A u \in Uploads : WF_copyVars(UploadStep(u))
  /\ \A r \in Importers : WF_copyVars(ImportStep(r) \/ ImportRefused(r))
  /\ WF_copyVars(Sweep)

FairSpec == Spec /\ Fairness

-----------------------------------------------------------------------------
(* What makes it correct. *)

\* Once the uploads are over, an open handle is the file at gtfs.db: no read is
\* served, and no edit made, in a database removed from the disk.
HandleIsTheFile == (\A u \in Uploads : pc[u] = "idle") => handle # "gone"

\* The feed an upload was answered 200 for is the one on disk, whole, until the
\* client sends another or the sweep takes the session: through restarts, reads,
\* edits, and the end of the uploads before it.
AckedFeedIsServed ==
  acked # None => db # None /\ db.feed = acked /\ db.whole /\ ~marker

\* The child that builds the database has one to build: what removes gtfs.db
\* also takes it from the child.
BuildingHasDatabase == child = "building" => db # None

\* No request is ever given a database that its import has not finished, be it
\* being built or left by a crash.
PartialNeverServed == HasEditDb => Open.whole

\* uploadInProgress says exactly that an upload's handler has not ended: the
\* sweep and the session count read it as that.
MarkCoversUpload == uploading <=> \E u \in Uploads : pc[u] # "idle"

\* The sweep never removes the folder of an upload whose handler has not ended.
SweepSparesUploads ==
  sweep \in {"purging", "collecting"} => \A u \in Uploads : pc[u] = "idle"

\* "The sweep never removes a folder while a mutation holds a token on it."
SweepSparesTokens == sweep \in {"purging", "collecting"} => \A x \in Exports : pc[x] # "working"

\* A client that waits for its handler to end has one request under way.
OneAtATime == \A r, q \in Requests : pc[r] # "idle" /\ pc[q] # "idle" => r = q

\* Such a client never has the database open beside the marker, nor while its
\* import waits or runs.
MarkerMeansClosed ==
  /\ marker => handle = "none" /\ \A x \in Exports : pc[x] \notin {"working", "overdue"}
  /\ \A r \in Importers : pc[r] \in {"queued", "importing"} => handle = "none"

\* What every step keeps for it.
AloneInv ==
  /\ OneAtATime /\ MarkerMeansClosed
  /\ MarkCoversUpload /\ SweepSparesUploads /\ SweepSparesTokens

\* For it, as long as no crash cuts a removal: a partial database has its marker
\* or is being removed, and a child at work has somebody waiting for it.
PartialIsGuarded ==
  /\ child # "none" => \E r \in Importers : pc[r] = "importing"
  /\ child = "started" => marker \/ Removing \/ ~dir
  /\ child = "building" => marker \/ Removing
  /\ child = "detached" => db = None
  /\ db # None /\ ~db.whole => marker \/ Removing
  /\ PartialNeverServed

\* Without a crash, a folder no upload works on and no removal has begun on has
\* its database: a refused or failed feed never stays as a session.
SessionHasDatabase ==
  dir /\ (\A u \in Uploads : pc[u] = "idle") /\ sweep \in {"rest", "looked"}
    => HasEditDbOnDisk

\* A database a session serves holds one upload's whole feed, never the part of
\* it a stopped extraction left or a mix of two.
FeedIsComplete == db # None /\ db.whole => db.feed # None

\* A mutating route is let through only to a client that entered edit mode and
\* has not left it since.
EditOnlyWhenEntered ==
  [][\A x \in Exports : pc[x] = "idle" /\ pc'[x] = "working" => wanted]_copyVars

\* Every upload is answered, whatever happens to its folder or its import.
UploadIsAnswered == \A u \in Uploads : pc[u] \notin Answered ~> pc[u] \in Answered

\* The folder of an import no process runs does not stay.
OrphanIsCollected == ~<>[]Orphan

\* A session nobody uses does not stay, even one whose last export never ended.
AbandonedIsRemoved ==
  ~<>[](/\ dir /\ idle
        /\ \A u \in Uploads : pc[u] = "idle"
        /\ \A x \in Exports : pc[x] # "working")
=============================================================================
