------------------------- MODULE WorkingCopyProofs -------------------------
(***************************************************************************)
(* The working copy for every set of requests and any number of crashes:   *)
(* its types, whatever the client does; and, for a client that waits for   *)
(* its handler to end, the upload's mark, what the sweep spares, the       *)
(* partial database nobody is served, the handle that is the file, the     *)
(* feed answered for, what a refused one leaves and the edit mode.         *)
(***************************************************************************)
EXTENDS WorkingCopy, TLAPS

WorkingCopyTypes == TypeOK /\ BuildingHasDatabase

(* What the proofs take from the assumption. *)
LEMMA NoneAndBound == None \notin Contents /\ MaxCrashes \in Nat
  BY WorkingCopyAssumption

(* A stamp written in a database leaves it one. *)
LEMMA StampedType ==
  ASSUME NEW d \in Contents, NEW b \in BOOLEAN
  PROVE  /\ [d EXCEPT !.editing = b] \in Contents \ {None}
         /\ [d EXCEPT !.whole = b] \in Contents \ {None}
  BY NoneAndBound DEF Contents

LEMMA EmptyType == Empty \in Contents
  BY DEF Empty, Contents

LEMMA FeedOnDiskType == FeedOnDisk \in Uploads \cup {None}
  BY DEF FeedOnDisk

LEMMA WorkingCopyInit == Init => WorkingCopyTypes
  <1> SUFFICES ASSUME Init PROVE WorkingCopyTypes
    OBVIOUS
  <1>1. FolderOK
    BY DEF Init, FolderOK
  <1>2. FileOK /\ BuildingHasDatabase
    BY NoneAndBound DEF Init, FileOK, BuildingHasDatabase
  <1>3. ProcessOK
    <2>1. crashes \in 0..MaxCrashes
      BY NoneAndBound DEF Init
    <2>2. /\ acked \in Uploads \cup {None} /\ child = "none" /\ sweep = "rest"
          /\ wanted \in BOOLEAN /\ editMode \in BOOLEAN /\ uploading \in BOOLEAN
      BY DEF Init
    <2> QED
      BY <2>1, <2>2 DEF Init, ProcessOK
  <1> QED
    BY <1>1, <1>2, <1>3 DEF WorkingCopyTypes, TypeOK

-----------------------------------------------------------------------------
(* The upload. *)
LEMMA UploadKeepsTypes ==
  ASSUME WorkingCopyTypes, NEW u \in Uploads,
         UploadStart(u) \/ SampleStart(u) \/ UploadStep(u)
  PROVE  WorkingCopyTypes'
  <1> USE NoneAndBound
      DEF WorkingCopyTypes, TypeOK, Requests, diskVars, openVars, clientVars
  <1>1. CASE UploadStart(u)
    BY <1>1 DEF UploadStart, CloseHandle, FolderOK, FileOK, ProcessOK, BuildingHasDatabase
  <1>2. CASE SampleStart(u)
    BY <1>2 DEF SampleStart, FolderOK, FileOK, ProcessOK, BuildingHasDatabase
  <1>3. CASE UploadCleared(u)
    <2>1. FolderOK'
      BY <1>3 DEF UploadCleared, RemoveFolder, UnlinkDb, FolderOK
    <2>2. FileOK' /\ BuildingHasDatabase'
      BY <1>3 DEF UploadCleared, RemoveFolder, UnlinkDb, FileOK, BuildingHasDatabase
    <2>3. ProcessOK'
      BY <1>3 DEF UploadCleared, RemoveFolder, UnlinkDb, ProcessOK
    <2> QED
      BY <2>1, <2>2, <2>3
  <1>4. CASE UploadUnpack(u)
    <2>1. FolderOK'
      BY <1>4 DEF UploadUnpack, FolderOK
    <2>2. FileOK' /\ BuildingHasDatabase'
      BY <1>4 DEF UploadUnpack, FileOK, BuildingHasDatabase
    <2>3. ProcessOK'
      BY <1>4 DEF UploadUnpack, ProcessOK
    <2> QED
      BY <2>1, <2>2, <2>3
  <1>5. CASE UploadUnpacked(u)
    <2>1. FolderOK'
      BY <1>5 DEF UploadUnpacked, FolderOK
    <2>2. FileOK' /\ BuildingHasDatabase'
      BY <1>5 DEF UploadUnpacked, FileOK, BuildingHasDatabase
    <2>3. ProcessOK'
      BY <1>5 DEF UploadUnpacked, ProcessOK
    <2> QED
      BY <2>1, <2>2, <2>3
  <1>6. CASE UploadFails(u)
    BY <1>6 DEF UploadFails, FolderOK, FileOK, ProcessOK, BuildingHasDatabase
  <1>7. CASE UploadMigrate(u)
    <2>1. FolderOK'
      BY <1>7 DEF UploadMigrate, CloseAndUnlink, CloseHandle, HasEditDb, HasEditDbOnDisk, FolderOK
    <2>2. FileOK' /\ BuildingHasDatabase'
      BY <1>7 DEF UploadMigrate, CloseAndUnlink, CloseHandle, HasEditDb, HasEditDbOnDisk, FileOK, BuildingHasDatabase
    <2>3. ProcessOK'
      BY <1>7 DEF UploadMigrate, CloseAndUnlink, CloseHandle, HasEditDb, HasEditDbOnDisk, ProcessOK
    <2> QED
      BY <2>1, <2>2, <2>3
  <1>8. CASE UploadCommit(u)
    BY <1>8 DEF UploadCommit, FolderOK, FileOK, ProcessOK, BuildingHasDatabase
  <1>9. CASE UploadEnd(u)
    <2>1. FolderOK'
      BY <1>9 DEF UploadEnd, FolderOK
    <2>2. FileOK' /\ BuildingHasDatabase'
      BY <1>9 DEF UploadEnd, FileOK, BuildingHasDatabase
    <2>3. ProcessOK'
      BY <1>9 DEF UploadEnd, ProcessOK
    <2> QED
      BY <2>1, <2>2, <2>3
  <1>10. CASE UploadCleanup(u)
    BY <1>10 DEF UploadCleanup, RemoveFolder, UnlinkDb, FolderOK, FileOK, ProcessOK, BuildingHasDatabase
  <1>11. CASE UploadDropped(u)
    BY <1>11 DEF UploadDropped, CloseHandle, FolderOK, FileOK, ProcessOK, BuildingHasDatabase
  <1> QED
    BY <1>1, <1>2, <1>3, <1>4, <1>5, <1>6, <1>7, <1>8, <1>9, <1>10, <1>11 DEF UploadStep

-----------------------------------------------------------------------------
(* The import and its child. *)
LEMMA ImportStartKeepsTypes ==
  ASSUME WorkingCopyTypes, NEW r \in Importers, ImportStart(r)
  PROVE  WorkingCopyTypes'
  <1> USE DEF WorkingCopyTypes, TypeOK
  <1>1. FolderOK'
    <2>1. CASE dir
      <3>1. dir' = dir /\ csv' = csv /\ marker' \in BOOLEAN /\ idle' \in BOOLEAN
        BY <2>1 DEF ImportStart, FolderOK
      <3>2. dir'
        BY <2>1, <3>1
      <3> QED
        BY <3>1, <3>2 DEF FolderOK
    <2>2. CASE ~dir
      BY <2>2 DEF ImportStart, FolderOK, CloseAndUnlink
    <2> QED
      BY <2>1, <2>2
  <1>2. FileOK' /\ BuildingHasDatabase'
    BY DEF ImportStart, CloseAndUnlink, CloseHandle, openVars, FileOK, BuildingHasDatabase
  <1>3. ProcessOK'
    BY DEF ImportStart, CloseAndUnlink, clientVars, ProcessOK, Requests, Importers
  <1> QED
    BY <1>1, <1>2, <1>3

(* What the requester opens is a database, be it an empty one. *)
LEMMA ImportDoneKeepsTypes ==
  ASSUME WorkingCopyTypes, NEW r \in Importers, ImportDone(r)
  PROVE  WorkingCopyTypes'
  <1> USE DEF WorkingCopyTypes, TypeOK
  <1> DEFINE imported == IF child = "building" THEN [db EXCEPT !.whole = TRUE] ELSE db
             opened == IF imported = None THEN Empty ELSE imported
  <1>1. /\ imported \in Contents \cup {None}
        /\ imported = None <=> db = None
        /\ opened \in Contents
    BY EmptyType, StampedType DEF FileOK, BuildingHasDatabase
  <1> HIDE DEF imported
  <1>2. FolderOK'
    <2>1. /\ dir' = dir /\ csv' = csv /\ marker' = FALSE /\ idle' = idle
          /\ ~dir => (db = None => db' = None)
      <3>1. CASE HasEditDb
        BY <3>1, <1>1 DEF ImportDone, imported, opened, HasEditDb, FileOK
      <3>2. CASE ~HasEditDb /\ dir
        BY <3>2 DEF ImportDone
      <3>3. CASE ~HasEditDb /\ ~dir
        BY <3>3 DEF ImportDone, openVars
      <3> QED
        BY <3>1, <3>2, <3>3
    <2> QED
      BY <2>1 DEF FolderOK
  <1>3. FileOK'
    <2>1. CASE HasEditDb
      <3>1. /\ handle' = handle
            /\ db' = IF r \in Enters /\ handle = "file" THEN [imported EXCEPT !.editing = TRUE] ELSE imported
            /\ ghost' = IF r \in Enters /\ handle = "gone" THEN [ghost EXCEPT !.editing = TRUE] ELSE ghost
        BY <2>1 DEF ImportDone, imported
      <3>2. db' \in Contents \cup {None} /\ (handle = "file" => db' # None)
        BY <3>1, <1>1, StampedType, NoneAndBound DEF FileOK
      <3>3. ghost' \in Contents \cup {None} /\ (ghost' # None <=> ghost # None)
        BY <3>1, StampedType, NoneAndBound DEF FileOK
      <3> QED
        BY <3>1, <3>2, <3>3 DEF FileOK
    <2>2. CASE ~HasEditDb /\ dir
      <3>1. /\ handle' = "file" /\ ghost' = ghost
            /\ db' = IF r \in Enters THEN [opened EXCEPT !.editing = TRUE] ELSE opened
        BY <2>2 DEF ImportDone, imported, opened
      <3>2. db' \in Contents
        <4> HIDE DEF opened
        <4> QED
          BY <3>1, <1>1, StampedType
      <3> QED
        BY <2>2, <3>1, <3>2, NoneAndBound DEF FileOK, HasEditDb
    <2>3. CASE ~HasEditDb /\ ~dir
      <3>1. db' = db /\ handle' = handle /\ ghost' = ghost
        BY <2>3 DEF ImportDone, openVars
      <3> QED
        BY <3>1 DEF FileOK
    <2> QED
      BY <2>1, <2>2, <2>3
  <1>4. BuildingHasDatabase'
    BY DEF ImportDone, BuildingHasDatabase
  <1>5. ProcessOK'
    BY DEF ImportDone, ProcessOK, Requests, Importers
  <1> QED
    BY <1>2, <1>3, <1>4, <1>5

LEMMA ChildCreatesKeepsTypes ==
  ASSUME WorkingCopyTypes, ChildCreates
  PROVE  WorkingCopyTypes'
  <1> USE DEF WorkingCopyTypes, TypeOK
  <1>1. FolderOK'
    <2>1. dir /\ dir' = dir /\ csv' = csv /\ marker' = marker /\ idle' = idle
      BY DEF ChildCreates
    <2>2. dir'
      BY <2>1
    <2> QED
      BY <2>1, <2>2 DEF FolderOK
  <1>2. FileOK' /\ BuildingHasDatabase'
    <2>1. db' \in Contents
      BY FeedOnDiskType DEF ChildCreates, Contents
    <2> QED
      BY <2>1, NoneAndBound DEF ChildCreates, openVars, FileOK, BuildingHasDatabase
  <1>3. ProcessOK'
    BY DEF ChildCreates, clientVars, ProcessOK
  <1> QED
    BY <1>1, <1>2, <1>3

LEMMA ImportKeepsTypes ==
  ASSUME WorkingCopyTypes, NEW r \in Importers,
         ImportStep(r) \/ ImportRefused(r)
  PROVE  WorkingCopyTypes'
  <1> USE NoneAndBound
      DEF WorkingCopyTypes, TypeOK, Requests, Importers, diskVars, openVars, clientVars
  <1>1. CASE ImportStart(r)
    BY <1>1, ImportStartKeepsTypes
  <1>2. CASE ImportDone(r)
    BY <1>2, ImportDoneKeepsTypes
  <1>3. CASE ImportFails(r)
    BY <1>3 DEF ImportFails, CloseHandle, FolderOK, FileOK, ProcessOK, BuildingHasDatabase
  <1>4. CASE ImportRefused(r)
    BY <1>4 DEF ImportRefused, FolderOK, FileOK, ProcessOK, BuildingHasDatabase
  <1> QED
    BY <1>1, <1>2, <1>3, <1>4 DEF ImportStep

-----------------------------------------------------------------------------
(* The edit mode, the reads, the export and the heartbeat. *)
LEMMA EnterKeepsTypes ==
  ASSUME WorkingCopyTypes, NEW r, Enter(r)
  PROVE  WorkingCopyTypes'
  <1> USE DEF WorkingCopyTypes, TypeOK
  <1>1. FolderOK'
    <2>1. idle' \in BOOLEAN /\ UNCHANGED <<dir, csv, marker>> /\ (db = None => db' = None)
      BY DEF Enter, FolderOK, FileOK, HasEditDb, HasEditDbOnDisk
    <2> QED
      BY <2>1 DEF FolderOK
  <1>2. FileOK' /\ BuildingHasDatabase'
    <2>1. CASE handle = "gone"
      <3>1. ghost \in Contents /\ ghost' = [ghost EXCEPT !.editing = TRUE] /\ UNCHANGED <<db, handle, child>>
        BY <2>1 DEF Enter, FileOK
      <3>2. ghost' \in Contents
        BY <3>1, StampedType
      <3> QED
        BY <2>1, <3>1, <3>2, NoneAndBound DEF FileOK, BuildingHasDatabase
    <2>2. CASE handle # "gone"
      <3>1. /\ db \in Contents /\ db' = [db EXCEPT !.editing = TRUE]
            /\ handle' = "file" /\ UNCHANGED <<ghost, child>>
        BY <2>2 DEF Enter, FileOK, HasEditDb, HasEditDbOnDisk
      <3>2. db' \in Contents
        BY <3>1, StampedType
      <3> QED
        BY <2>2, <3>1, <3>2, NoneAndBound DEF FileOK, BuildingHasDatabase
    <2> QED
      BY <2>1, <2>2
  <1>3. ProcessOK'
    BY DEF Enter, ProcessOK
  <1> QED
    BY <1>1, <1>2, <1>3

LEMMA ExitKeepsTypes ==
  ASSUME WorkingCopyTypes, Exit
  PROVE  WorkingCopyTypes'
  <1> USE DEF WorkingCopyTypes, TypeOK
  <1>1. FolderOK'
    <2>1. idle' \in BOOLEAN /\ UNCHANGED <<dir, csv, marker>> /\ (db = None => db' = None)
      BY DEF Exit, FolderOK, FileOK
    <2> QED
      BY <2>1 DEF FolderOK
  <1>2. FileOK' /\ BuildingHasDatabase'
    BY StampedType, NoneAndBound DEF Exit, FileOK, BuildingHasDatabase
  <1>3. ProcessOK'
    BY DEF Exit, ProcessOK
  <1> QED
    BY <1>1, <1>2, <1>3

LEMMA HeartbeatWritesKeepsTypes ==
  ASSUME WorkingCopyTypes, NEW h \in Requests, HeartbeatWrites(h)
  PROVE  WorkingCopyTypes'
  <1>1. idle' \in BOOLEAN /\ UNCHANGED <<dir, csv, marker, db>>
    BY DEF HeartbeatWrites
  <1> QED
    BY <1>1 DEF HeartbeatWrites, openVars, clientVars, WorkingCopyTypes, TypeOK, FolderOK, FileOK,
                ProcessOK, BuildingHasDatabase

LEMMA ClientKeepsTypes ==
  ASSUME WorkingCopyTypes, NEW r \in Requests,
         Enter(r) \/ EnterImports(r)
           \/ ExportStart(r) \/ TokenGoesStale(r) \/ ExportEnd(r)
           \/ HeartbeatLooks(r) \/ HeartbeatWrites(r)
  PROVE  WorkingCopyTypes'
  <1> USE NoneAndBound
      DEF WorkingCopyTypes, TypeOK, diskVars, openVars, clientVars
  <1>1. CASE Enter(r)
    BY <1>1, EnterKeepsTypes
  <1>2. CASE EnterImports(r)
    BY <1>2 DEF EnterImports, FolderOK, FileOK, ProcessOK, BuildingHasDatabase
  <1>3. CASE ExportStart(r)
    BY <1>3 DEF ExportStart, HasEditDb, HasEditDbOnDisk, FolderOK, FileOK, ProcessOK, BuildingHasDatabase
  <1>4. CASE TokenGoesStale(r) \/ ExportEnd(r)
    BY <1>4 DEF TokenGoesStale, ExportEnd, FolderOK, FileOK, ProcessOK, BuildingHasDatabase
  <1>5. CASE HeartbeatLooks(r)
    BY <1>5 DEF HeartbeatLooks, FolderOK, FileOK, ProcessOK, BuildingHasDatabase
  <1>6. CASE HeartbeatWrites(r)
    BY <1>6, HeartbeatWritesKeepsTypes
  <1> QED
    BY <1>1, <1>2, <1>3, <1>4, <1>5, <1>6

-----------------------------------------------------------------------------
(* The sweep, the removals, the clock and a crash. *)
LEMMA CrashKeepsTypes ==
  ASSUME WorkingCopyTypes, Crash
  PROVE  WorkingCopyTypes'
  <1> USE DEF WorkingCopyTypes, TypeOK
  <1>1. db' \in Contents \cup {None} /\ (db = None => db' = None)
    BY StampedType DEF Crash, FileOK, BuildingHasDatabase
  <1>2. FileOK' /\ BuildingHasDatabase'
    BY <1>1, NoneAndBound DEF Crash, CloseHandle, FileOK, BuildingHasDatabase
  <1>3. FolderOK'
    BY <1>1 DEF Crash, FolderOK
  <1>4. ProcessOK'
    <2>1. pc' \in [Requests -> {"idle"}] /\ crashes' \in 0..MaxCrashes
      BY NoneAndBound DEF Crash, ProcessOK
    <2> QED
      BY <2>1 DEF Crash, ProcessOK, clientVars
  <1> QED
    BY <1>2, <1>3, <1>4

LEMMA WorldKeepsTypes ==
  ASSUME WorkingCopyTypes, Sweep \/ Unlinking \/ Age \/ Crash
  PROVE  WorkingCopyTypes'
  <1> USE NoneAndBound
      DEF WorkingCopyTypes, TypeOK, diskVars, openVars, clientVars
  <1>1. CASE SweepCollects \/ SweepLooks \/ SweepDecides
    BY <1>1 DEF SweepCollects, SweepLooks, SweepDecides, CloseHandle, FolderOK, FileOK, ProcessOK, BuildingHasDatabase
  <1>2. CASE SweepRemoves
    BY <1>2 DEF SweepRemoves, RemoveFolder, UnlinkDb, FolderOK, FileOK, ProcessOK, BuildingHasDatabase
  <1>3. CASE Unlinking
    <2>1. FolderOK'
      BY <1>3 DEF Unlinking, RemoveEntry, UnlinkDb, FolderOK
    <2>2. FileOK' /\ BuildingHasDatabase'
      BY <1>3 DEF Unlinking, RemoveEntry, UnlinkDb, FileOK, BuildingHasDatabase
    <2>3. ProcessOK'
      BY <1>3 DEF Unlinking, RemoveEntry, UnlinkDb, ProcessOK
    <2> QED
      BY <2>1, <2>2, <2>3
  <1>4. CASE Age
    BY <1>4 DEF Age, FolderOK, FileOK, ProcessOK, BuildingHasDatabase
  <1>5. CASE Crash
    BY <1>5, CrashKeepsTypes
  <1> QED
    BY <1>1, <1>2, <1>3, <1>4, <1>5 DEF Sweep

-----------------------------------------------------------------------------
LEMMA WorkingCopyStep == WorkingCopyTypes /\ [Next]_copyVars => WorkingCopyTypes'
  <1> SUFFICES ASSUME WorkingCopyTypes, [Next]_copyVars PROVE WorkingCopyTypes'
    OBVIOUS
  <1>1. CASE \E u \in Uploads : UploadStart(u) \/ SampleStart(u) \/ UploadStep(u)
    BY <1>1, UploadKeepsTypes
  <1>2. CASE \E r \in Importers : ImportStep(r) \/ ImportRefused(r)
    BY <1>2, ImportKeepsTypes
  <1>3. CASE \E r \in Requests : \/ Enter(r) \/ EnterImports(r)
                                 \/ ExportStart(r) \/ TokenGoesStale(r) \/ ExportEnd(r)
                                 \/ HeartbeatLooks(r) \/ HeartbeatWrites(r)
    BY <1>3, ClientKeepsTypes
  <1>4. CASE Exit
    BY <1>4, ExitKeepsTypes
  <1>5. CASE Read
    BY <1>5, NoneAndBound
       DEF Read, HasEditDb, HasEditDbOnDisk, clientVars, WorkingCopyTypes, TypeOK,
           FolderOK, FileOK, ProcessOK, BuildingHasDatabase
  <1>6. CASE UNCHANGED copyVars
    BY <1>6 DEF copyVars, diskVars, openVars, clientVars, WorkingCopyTypes, TypeOK,
                FolderOK, FileOK, ProcessOK, BuildingHasDatabase
  <1> QED
    BY <1>1, <1>2, <1>3, <1>4, <1>5, <1>6, ChildCreatesKeepsTypes, WorldKeepsTypes
       DEF Next, Requests

\* The working copy's state keeps its types: without a folder there is neither
\* database, marker nor CSV, an open handle has its file, an unlinked one its
\* contents.
THEOREM WorkingCopyTypeCorrect == Spec => []TypeOK
  <1>1. Init => WorkingCopyTypes
    BY WorkingCopyInit
  <1>2. WorkingCopyTypes /\ [Next]_copyVars => WorkingCopyTypes'
    BY WorkingCopyStep
  <1>3. WorkingCopyTypes => TypeOK
    BY DEF WorkingCopyTypes
  <1> QED
    BY <1>1, <1>2, <1>3, PTL DEF Spec

-----------------------------------------------------------------------------
(* A client that sends one request at a time, and waits for its handler. *)

(* The kinds of request are apart. *)
LEMMA KindsAreApart ==
  /\ \A u \in Uploads : u \in Requests /\ u \in Importers /\ u \notin Enters /\ u \notin Exports
  /\ \A r \in Enters : r \in Requests /\ r \in Importers /\ r \notin Uploads /\ r \notin Exports
  /\ \A x \in Exports : x \in Requests /\ x \notin Uploads /\ x \notin Importers
  /\ \A h \in Heartbeats : h \in Requests /\ h \notin Uploads /\ h \notin Importers /\ h \notin Exports
  BY WorkingCopyAssumption DEF Requests, Importers

LEMMA AloneSends ==
  ASSUME Client = "alone", MaySend
  PROVE  sweep \notin {"purging", "collecting"} /\ \A r \in Requests : pc[r] = "idle"
  BY DEF MaySend

(* What AloneInv says of the only request that is anywhere. *)
Fits(r) ==
  /\ uploading <=> (r \in Uploads /\ pc[r] # "idle")
  /\ sweep \in {"purging", "collecting"} =>
       (r \in Uploads => pc[r] = "idle") /\ (r \in Exports => pc[r] # "working")
  /\ marker => handle = "none" /\ (r \in Exports => pc[r] \notin {"working", "overdue"})
  /\ r \in Importers /\ pc[r] \in {"queued", "importing"} => handle = "none"

(* The request an action moves: the others are idle before and after. *)
Moves(r) ==
  /\ pc[r] # "idle" \/ \A q \in Requests : pc[q] = "idle"
  /\ pc' = [pc EXCEPT ![r] = pc'[r]]

LEMMA AloneFits ==
  ASSUME AloneInv, NEW r \in Requests, pc[r] # "idle" \/ \A q \in Requests : pc[q] = "idle"
  PROVE  Fits(r)
  BY KindsAreApart
     DEF AloneInv, OneAtATime, MarkerMeansClosed, MarkCoversUpload, SweepSparesUploads, SweepSparesTokens, Fits

LEMMA FitIsAlone ==
  ASSUME TypeOK, AloneInv, NEW r \in Requests, Moves(r), Fits(r)'
  PROVE  AloneInv'
  <1>1. \A q \in Requests \ {r} : pc[q] = "idle" /\ pc'[q] = "idle"
    BY DEF Moves, TypeOK, ProcessOK, AloneInv, OneAtATime
  <1>2. OneAtATime'
    BY <1>1 DEF OneAtATime
  <1>3. MarkCoversUpload'
    BY <1>1, KindsAreApart DEF Fits, MarkCoversUpload
  <1>4. SweepSparesUploads' /\ SweepSparesTokens'
    BY <1>1, KindsAreApart DEF Fits, SweepSparesUploads, SweepSparesTokens
  <1>5. MarkerMeansClosed'
    <2>1. marker' => handle' = "none" /\ \A x \in Exports : pc'[x] \notin {"working", "overdue"}
      BY <1>1, KindsAreApart DEF Fits
    <2>2. \A q \in Importers : pc'[q] \in {"queued", "importing"} => handle' = "none"
      BY <1>1 DEF Fits, Requests, Importers
    <2> QED
      BY <2>1, <2>2 DEF MarkerMeansClosed
  <1> QED
    BY <1>2, <1>3, <1>4, <1>5 DEF AloneInv

(* A step that moves no request opens nothing beside the marker. *)
LEMMA StillIsAlone ==
  ASSUME AloneInv, UNCHANGED <<pc, uploading, sweep, marker>>,
         handle' = handle \/ (~marker /\ \A r \in Requests : pc[r] = "idle")
  PROVE  AloneInv'
  <1>1. OneAtATime' /\ MarkCoversUpload' /\ SweepSparesUploads' /\ SweepSparesTokens'
    BY DEF AloneInv, OneAtATime, MarkCoversUpload, SweepSparesUploads, SweepSparesTokens
  <1>2. MarkerMeansClosed'
    BY KindsAreApart DEF AloneInv, MarkerMeansClosed, Requests, Importers
  <1> QED
    BY <1>1, <1>2 DEF AloneInv

LEMMA AloneInit == Init => AloneInv
  BY KindsAreApart DEF Init, AloneInv, OneAtATime, MarkerMeansClosed, MarkCoversUpload,
                       SweepSparesUploads, SweepSparesTokens

LEMMA UploadKeepsAlone ==
  ASSUME Client = "alone", TypeOK, AloneInv, NEW u \in Uploads,
         UploadStart(u) \/ SampleStart(u) \/ UploadStep(u)
  PROVE  AloneInv'
  <1> USE KindsAreApart DEF diskVars, openVars, clientVars
  <1>1. CASE UploadStart(u)
    <2>1. Moves(u)
      BY <1>1, AloneSends DEF UploadStart, Moves, TypeOK, ProcessOK
    <2>2. Fits(u)
      BY <2>1, AloneFits DEF Moves
    <2>3. Fits(u)'
      BY <1>1, <2>2, AloneSends DEF UploadStart, CloseHandle, Fits, TypeOK, ProcessOK
    <2> QED
      BY <2>1, <2>3, FitIsAlone
  <1>2. CASE SampleStart(u)
    <2>1. Moves(u)
      BY <1>2, AloneSends DEF SampleStart, Moves, TypeOK, ProcessOK
    <2>2. Fits(u)
      BY <2>1, AloneFits DEF Moves
    <2>3. Fits(u)'
      BY <1>2, <2>2, AloneSends DEF SampleStart, Fits, TypeOK, ProcessOK
    <2> QED
      BY <2>1, <2>3, FitIsAlone
  <1>3. CASE UploadCleared(u)
    <2>1. Moves(u)
      BY <1>3, AloneSends DEF UploadCleared, Moves, TypeOK, ProcessOK
    <2>2. Fits(u)
      BY <2>1, AloneFits DEF Moves
    <2>3. Fits(u)'
      BY <1>3, <2>2, AloneSends DEF UploadCleared, RemoveFolder, UnlinkDb, Fits, TypeOK, ProcessOK
    <2> QED
      BY <2>1, <2>3, FitIsAlone
  <1>4. CASE UploadUnpack(u)
    <2>1. Moves(u)
      BY <1>4, AloneSends DEF UploadUnpack, Moves, TypeOK, ProcessOK
    <2>2. Fits(u)
      BY <2>1, AloneFits DEF Moves
    <2>3. Fits(u)'
      BY <1>4, <2>2, AloneSends DEF UploadUnpack, Fits, TypeOK, ProcessOK
    <2> QED
      BY <2>1, <2>3, FitIsAlone
  <1>5. CASE UploadUnpacked(u)
    <2>1. Moves(u)
      BY <1>5, AloneSends DEF UploadUnpacked, Moves, TypeOK, ProcessOK
    <2>2. Fits(u)
      BY <2>1, AloneFits DEF Moves
    <2>3. Fits(u)'
      BY <1>5, <2>2, AloneSends DEF UploadUnpacked, Fits, TypeOK, ProcessOK
    <2> QED
      BY <2>1, <2>3, FitIsAlone
  <1>6. CASE UploadFails(u)
    <2>1. Moves(u)
      BY <1>6, AloneSends DEF UploadFails, Moves, TypeOK, ProcessOK
    <2>2. Fits(u)
      BY <2>1, AloneFits DEF Moves
    <2>3. Fits(u)'
      BY <1>6, <2>2, AloneSends DEF UploadFails, Fits, TypeOK, ProcessOK
    <2> QED
      BY <2>1, <2>3, FitIsAlone
  <1>7. CASE UploadMigrate(u)
    <2>1. Moves(u)
      BY <1>7, AloneSends DEF UploadMigrate, Moves, TypeOK, ProcessOK
    <2>2. Fits(u)
      BY <2>1, AloneFits DEF Moves
    <2>3. Fits(u)'
      BY <1>7, <2>2, AloneSends DEF UploadMigrate, CloseAndUnlink, CloseHandle, HasEditDb, HasEditDbOnDisk, Fits, TypeOK, ProcessOK
    <2> QED
      BY <2>1, <2>3, FitIsAlone
  <1>8. CASE UploadCommit(u)
    <2>1. Moves(u)
      BY <1>8, AloneSends DEF UploadCommit, Moves, TypeOK, ProcessOK
    <2>2. Fits(u)
      BY <2>1, AloneFits DEF Moves
    <2>3. Fits(u)'
      BY <1>8, <2>2, AloneSends DEF UploadCommit, Fits, TypeOK, ProcessOK
    <2> QED
      BY <2>1, <2>3, FitIsAlone
  <1>9. CASE UploadEnd(u)
    <2>1. Moves(u)
      BY <1>9, AloneSends DEF UploadEnd, Moves, TypeOK, ProcessOK
    <2>2. Fits(u)
      BY <2>1, AloneFits DEF Moves
    <2>3. Fits(u)'
      BY <1>9, <2>2, AloneSends DEF UploadEnd, Fits, TypeOK, ProcessOK
    <2> QED
      BY <2>1, <2>3, FitIsAlone
  <1>10. CASE UploadCleanup(u)
    <2>1. Moves(u)
      BY <1>10, AloneSends DEF UploadCleanup, Moves, TypeOK, ProcessOK
    <2>2. Fits(u)
      BY <2>1, AloneFits DEF Moves
    <2>3. Fits(u)'
      BY <1>10, <2>2, AloneSends DEF UploadCleanup, RemoveFolder, UnlinkDb, Fits, TypeOK, ProcessOK
    <2> QED
      BY <2>1, <2>3, FitIsAlone
  <1>11. CASE UploadDropped(u)
    <2>1. Moves(u)
      BY <1>11, AloneSends DEF UploadDropped, Moves, TypeOK, ProcessOK
    <2>2. Fits(u)
      BY <2>1, AloneFits DEF Moves
    <2>3. Fits(u)'
      BY <1>11, <2>2, AloneSends DEF UploadDropped, CloseHandle, Fits, TypeOK, ProcessOK
    <2> QED
      BY <2>1, <2>3, FitIsAlone
  <1> QED
    BY <1>1, <1>2, <1>3, <1>4, <1>5, <1>6, <1>7, <1>8, <1>9, <1>10, <1>11 DEF UploadStep

LEMMA ImportKeepsAlone ==
  ASSUME Client = "alone", TypeOK, AloneInv, NEW r \in Importers,
         ImportStep(r) \/ ImportRefused(r)
  PROVE  AloneInv'
  <1>a. r \in Requests
    BY DEF Requests, Importers
  <1> USE <1>a, KindsAreApart DEF diskVars, openVars, clientVars
  <1>1. CASE ImportStart(r)
    <2>1. Moves(r)
      BY <1>1, AloneSends DEF ImportStart, Moves, TypeOK, ProcessOK
    <2>2. Fits(r)
      BY <2>1, AloneFits DEF Moves
    <2>3. Fits(r)'
      BY <1>1, <2>2, AloneSends DEF ImportStart, CloseAndUnlink, CloseHandle, Importers, Fits, TypeOK, ProcessOK
    <2> QED
      BY <2>1, <2>3, FitIsAlone
  <1>2. CASE ImportDone(r)
    <2>1. Moves(r)
      BY <1>2, AloneSends DEF ImportDone, Moves, TypeOK, ProcessOK
    <2>2. Fits(r)
      BY <2>1, AloneFits DEF Moves
    <2>3. Fits(r)'
      BY <1>2, <2>2, AloneSends DEF ImportDone, HasEditDb, Importers, Fits, TypeOK, ProcessOK
    <2> QED
      BY <2>1, <2>3, FitIsAlone
  <1>3. CASE ImportFails(r)
    <2>1. Moves(r)
      BY <1>3, AloneSends DEF ImportFails, Moves, TypeOK, ProcessOK
    <2>2. Fits(r)
      BY <2>1, AloneFits DEF Moves
    <2>3. Fits(r)'
      BY <1>3, <2>2, AloneSends DEF ImportFails, CloseHandle, Importers, Fits, TypeOK, ProcessOK
    <2> QED
      BY <2>1, <2>3, FitIsAlone
  <1>4. CASE ImportRefused(r)
    <2>1. Moves(r)
      BY <1>4, AloneSends DEF ImportRefused, Moves, TypeOK, ProcessOK
    <2>2. Fits(r)
      BY <2>1, AloneFits DEF Moves
    <2>3. Fits(r)'
      BY <1>4, <2>2, AloneSends DEF ImportRefused, Importers, Fits, TypeOK, ProcessOK
    <2> QED
      BY <2>1, <2>3, FitIsAlone
  <1> QED
    BY <1>1, <1>2, <1>3, <1>4 DEF ImportStep

LEMMA ClientKeepsAlone ==
  ASSUME Client = "alone", TypeOK, AloneInv, NEW r \in Requests,
         \/ r \in Enters /\ (Enter(r) \/ EnterImports(r))
         \/ r \in Exports /\ (ExportStart(r) \/ TokenGoesStale(r) \/ ExportEnd(r))
         \/ r \in Heartbeats /\ (HeartbeatLooks(r) \/ HeartbeatWrites(r))
  PROVE  AloneInv'
  <1> USE KindsAreApart DEF diskVars, openVars, clientVars
  <1>1. CASE Enter(r)
    <2>1. UNCHANGED <<pc, uploading, sweep, marker>>
      BY <1>1 DEF Enter
    <2>2. handle' = handle \/ (~marker /\ \A q \in Requests : pc[q] = "idle")
      BY <1>1, AloneSends DEF Enter, HasEditDb, HasEditDbOnDisk, AloneInv, MarkerMeansClosed
    <2> QED
      BY <2>1, <2>2, StillIsAlone
  <1>2. CASE r \in Enters /\ EnterImports(r)
    <2>1. Moves(r)
      BY <1>2, AloneSends DEF EnterImports, Moves, TypeOK, ProcessOK
    <2>2. Fits(r)
      BY <2>1, AloneFits DEF Moves
    <2>3. Fits(r)'
      BY <1>2, <2>2, AloneSends DEF EnterImports, HasEditDb, HasEditDbOnDisk, Fits, TypeOK, ProcessOK
    <2> QED
      BY <2>1, <2>3, FitIsAlone
  <1>3. CASE r \in Exports /\ ExportStart(r)
    <2>1. Moves(r)
      BY <1>3, AloneSends DEF ExportStart, Moves, TypeOK, ProcessOK
    <2>2. Fits(r)
      BY <2>1, AloneFits DEF Moves
    <2>3. Fits(r)'
      BY <1>3, <2>2, AloneSends DEF ExportStart, HasEditDb, HasEditDbOnDisk, Fits, TypeOK, ProcessOK
    <2> QED
      BY <2>1, <2>3, FitIsAlone
  <1>4. CASE r \in Exports /\ TokenGoesStale(r)
    <2>1. Moves(r)
      BY <1>4, AloneSends DEF TokenGoesStale, Moves, TypeOK, ProcessOK
    <2>2. Fits(r)
      BY <2>1, AloneFits DEF Moves
    <2>3. Fits(r)'
      BY <1>4, <2>2, AloneSends DEF TokenGoesStale, Fits, TypeOK, ProcessOK
    <2> QED
      BY <2>1, <2>3, FitIsAlone
  <1>5. CASE r \in Exports /\ ExportEnd(r)
    <2>1. Moves(r)
      BY <1>5, AloneSends DEF ExportEnd, Moves, TypeOK, ProcessOK
    <2>2. Fits(r)
      BY <2>1, AloneFits DEF Moves
    <2>3. Fits(r)'
      BY <1>5, <2>2, AloneSends DEF ExportEnd, Fits, TypeOK, ProcessOK
    <2> QED
      BY <2>1, <2>3, FitIsAlone
  <1>6. CASE r \in Heartbeats /\ HeartbeatLooks(r)
    <2>1. Moves(r)
      BY <1>6, AloneSends DEF HeartbeatLooks, Moves, TypeOK, ProcessOK
    <2>2. Fits(r)
      BY <2>1, AloneFits DEF Moves
    <2>3. Fits(r)'
      BY <1>6, <2>2, AloneSends DEF HeartbeatLooks, Fits, TypeOK, ProcessOK
    <2> QED
      BY <2>1, <2>3, FitIsAlone
  <1>7. CASE r \in Heartbeats /\ HeartbeatWrites(r)
    <2>1. Moves(r)
      BY <1>7, AloneSends DEF HeartbeatWrites, Moves, TypeOK, ProcessOK
    <2>2. Fits(r)
      BY <2>1, AloneFits DEF Moves
    <2>3. Fits(r)'
      BY <1>7, <2>2, AloneSends DEF HeartbeatWrites, Fits, TypeOK, ProcessOK
    <2> QED
      BY <2>1, <2>3, FitIsAlone
  <1> QED
    BY <1>1, <1>2, <1>3, <1>4, <1>5, <1>6, <1>7

LEMMA WorldKeepsAlone ==
  ASSUME Client = "alone", TypeOK, AloneInv, Sweep \/ Unlinking \/ ChildCreates \/ Age \/ Crash
  PROVE  AloneInv'
  <1> USE KindsAreApart DEF diskVars, openVars, clientVars
  <1>1. CASE SweepCollects
    BY <1>1, AloneSends
       DEF SweepCollects, Orphan, CloseHandle, AloneInv, OneAtATime, MarkerMeansClosed,
           MarkCoversUpload, SweepSparesUploads, SweepSparesTokens, TypeOK, ProcessOK
  <1>2. CASE SweepLooks
    BY <1>2, AloneSends
       DEF SweepLooks, AloneInv, OneAtATime, MarkerMeansClosed,
           MarkCoversUpload, SweepSparesUploads, SweepSparesTokens, TypeOK, ProcessOK
  <1>3. CASE SweepDecides
    BY <1>3, AloneSends
       DEF SweepDecides, SessionMutationActive, CloseHandle, AloneInv, OneAtATime, MarkerMeansClosed,
           MarkCoversUpload, SweepSparesUploads, SweepSparesTokens, TypeOK, ProcessOK
  <1>4. CASE SweepRemoves
    BY <1>4, AloneSends
       DEF SweepRemoves, RemoveFolder, UnlinkDb, AloneInv, OneAtATime, MarkerMeansClosed,
           MarkCoversUpload, SweepSparesUploads, SweepSparesTokens, TypeOK, ProcessOK
  <1>5. CASE Unlinking
    BY <1>5, AloneSends
       DEF Unlinking, RemoveEntry, UnlinkDb, AloneInv, OneAtATime, MarkerMeansClosed,
           MarkCoversUpload, SweepSparesUploads, SweepSparesTokens, TypeOK, ProcessOK
  <1>6. CASE ChildCreates
    BY <1>6, AloneSends
       DEF ChildCreates, AloneInv, OneAtATime, MarkerMeansClosed,
           MarkCoversUpload, SweepSparesUploads, SweepSparesTokens, TypeOK, ProcessOK
  <1>7. CASE Age
    BY <1>7, AloneSends
       DEF Age, AloneInv, OneAtATime, MarkerMeansClosed,
           MarkCoversUpload, SweepSparesUploads, SweepSparesTokens, TypeOK, ProcessOK
  <1>8. CASE Crash
    BY <1>8, AloneSends
       DEF Crash, CloseHandle, AloneInv, OneAtATime, MarkerMeansClosed,
           MarkCoversUpload, SweepSparesUploads, SweepSparesTokens, TypeOK, ProcessOK
  <1> QED
    BY <1>1, <1>2, <1>3, <1>4, <1>5, <1>6, <1>7, <1>8 DEF Sweep

LEMMA AloneStep ==
  ASSUME Client = "alone", TypeOK, AloneInv, [Next]_copyVars
  PROVE  AloneInv'
  <1>1. CASE \E u \in Uploads : UploadStart(u) \/ SampleStart(u) \/ UploadStep(u)
    BY <1>1, UploadKeepsAlone
  <1>2. CASE \E r \in Importers : ImportStep(r) \/ ImportRefused(r)
    BY <1>2, ImportKeepsAlone
  <1>3. CASE \E r \in Requests :
               \/ r \in Enters /\ (Enter(r) \/ EnterImports(r))
               \/ r \in Exports /\ (ExportStart(r) \/ TokenGoesStale(r) \/ ExportEnd(r))
               \/ r \in Heartbeats /\ (HeartbeatLooks(r) \/ HeartbeatWrites(r))
    BY <1>3, ClientKeepsAlone
  <1>4. CASE Exit \/ Read
    <2>1. UNCHANGED <<pc, uploading, sweep, marker>>
      BY <1>4 DEF Exit, Read
    <2>2. handle' = handle \/ (~marker /\ \A q \in Requests : pc[q] = "idle")
      BY <1>4, AloneSends DEF Exit, Read, HasEditDbOnDisk
    <2> QED
      BY <2>1, <2>2, StillIsAlone
  <1>5. CASE UNCHANGED copyVars
    BY <1>5 DEF copyVars, diskVars, openVars, AloneInv, MarkCoversUpload, SweepSparesUploads,
                SweepSparesTokens, MarkerMeansClosed, OneAtATime
  <1> QED
    BY <1>1, <1>2, <1>3, <1>4, <1>5, WorldKeepsAlone, KindsAreApart DEF Next

\* uploadInProgress is exact for a client that waits for its handler to end:
\* every way out of an upload, a crash included, takes the mark away.
THEOREM UploadMarkIsExact ==
  ASSUME Client = "alone"
  PROVE  Spec => []MarkCoversUpload
  <1>1. Init => AloneInv
    BY AloneInit
  <1>2. TypeOK /\ AloneInv /\ [Next]_copyVars => AloneInv'
    BY AloneStep
  <1>3. AloneInv => MarkCoversUpload
    BY DEF AloneInv
  <1> QED
    BY <1>1, <1>2, <1>3, WorkingCopyTypeCorrect, PTL DEF Spec

\* For such a client the sweep never removes a folder an upload or a fresh
\* mutation token holds, whatever the clock says.
THEOREM SweepSparesWork ==
  ASSUME Client = "alone"
  PROVE  Spec => [](SweepSparesUploads /\ SweepSparesTokens)
  <1>1. Init => AloneInv
    BY AloneInit
  <1>2. TypeOK /\ AloneInv /\ [Next]_copyVars => AloneInv'
    BY AloneStep
  <1>3. AloneInv => SweepSparesUploads /\ SweepSparesTokens
    BY DEF AloneInv
  <1> QED
    BY <1>1, <1>2, <1>3, WorkingCopyTypeCorrect, PTL DEF Spec
-----------------------------------------------------------------------------
(* A partial database, for the same client and crashes between removals. *)

(* A removal under way, as the only request that is anywhere sees it. *)
Leaving(r) ==
  \/ r \in Uploads /\ pc[r] \in {"clearing", "failing"}
  \/ sweep \in {"purging", "collecting"}

(* What PartialIsGuarded says of that request. *)
Guards(r) ==
  /\ child # "none" => r \in Importers /\ pc[r] = "importing"
  /\ child = "started" => marker \/ Leaving(r) \/ ~dir
  /\ child = "building" => marker \/ Leaving(r)
  /\ child = "detached" => db = None
  /\ db # None /\ db.whole = FALSE => marker \/ Leaving(r)
  /\ handle = "file" => db.whole = TRUE
  /\ handle = "gone" => ghost.whole = TRUE

LEMMA WholeIsBoolean ==
  ASSUME NEW d \in Contents
  PROVE  /\ d.whole \in BOOLEAN
         /\ \A b \in BOOLEAN : /\ [d EXCEPT !.editing = b].whole = d.whole
                              /\ [d EXCEPT !.whole = b].whole = b
  BY DEF Contents

LEMMA ServedIsWhole ==
  FileOK => (PartialNeverServed <=> /\ handle = "file" => db.whole = TRUE
                                    /\ handle = "gone" => ghost.whole = TRUE)
  <1> SUFFICES ASSUME FileOK
               PROVE  PartialNeverServed <=> /\ handle = "file" => db.whole = TRUE
                                             /\ handle = "gone" => ghost.whole = TRUE
    OBVIOUS
  <1>1. CASE handle = "none"
    BY <1>1 DEF PartialNeverServed, HasEditDb
  <1>2. CASE handle = "file"
    <2>1. db.whole \in BOOLEAN
      BY <1>2, WholeIsBoolean DEF FileOK
    <2> QED
      BY <1>2, <2>1 DEF PartialNeverServed, HasEditDb, Open
  <1>3. CASE handle = "gone"
    <2>1. ghost.whole \in BOOLEAN
      BY <1>3, WholeIsBoolean DEF FileOK
    <2> QED
      BY <1>3, <2>1 DEF PartialNeverServed, HasEditDb, Open
  <1> QED
    BY <1>1, <1>2, <1>3 DEF FileOK

LEMMA DatabaseWhole ==
  FileOK => (db # None => (~db.whole <=> db.whole = FALSE))
  BY WholeIsBoolean DEF FileOK

LEMMA GuardedFits ==
  ASSUME TypeOK, AloneInv, PartialIsGuarded, NEW r \in Requests,
         pc[r] # "idle" \/ \A q \in Requests : pc[q] = "idle"
  PROVE  Guards(r)
  <1>1. \A q \in Requests \ {r} : pc[q] = "idle"
    BY DEF AloneInv, OneAtATime
  <1>2. Removing <=> Leaving(r)
    BY <1>1 DEF Removing, Leaving, Requests
  <1>3. child # "none" => r \in Importers /\ pc[r] = "importing"
    BY <1>1 DEF PartialIsGuarded, Requests, Importers
  <1> QED
    BY <1>2, <1>3, ServedIsWhole, DatabaseWhole DEF PartialIsGuarded, Guards, TypeOK

LEMMA GuardsAll ==
  ASSUME TypeOK, TypeOK', AloneInv, NEW r \in Requests, Moves(r), Guards(r)'
  PROVE  PartialIsGuarded'
  <1>1. \A q \in Requests \ {r} : pc'[q] = "idle"
    BY DEF Moves, TypeOK, ProcessOK, AloneInv, OneAtATime
  <1>2. Removing' <=> Leaving(r)'
    BY <1>1 DEF Removing, Leaving, Requests
  <1>a. FileOK'
    BY DEF TypeOK
  <1>3. (PartialNeverServed <=> /\ handle = "file" => db.whole = TRUE
                                /\ handle = "gone" => ghost.whole = TRUE)'
    BY <1>a, ServedIsWhole, PTL
  <1>4. (db # None => (~db.whole <=> db.whole = FALSE))'
    BY <1>a, DatabaseWhole, PTL
  <1> QED
    BY <1>2, <1>3, <1>4 DEF PartialIsGuarded, Guards

LEMMA UploadKeepsGuard ==
  ASSUME Client = "alone", TypeOK, TypeOK', BuildingHasDatabase, AloneInv, PartialIsGuarded, NEW u \in Uploads,
         UploadStart(u) \/ SampleStart(u) \/ UploadStep(u)
  PROVE  PartialIsGuarded'
  <1> USE KindsAreApart DEF diskVars, openVars, clientVars
  <1>1. CASE UploadStart(u)
    <2>1. Moves(u)
      BY <1>1, AloneSends DEF UploadStart, Moves, TypeOK, ProcessOK
    <2>2. Guards(u) /\ Fits(u)
      BY <2>1, GuardedFits, AloneFits DEF Moves
    <2>3. Guards(u)'
      BY <1>1, <2>2, AloneSends
         DEF UploadStart, CloseHandle, Guards, Fits, Leaving, TypeOK, ProcessOK, FileOK
    <2> QED
      BY <2>1, <2>3, GuardsAll
  <1>2. CASE SampleStart(u)
    <2>1. Moves(u)
      BY <1>2, AloneSends DEF SampleStart, Moves, TypeOK, ProcessOK
    <2>2. Guards(u) /\ Fits(u)
      BY <2>1, GuardedFits, AloneFits DEF Moves
    <2>3. Guards(u)'
      BY <1>2, <2>2, AloneSends
         DEF SampleStart, Guards, Fits, Leaving, TypeOK, ProcessOK, FileOK
    <2> QED
      BY <2>1, <2>3, GuardsAll
  <1>3. CASE UploadCleared(u)
    <2>1. Moves(u)
      BY <1>3, AloneSends DEF UploadCleared, Moves, TypeOK, ProcessOK
    <2>2. Guards(u) /\ Fits(u)
      BY <2>1, GuardedFits, AloneFits DEF Moves
    <2>3. Guards(u)'
      BY <1>3, <2>2, AloneSends
         DEF UploadCleared, RemoveFolder, UnlinkDb, Guards, Fits, Leaving, TypeOK, ProcessOK, FileOK
    <2> QED
      BY <2>1, <2>3, GuardsAll
  <1>4. CASE UploadUnpack(u)
    <2>1. Moves(u)
      BY <1>4, AloneSends DEF UploadUnpack, Moves, TypeOK, ProcessOK
    <2>2. Guards(u) /\ Fits(u)
      BY <2>1, GuardedFits, AloneFits DEF Moves
    <2>3. Guards(u)'
      BY <1>4, <2>2, AloneSends
         DEF UploadUnpack, Guards, Fits, Leaving, TypeOK, ProcessOK, FileOK
    <2> QED
      BY <2>1, <2>3, GuardsAll
  <1>5. CASE UploadUnpacked(u)
    <2>1. Moves(u)
      BY <1>5, AloneSends DEF UploadUnpacked, Moves, TypeOK, ProcessOK
    <2>2. Guards(u) /\ Fits(u)
      BY <2>1, GuardedFits, AloneFits DEF Moves
    <2>3. Guards(u)'
      BY <1>5, <2>2, AloneSends
         DEF UploadUnpacked, Guards, Fits, Leaving, TypeOK, ProcessOK, FileOK
    <2> QED
      BY <2>1, <2>3, GuardsAll
  <1>6. CASE UploadFails(u)
    <2>1. Moves(u)
      BY <1>6, AloneSends DEF UploadFails, Moves, TypeOK, ProcessOK
    <2>2. Guards(u) /\ Fits(u)
      BY <2>1, GuardedFits, AloneFits DEF Moves
    <2>3. Guards(u)'
      BY <1>6, <2>2, AloneSends
         DEF UploadFails, Guards, Fits, Leaving, TypeOK, ProcessOK, FileOK
    <2> QED
      BY <2>1, <2>3, GuardsAll
  <1>7. CASE UploadMigrate(u)
    <2>1. Moves(u)
      BY <1>7, AloneSends DEF UploadMigrate, Moves, TypeOK, ProcessOK
    <2>2. Guards(u) /\ Fits(u)
      BY <2>1, GuardedFits, AloneFits DEF Moves
    <2>3. Guards(u)'
      BY <1>7, <2>2, AloneSends
         DEF UploadMigrate, CloseAndUnlink, CloseHandle, HasEditDb, HasEditDbOnDisk, Guards, Fits, Leaving, TypeOK, ProcessOK, FileOK
    <2> QED
      BY <2>1, <2>3, GuardsAll
  <1>8. CASE UploadCommit(u)
    <2>1. Moves(u)
      BY <1>8, AloneSends DEF UploadCommit, Moves, TypeOK, ProcessOK
    <2>2. Guards(u) /\ Fits(u)
      BY <2>1, GuardedFits, AloneFits DEF Moves
    <2>3. Guards(u)'
      BY <1>8, <2>2, AloneSends
         DEF UploadCommit, Guards, Fits, Leaving, TypeOK, ProcessOK, FileOK
    <2> QED
      BY <2>1, <2>3, GuardsAll
  <1>9. CASE UploadEnd(u)
    <2>1. Moves(u)
      BY <1>9, AloneSends DEF UploadEnd, Moves, TypeOK, ProcessOK
    <2>2. Guards(u) /\ Fits(u)
      BY <2>1, GuardedFits, AloneFits DEF Moves
    <2>3. Guards(u)'
      BY <1>9, <2>2, AloneSends
         DEF UploadEnd, Guards, Fits, Leaving, TypeOK, ProcessOK, FileOK
    <2> QED
      BY <2>1, <2>3, GuardsAll
  <1>10. CASE UploadCleanup(u)
    <2>1. Moves(u)
      BY <1>10, AloneSends DEF UploadCleanup, Moves, TypeOK, ProcessOK
    <2>2. Guards(u) /\ Fits(u)
      BY <2>1, GuardedFits, AloneFits DEF Moves
    <2>3. Guards(u)'
      BY <1>10, <2>2, AloneSends
         DEF UploadCleanup, RemoveFolder, UnlinkDb, Guards, Fits, Leaving, TypeOK, ProcessOK, FileOK
    <2> QED
      BY <2>1, <2>3, GuardsAll
  <1>11. CASE UploadDropped(u)
    <2>1. Moves(u)
      BY <1>11, AloneSends DEF UploadDropped, Moves, TypeOK, ProcessOK
    <2>2. Guards(u) /\ Fits(u)
      BY <2>1, GuardedFits, AloneFits DEF Moves
    <2>3. Guards(u)'
      BY <1>11, <2>2, AloneSends
         DEF UploadDropped, CloseHandle, Guards, Fits, Leaving, TypeOK, ProcessOK, FileOK
    <2> QED
      BY <2>1, <2>3, GuardsAll
  <1> QED
    BY <1>1, <1>2, <1>3, <1>4, <1>5, <1>6, <1>7, <1>8, <1>9, <1>10, <1>11 DEF UploadStep

(* What the child has answered, or an empty database in its place, is whole. *)
LEMMA ImportDoneKeepsGuard ==
  ASSUME TypeOK, BuildingHasDatabase, AloneInv, PartialIsGuarded,
         NEW r \in Importers, ImportDone(r)
  PROVE  Guards(r)'
  <1>a. r \in Requests
    BY DEF Requests, Importers
  <1>1. Guards(r)
    BY <1>a, GuardedFits DEF ImportDone
  <1> DEFINE imported == IF child = "building" THEN [db EXCEPT !.whole = TRUE] ELSE db
             opened == IF imported = None THEN Empty ELSE imported
  <1>2. /\ imported \in Contents \cup {None} /\ (imported = None <=> db = None)
        /\ imported # None => imported.whole = TRUE
        /\ opened \in Contents /\ opened.whole = TRUE
    <2>1. CASE child = "building"
      BY <2>1, WholeIsBoolean, StampedType DEF TypeOK, FileOK, BuildingHasDatabase
    <2>2. CASE child = "detached"
      BY <2>2, <1>1, EmptyType DEF Guards, Empty
    <2> QED
      BY <2>1, <2>2 DEF ImportDone
  <1>3. child' = "none"
    BY DEF ImportDone
  <1>4. /\ db' # None => db'.whole = TRUE
        /\ handle' = "file" => db'.whole = TRUE
        /\ handle' = "gone" => ghost'.whole = TRUE
    <2>1. CASE HasEditDb
      <3>1. /\ handle' = handle
            /\ db' = IF r \in Enters /\ handle = "file" THEN [imported EXCEPT !.editing = TRUE] ELSE imported
            /\ ghost' = IF r \in Enters /\ handle = "gone" THEN [ghost EXCEPT !.editing = TRUE] ELSE ghost
        BY <2>1 DEF ImportDone
      <3> HIDE DEF imported
      <3>2. db' # None => db'.whole = TRUE
        BY <3>1, <1>2, WholeIsBoolean DEF TypeOK, FileOK
      <3>3. handle = "file" => db' # None
        BY <3>1, <1>2, StampedType, NoneAndBound DEF TypeOK, FileOK
      <3>4. handle = "gone" => ghost'.whole = TRUE
        BY <3>1, <1>1, WholeIsBoolean DEF TypeOK, FileOK, Guards
      <3> QED
        BY <3>1, <3>2, <3>3, <3>4
    <2>2. CASE ~HasEditDb /\ dir
      <3>1. /\ handle' = "file"
            /\ db' = IF r \in Enters THEN [opened EXCEPT !.editing = TRUE] ELSE opened
        BY <2>2 DEF ImportDone
      <3> HIDE DEF opened
      <3> QED
        BY <3>1, <1>2, WholeIsBoolean
    <2>3. CASE ~HasEditDb /\ ~dir
      <3>1. db' = db /\ handle' = "none"
        BY <2>3 DEF ImportDone, openVars, HasEditDb
      <3>2. db = None
        BY <2>3 DEF TypeOK, FolderOK
      <3> QED
        BY <3>1, <3>2
    <2> QED
      BY <2>1, <2>2, <2>3
  <1> QED
    BY <1>3, <1>4 DEF Guards

LEMMA ImportKeepsGuard ==
  ASSUME Client = "alone", TypeOK, TypeOK', BuildingHasDatabase, AloneInv, PartialIsGuarded, NEW r \in Importers,
         ImportStep(r) \/ ImportRefused(r)
  PROVE  PartialIsGuarded'
  <1>a. r \in Requests
    BY DEF Requests, Importers
  <1> USE <1>a, KindsAreApart DEF diskVars, openVars, clientVars
  <1>1. CASE ImportStart(r)
    <2>1. Moves(r)
      BY <1>1, AloneSends DEF ImportStart, Moves, TypeOK, ProcessOK
    <2>2. Guards(r) /\ Fits(r)
      BY <2>1, GuardedFits, AloneFits DEF Moves
    <2>3. Guards(r)'
      BY <1>1, <2>2, AloneSends
         DEF ImportStart, CloseAndUnlink, CloseHandle, Importers, Guards, Fits, Leaving, TypeOK, ProcessOK, FileOK
    <2> QED
      BY <2>1, <2>3, GuardsAll
  <1>2. CASE ImportDone(r)
    <2>1. Moves(r)
      BY <1>2 DEF ImportDone, Moves, TypeOK, ProcessOK
    <2> QED
      BY <1>2, <2>1, ImportDoneKeepsGuard, GuardsAll
  <1>3. CASE ImportFails(r)
    <2>1. Moves(r)
      BY <1>3, AloneSends DEF ImportFails, Moves, TypeOK, ProcessOK
    <2>2. Guards(r) /\ Fits(r)
      BY <2>1, GuardedFits, AloneFits DEF Moves
    <2>3. Guards(r)'
      BY <1>3, <2>2, AloneSends
         DEF ImportFails, CloseHandle, Importers, Guards, Fits, Leaving, TypeOK, ProcessOK, FileOK
    <2> QED
      BY <2>1, <2>3, GuardsAll
  <1>4. CASE ImportRefused(r)
    <2>1. Moves(r)
      BY <1>4, AloneSends DEF ImportRefused, Moves, TypeOK, ProcessOK
    <2>2. Guards(r) /\ Fits(r)
      BY <2>1, GuardedFits, AloneFits DEF Moves
    <2>3. Guards(r)'
      BY <1>4, <2>2, AloneSends
         DEF ImportRefused, Importers, Guards, Fits, Leaving, TypeOK, ProcessOK, FileOK
    <2> QED
      BY <2>1, <2>3, GuardsAll
  <1> QED
    BY <1>1, <1>2, <1>3, <1>4 DEF ImportStep

LEMMA ClientKeepsGuard ==
  ASSUME Client = "alone", TypeOK, TypeOK', BuildingHasDatabase, AloneInv, PartialIsGuarded, NEW r \in Requests,
         \/ r \in Enters /\ EnterImports(r)
         \/ r \in Exports /\ (ExportStart(r) \/ TokenGoesStale(r) \/ ExportEnd(r))
         \/ r \in Heartbeats /\ (HeartbeatLooks(r) \/ HeartbeatWrites(r))
  PROVE  PartialIsGuarded'
  <1> USE KindsAreApart DEF diskVars, openVars, clientVars
  <1>1. CASE r \in Enters /\ EnterImports(r)
    <2>1. Moves(r)
      BY <1>1, AloneSends DEF EnterImports, Moves, TypeOK, ProcessOK
    <2>2. Guards(r) /\ Fits(r)
      BY <2>1, GuardedFits, AloneFits DEF Moves
    <2>3. Guards(r)'
      BY <1>1, <2>2, AloneSends
         DEF EnterImports, HasEditDb, HasEditDbOnDisk, Guards, Fits, Leaving, TypeOK, ProcessOK, FileOK
    <2> QED
      BY <2>1, <2>3, GuardsAll
  <1>2. CASE r \in Exports /\ ExportStart(r)
    <2>1. Moves(r)
      BY <1>2, AloneSends DEF ExportStart, Moves, TypeOK, ProcessOK
    <2>2. Guards(r) /\ Fits(r)
      BY <2>1, GuardedFits, AloneFits DEF Moves
    <2>3. Guards(r)'
      BY <1>2, <2>2, AloneSends
         DEF ExportStart, HasEditDb, HasEditDbOnDisk, Guards, Fits, Leaving, TypeOK, ProcessOK, FileOK
    <2> QED
      BY <2>1, <2>3, GuardsAll
  <1>3. CASE r \in Exports /\ TokenGoesStale(r)
    <2>1. Moves(r)
      BY <1>3, AloneSends DEF TokenGoesStale, Moves, TypeOK, ProcessOK
    <2>2. Guards(r) /\ Fits(r)
      BY <2>1, GuardedFits, AloneFits DEF Moves
    <2>3. Guards(r)'
      BY <1>3, <2>2, AloneSends
         DEF TokenGoesStale, Guards, Fits, Leaving, TypeOK, ProcessOK, FileOK
    <2> QED
      BY <2>1, <2>3, GuardsAll
  <1>4. CASE r \in Exports /\ ExportEnd(r)
    <2>1. Moves(r)
      BY <1>4, AloneSends DEF ExportEnd, Moves, TypeOK, ProcessOK
    <2>2. Guards(r) /\ Fits(r)
      BY <2>1, GuardedFits, AloneFits DEF Moves
    <2>3. Guards(r)'
      BY <1>4, <2>2, AloneSends
         DEF ExportEnd, Guards, Fits, Leaving, TypeOK, ProcessOK, FileOK
    <2> QED
      BY <2>1, <2>3, GuardsAll
  <1>5. CASE r \in Heartbeats /\ HeartbeatLooks(r)
    <2>1. Moves(r)
      BY <1>5, AloneSends DEF HeartbeatLooks, Moves, TypeOK, ProcessOK
    <2>2. Guards(r) /\ Fits(r)
      BY <2>1, GuardedFits, AloneFits DEF Moves
    <2>3. Guards(r)'
      BY <1>5, <2>2, AloneSends
         DEF HeartbeatLooks, Guards, Fits, Leaving, TypeOK, ProcessOK, FileOK
    <2> QED
      BY <2>1, <2>3, GuardsAll
  <1>6. CASE r \in Heartbeats /\ HeartbeatWrites(r)
    <2>1. Moves(r)
      BY <1>6, AloneSends DEF HeartbeatWrites, Moves, TypeOK, ProcessOK
    <2>2. Guards(r) /\ Fits(r)
      BY <2>1, GuardedFits, AloneFits DEF Moves
    <2>3. Guards(r)'
      BY <1>6, <2>2, AloneSends
         DEF HeartbeatWrites, Guards, Fits, Leaving, TypeOK, ProcessOK, FileOK
    <2> QED
      BY <2>1, <2>3, GuardsAll
  <1> QED
    BY <1>1, <1>2, <1>3, <1>4, <1>5, <1>6

(* Opening the file at gtfs.db, or stamping what is open, with nothing under way. *)
Restamps(d, e) == e = d \/ (d \in Contents /\ \E b \in BOOLEAN : e = [d EXCEPT !.editing = b])

LEMMA RestampIsAsWhole ==
  ASSUME NEW d \in Contents \cup {None}, NEW e, Restamps(d, e)
  PROVE  (d = None <=> e = None) /\ (d # None => e.whole = d.whole)
  <1>1. CASE e = d
    BY <1>1
  <1>2. CASE d \in Contents /\ \E b \in BOOLEAN : e = [d EXCEPT !.editing = b]
    <2>1. PICK b \in BOOLEAN : e = [d EXCEPT !.editing = b]
      BY <1>2
    <2>2. e \in Contents \ {None}
      BY <1>2, <2>1, StampedType
    <2>3. e.whole = d.whole
      BY <1>2, <2>1, WholeIsBoolean
    <2> QED
      BY <1>2, <2>2, <2>3, NoneAndBound
  <1> QED
    BY <1>1, <1>2 DEF Restamps

(* PartialIsGuarded, with what a request is served spelled out. *)
Guarded ==
  /\ child # "none" => \E r \in Importers : pc[r] = "importing"
  /\ child = "started" => marker \/ Removing \/ ~dir
  /\ child = "building" => marker \/ Removing
  /\ child = "detached" => db = None
  /\ db # None /\ db.whole = FALSE => marker \/ Removing
  /\ handle = "file" => db.whole = TRUE
  /\ handle = "gone" => ghost.whole = TRUE

LEMMA GuardedMeans == FileOK => (PartialIsGuarded <=> Guarded)
  BY ServedIsWhole, DatabaseWhole DEF PartialIsGuarded, Guarded

LEMMA StillIsGuarded ==
  ASSUME TypeOK, PartialIsGuarded,
         \A r \in Requests : pc[r] = "idle", sweep \notin {"purging", "collecting"},
         UNCHANGED <<pc, child, sweep, marker>>,
         handle' = handle \/ (handle' = "file" /\ ~marker /\ db # None),
         Restamps(db, db'), Restamps(ghost, ghost')
  PROVE  Guarded'
  <1>1. child = "none" /\ ~Removing
    BY DEF PartialIsGuarded, Removing, Requests, Importers
  <1>2. (db = None <=> db' = None) /\ (db # None => db'.whole = db.whole)
    BY RestampIsAsWhole DEF TypeOK, FileOK
  <1>3. (ghost = None <=> ghost' = None) /\ (ghost # None => ghost'.whole = ghost.whole)
    BY RestampIsAsWhole DEF TypeOK, FileOK
  <1>4. /\ handle = "file" => db.whole = TRUE
        /\ handle = "gone" => ghost.whole = TRUE
        /\ db # None /\ db.whole = FALSE => marker
    BY <1>1, GuardedMeans DEF Guarded, TypeOK
  <1>5. db # None => db.whole \in BOOLEAN
    BY WholeIsBoolean DEF TypeOK, FileOK
  <1>6. /\ handle' = "file" => db'.whole = TRUE
        /\ handle' = "gone" => ghost'.whole = TRUE
        /\ db' # None /\ db'.whole = FALSE => marker'
    BY <1>2, <1>3, <1>4, <1>5 DEF TypeOK, FileOK
  <1>7. child' = "none"
    BY <1>1
  <1> QED
    BY <1>6, <1>7 DEF Guarded

LEMMA OpeningKeepsGuard ==
  ASSUME Client = "alone", TypeOK, PartialIsGuarded, Exit \/ Read \/ \E r \in Enters : Enter(r)
  PROVE  Guarded'
  <1>1. UNCHANGED <<pc, child, sweep, marker>> /\ MaySend
    BY DEF Exit, Read, Enter
  <1>2. sweep \notin {"purging", "collecting"} /\ \A r \in Requests : pc[r] = "idle"
    BY <1>1, AloneSends
  <1>3. /\ handle' = handle \/ (handle' = "file" /\ ~marker /\ db # None)
        /\ Restamps(db, db') /\ Restamps(ghost, ghost')
    <2>1. CASE Exit
      BY <2>1 DEF Exit, Restamps, TypeOK, FileOK
    <2>2. CASE Read
      BY <2>2 DEF Read, HasEditDbOnDisk, Restamps
    <2>3. CASE \E r \in Enters : Enter(r)
      BY <2>3 DEF Enter, HasEditDb, HasEditDbOnDisk, Restamps, TypeOK, FileOK
    <2> QED
      BY <2>1, <2>2, <2>3
  <1> QED
    BY <1>1, <1>2, <1>3, StillIsGuarded

(* The child, the sweep, the clock, and a crash that cuts no removal. *)
LEMMA WorldKeepsGuard ==
  ASSUME CutsRemovals = FALSE, TypeOK, BuildingHasDatabase, Guarded,
         Sweep \/ Unlinking \/ ChildCreates \/ Age \/ Crash
  PROVE  Guarded'
  <1> USE DEF diskVars, openVars, clientVars, TypeOK
  <1>1. CASE SweepCollects
    BY <1>1 DEF SweepCollects, CloseHandle, Guarded, Removing
  <1>2. CASE SweepLooks
    BY <1>2 DEF SweepLooks, Guarded, Removing
  <1>3. CASE SweepDecides
    BY <1>3 DEF SweepDecides, CloseHandle, Guarded, Removing
  <1>4. CASE SweepRemoves
    BY <1>4 DEF SweepRemoves, RemoveFolder, UnlinkDb, Guarded
  <1>5. CASE Unlinking
    <2>1. UNCHANGED <<pc, sweep, dir>> /\ Removing
      BY <1>5 DEF Unlinking, RemoveEntry
    <2>2. Removing'
      BY <2>1 DEF Removing
    <2> QED
      BY <1>5, <2>1, <2>2 DEF Unlinking, RemoveEntry, UnlinkDb, Guarded, BuildingHasDatabase
  <1>6. CASE ChildCreates
    <2>1. /\ UNCHANGED <<pc, sweep, dir, marker, handle, ghost>> /\ child' = "building"
          /\ child = "started" /\ dir /\ db = None
      BY <1>6 DEF ChildCreates
    <2>2. Removing' <=> Removing
      BY <2>1 DEF Removing
    <2>3. handle # "file"
      BY <2>1 DEF FileOK
    <2> QED
      BY <2>1, <2>2, <2>3 DEF Guarded
  <1>7. CASE Age
    BY <1>7 DEF Age, Guarded, Removing
  <1>8. CASE Crash
    <2>1. ~Removing /\ child' = "none" /\ handle' = "none" /\ marker' = marker
      BY <1>8 DEF Crash, CloseHandle
    <2>2. db' # None /\ db'.whole = FALSE => marker
      <3>1. CASE child = "building"
        BY <2>1, <3>1 DEF Guarded
      <3>2. CASE child # "building"
        BY <1>8, <2>1, <3>2 DEF Crash, Guarded
      <3> QED
        BY <3>1, <3>2
    <2> QED
      BY <2>1, <2>2 DEF Guarded
  <1> QED
    BY <1>1, <1>2, <1>3, <1>4, <1>5, <1>6, <1>7, <1>8 DEF Sweep

LEMMA GuardStep ==
  ASSUME Client = "alone", CutsRemovals = FALSE, TypeOK, TypeOK', BuildingHasDatabase,
         AloneInv, PartialIsGuarded, [Next]_copyVars
  PROVE  PartialIsGuarded'
  <1>a. FileOK'
    BY DEF TypeOK
  <1>b. (PartialIsGuarded <=> Guarded)'
    BY <1>a, GuardedMeans, PTL
  <1>c. Guarded
    BY GuardedMeans DEF TypeOK
  <1>1. CASE \E u \in Uploads : UploadStart(u) \/ SampleStart(u) \/ UploadStep(u)
    BY <1>1, UploadKeepsGuard
  <1>2. CASE \E r \in Importers : ImportStep(r) \/ ImportRefused(r)
    BY <1>2, ImportKeepsGuard
  <1>3. CASE \E r \in Requests :
               \/ r \in Enters /\ EnterImports(r)
               \/ r \in Exports /\ (ExportStart(r) \/ TokenGoesStale(r) \/ ExportEnd(r))
               \/ r \in Heartbeats /\ (HeartbeatLooks(r) \/ HeartbeatWrites(r))
    BY <1>3, ClientKeepsGuard
  <1>4. CASE Exit \/ Read \/ \E r \in Enters : Enter(r)
    BY <1>4, <1>b, OpeningKeepsGuard
  <1>5. CASE Sweep \/ Unlinking \/ ChildCreates \/ Age \/ Crash
    BY <1>5, <1>b, <1>c, WorldKeepsGuard
  <1>6. CASE UNCHANGED copyVars
    BY <1>6, <1>b, <1>c DEF copyVars, diskVars, openVars, Guarded, Removing
  <1> QED
    BY <1>1, <1>2, <1>3, <1>4, <1>5, <1>6, KindsAreApart DEF Next

\* Whatever the sweep, the clock and crashes do, a client that waits for its
\* handler to end is never served a database its import has not finished, as
\* long as no crash cuts the removal of its folder.
THEOREM PartialIsServedToNobody ==
  ASSUME Client = "alone", CutsRemovals = FALSE
  PROVE  Spec => []PartialNeverServed
  <1> DEFINE Inv == WorkingCopyTypes /\ AloneInv /\ PartialIsGuarded
  <1>1. Init => Inv
    <2> SUFFICES ASSUME Init PROVE Inv
      OBVIOUS
    <2>1. PartialIsGuarded
      BY DEF Init, PartialIsGuarded, PartialNeverServed, HasEditDb
    <2> QED
      BY <2>1, AloneInit, WorkingCopyInit
  <1>2. Inv /\ [Next]_copyVars => Inv'
    <2> SUFFICES ASSUME Inv, [Next]_copyVars PROVE Inv'
      OBVIOUS
    <2>1. WorkingCopyTypes'
      BY WorkingCopyStep
    <2>2. TypeOK /\ TypeOK' /\ BuildingHasDatabase
      BY <2>1 DEF WorkingCopyTypes
    <2>3. AloneInv'
      BY <2>2, AloneStep
    <2>4. PartialIsGuarded'
      BY <2>2, GuardStep
    <2> QED
      BY <2>1, <2>3, <2>4
  <1>3. Inv => PartialNeverServed
    BY DEF PartialIsGuarded
  <1> QED
    BY <1>1, <1>2, <1>3, PTL DEF Spec
-----------------------------------------------------------------------------
(* The open handle, for the same client: nothing unlinks what it has open. *)
HandleInv ==
  /\ handle # "gone"
  /\ ~MayIdle => idle = FALSE /\ sweep \in {"rest", "collecting"}
  /\ sweep \in {"purging", "collecting"} => handle = "none" /\ \A r \in Importers : pc[r] = "idle"
  /\ \A u \in Uploads : pc[u] \notin {"idle", "saving", "committed"} => handle = "none"
  /\ \A r \in Enters : pc[r] \in {"idle", "queued", "importing"}

LEMMA HandleInit == Init => HandleInv
  BY DEF Init, HandleInv, Requests, Importers

LEMMA UploadMindsHandle ==
  ASSUME Client = "alone", TypeOK, AloneInv, HandleInv, NEW u \in Uploads,
         UploadStart(u) \/ SampleStart(u) \/ UploadStep(u)
  PROVE  HandleInv'
  <1> USE KindsAreApart
      DEF diskVars, openVars, clientVars, HandleInv, TypeOK, ProcessOK, FileOK, AloneInv, OneAtATime, SweepSparesUploads
  <1>1. CASE UploadStart(u)
    BY AloneSends, <1>1 DEF UploadStart, CloseHandle
  <1>2. CASE SampleStart(u)
    BY <1>2 DEF SampleStart, HasEditDb
  <1>3. CASE UploadCleared(u)
    BY <1>3 DEF UploadCleared, RemoveFolder, UnlinkDb
  <1>4. CASE UploadUnpack(u)
    BY <1>4 DEF UploadUnpack
  <1>5. CASE UploadUnpacked(u)
    BY <1>5 DEF UploadUnpacked
  <1>6. CASE UploadFails(u)
    BY <1>6 DEF UploadFails
  <1>7. CASE UploadMigrate(u)
    BY <1>7 DEF UploadMigrate, CloseAndUnlink, CloseHandle, HasEditDb, HasEditDbOnDisk
  <1>8. CASE UploadCommit(u)
    BY <1>8 DEF UploadCommit
  <1>9. CASE UploadEnd(u)
    BY <1>9 DEF UploadEnd
  <1>10. CASE UploadCleanup(u)
    BY <1>10 DEF UploadCleanup, RemoveFolder, UnlinkDb
  <1>11. CASE UploadDropped(u)
    BY <1>11 DEF UploadDropped, CloseHandle
  <1> QED
    BY <1>1, <1>2, <1>3, <1>4, <1>5, <1>6, <1>7, <1>8, <1>9, <1>10, <1>11 DEF UploadStep

LEMMA ImportMindsHandle ==
  ASSUME Client = "alone", TypeOK, AloneInv, HandleInv, NEW r \in Importers,
         ImportStep(r) \/ ImportRefused(r)
  PROVE  HandleInv'
  <1>a. r \in Requests /\ r \in Uploads \cup Enters
    BY DEF Requests, Importers
  <1>b. handle = "none" /\ sweep \notin {"purging", "collecting"}
    BY DEF ImportStep, ImportStart, ImportDone, ImportFails, ImportRefused, AloneInv, MarkerMeansClosed, HandleInv
  <1>c. \A q \in Requests \ {r} : pc[q] = "idle"
    BY <1>a DEF ImportStep, ImportStart, ImportDone, ImportFails, ImportRefused, AloneInv, OneAtATime
  <1> USE <1>a, <1>b, <1>c, KindsAreApart
      DEF diskVars, openVars, clientVars, HandleInv, TypeOK, ProcessOK, FileOK, Requests
  <1>1. CASE ImportStart(r)
    BY <1>1 DEF ImportStart, CloseAndUnlink, CloseHandle
  <1>2. CASE ImportDone(r)
    <2>1. \/ handle' = "none"
          \/ handle' = "file" /\ (r \in Uploads => pc'[r] = "saving")
      BY <1>2 DEF ImportDone, HasEditDb
    <2>a. r \in Enters => pc'[r] = "idle"
      BY <1>2 DEF ImportDone
    <2>2. UNCHANGED <<idle, sweep>> /\ pc' = [pc EXCEPT ![r] = pc'[r]]
      BY <1>2 DEF ImportDone
    <2> QED
      BY <2>1, <2>a, <2>2
  <1>3. CASE ImportFails(r)
    BY <1>3 DEF ImportFails, CloseHandle
  <1>4. CASE ImportRefused(r)
    BY <1>4 DEF ImportRefused
  <1> QED
    BY <1>1, <1>2, <1>3, <1>4 DEF ImportStep

LEMMA ClientMindsHandle ==
  ASSUME Client = "alone", TypeOK, HandleInv,
         \/ Exit \/ Read \/ ChildCreates
         \/ \E r \in Enters : Enter(r) \/ EnterImports(r)
         \/ \E x \in Exports : ExportStart(x) \/ TokenGoesStale(x) \/ ExportEnd(x)
         \/ \E h \in Heartbeats : HeartbeatLooks(h) \/ HeartbeatWrites(h)
  PROVE  HandleInv'
  <1> USE KindsAreApart, AloneSends
      DEF diskVars, openVars, clientVars, HandleInv, TypeOK, ProcessOK, FileOK
  <1>1. CASE Exit \/ Read \/ ChildCreates
    BY <1>1 DEF Exit, Read, ChildCreates, Requests, Importers
  <1>2. ASSUME NEW r \in Enters, Enter(r) \/ EnterImports(r) PROVE HandleInv'
    BY <1>2 DEF Enter, EnterImports, HasEditDb, Requests, Importers
  <1>3. ASSUME NEW x \in Exports, ExportStart(x) \/ TokenGoesStale(x) \/ ExportEnd(x) PROVE HandleInv'
    <2>1. \A r \in Importers : pc'[r] = pc[r]
      BY <1>3 DEF ExportStart, TokenGoesStale, ExportEnd, Requests, Importers
    <2>2. CASE ExportStart(x)
      BY <2>1, <2>2 DEF ExportStart, HasEditDb, Requests, Importers
    <2>3. CASE TokenGoesStale(x) \/ ExportEnd(x)
      BY <2>1, <2>3 DEF TokenGoesStale, ExportEnd, Importers
    <2> QED
      BY <1>3, <2>2, <2>3
  <1>4. ASSUME NEW h \in Heartbeats, HeartbeatLooks(h) \/ HeartbeatWrites(h) PROVE HandleInv'
    <2>1. \A r \in Importers : pc'[r] = pc[r]
      BY <1>4 DEF HeartbeatLooks, HeartbeatWrites, Requests, Importers
    <2>2. handle' = handle /\ sweep' = sweep /\ (idle = FALSE => idle' = FALSE)
      BY <1>4 DEF HeartbeatLooks, HeartbeatWrites
    <2> QED
      BY <2>1, <2>2 DEF Importers
  <1> QED
    BY <1>1, <1>2, <1>3, <1>4

LEMMA WorldMindsHandle ==
  ASSUME MayIdle => \A r \in Enters : pc[r] = "idle",
         TypeOK, AloneInv, HandleInv, Sweep \/ Unlinking \/ Age \/ Crash
  PROVE  HandleInv'
  <1> USE KindsAreApart DEF diskVars, openVars, clientVars, HandleInv, TypeOK, ProcessOK, FileOK
  <1>a. ~uploading => \A u \in Uploads : pc[u] = "idle"
    BY DEF AloneInv, MarkCoversUpload
  <1>1. CASE SweepCollects
    <2>1. \A r \in Importers : pc[r] = "idle"
      BY <1>1, <1>a DEF SweepCollects, Orphan, IsImporting, Importers
    <2> QED
      BY <1>1, <2>1 DEF SweepCollects, CloseHandle
  <1>2. CASE SweepLooks
    BY <1>2 DEF SweepLooks
  <1>3. CASE SweepDecides
    <2>1. MayIdle
      BY <1>3 DEF SweepDecides
    <2>2. ~uploading => \A r \in Importers : pc[r] = "idle"
      BY <2>1, <1>a DEF Importers
    <2> QED
      BY <1>3, <2>1, <2>2 DEF SweepDecides, CloseHandle
  <1>4. CASE SweepRemoves
    BY <1>4 DEF SweepRemoves, RemoveFolder, UnlinkDb
  <1>5. CASE Unlinking
    <2>1. handle = "none"
      BY <1>5 DEF Unlinking, Removing
    <2>2. handle' = "none" /\ UNCHANGED <<idle, sweep, pc>>
      BY <1>5, <2>1 DEF Unlinking, RemoveEntry, UnlinkDb
    <2> QED
      BY <2>2
  <1>6. CASE Age
    BY <1>6 DEF Age
  <1>7. CASE Crash
    BY <1>7 DEF Crash, CloseHandle, Requests, Importers
  <1> QED
    BY <1>1, <1>2, <1>3, <1>4, <1>5, <1>6, <1>7 DEF Sweep

LEMMA HandleStep ==
  ASSUME Client = "alone", MayIdle => \A r \in Enters : pc[r] = "idle",
         TypeOK, AloneInv, HandleInv, [Next]_copyVars
  PROVE  HandleInv'
  <1>1. CASE \E u \in Uploads : UploadStart(u) \/ SampleStart(u) \/ UploadStep(u)
    BY <1>1, UploadMindsHandle
  <1>2. CASE \E r \in Importers : ImportStep(r) \/ ImportRefused(r)
    BY <1>2, ImportMindsHandle
  <1>3. CASE \/ Exit \/ Read \/ ChildCreates
             \/ \E r \in Enters : Enter(r) \/ EnterImports(r)
             \/ \E x \in Exports : ExportStart(x) \/ TokenGoesStale(x) \/ ExportEnd(x)
             \/ \E h \in Heartbeats : HeartbeatLooks(h) \/ HeartbeatWrites(h)
    BY <1>3, ClientMindsHandle
  <1>4. CASE Sweep \/ Unlinking \/ Age \/ Crash
    BY <1>4, WorldMindsHandle
  <1>5. CASE UNCHANGED copyVars
    BY <1>5 DEF copyVars, diskVars, openVars, HandleInv
  <1> QED
    BY <1>1, <1>2, <1>3, <1>4, <1>5 DEF Next

\* A client that waits for its handler never works in a database removed from
\* the disk: whatever unlinks gtfs.db finds it closed.  It takes that no import
\* entered for waits in line past the folder's age limit.
THEOREM OpenHandleIsTheFile ==
  ASSUME Client = "alone", MayIdle => Enters = {}
  PROVE  Spec => []HandleIsTheFile
  <1>1. Init => AloneInv /\ HandleInv
    BY AloneInit, HandleInit
  <1>2. TypeOK /\ AloneInv /\ HandleInv /\ [Next]_copyVars => AloneInv' /\ HandleInv'
    BY AloneStep, HandleStep
  <1>3. HandleInv => HandleIsTheFile
    BY DEF HandleInv, HandleIsTheFile
  <1> QED
    BY <1>1, <1>2, <1>3, WorkingCopyTypeCorrect, PTL DEF Spec
-----------------------------------------------------------------------------
(* The feed the client was answered with, for the same client. *)

(* What an upload has on disk at each of its steps. *)
Carries(u) ==
  /\ pc[u] = "clearing" => handle = "none"
  /\ pc[u] \in {"cleared", "unpacking", "validating", "queued"} =>
       db = None /\ marker = FALSE /\ handle = "none"
  /\ pc[u] = "cleared" => csv = [v \in Uploads |-> "none"]
  /\ pc[u] = "unpacking" => dir /\ csv = [v \in Uploads |-> IF v = u THEN "part" ELSE "none"]
  /\ pc[u] \in {"validating", "queued", "importing"} =>
       dir /\ csv = [v \in Uploads |-> IF v = u THEN "all" ELSE "none"]
  /\ pc[u] = "importing" =>
       /\ child # "detached"
       /\ child = "started" => db = None
       /\ child = "building" => db.feed = u
  /\ pc[u] = "saving" => db # None /\ db.feed = u /\ db.whole = TRUE /\ marker = FALSE

Served == db # None /\ db.feed = acked /\ db.whole = TRUE /\ marker = FALSE

(* Nothing that imports or removes is under way while an answer counts. *)
AckInv ==
  /\ acked # None => Served /\ sweep \notin {"purging", "collecting"}
  /\ acked # None => \A r \in Importers : pc[r] \in {"idle", "committed"}
  /\ child # "none" => \E r \in Importers : pc[r] = "importing"
  /\ \A u \in Uploads : Carries(u)

(* What AckInv says of the only request that is anywhere. *)
Acks(r) ==
  /\ acked # None => Served /\ sweep \notin {"purging", "collecting"}
  /\ acked # None => (r \in Importers => pc[r] \in {"idle", "committed"})
  /\ child # "none" => r \in Importers /\ pc[r] = "importing"
  /\ r \in Uploads => Carries(r)

LEMMA AckedFits ==
  ASSUME AloneInv, AckInv, NEW r \in Requests, pc[r] # "idle" \/ \A q \in Requests : pc[q] = "idle"
  PROVE  Acks(r)
  <1>1. \A q \in Requests \ {r} : pc[q] = "idle"
    BY DEF AloneInv, OneAtATime
  <1>2. child # "none" => r \in Importers /\ pc[r] = "importing"
    BY <1>1 DEF AckInv, Requests, Importers
  <1> QED
    BY <1>2 DEF AckInv, Acks

LEMMA AcksAll ==
  ASSUME TypeOK, AloneInv, NEW r \in Requests, Moves(r), Acks(r)'
  PROVE  AckInv'
  <1>1. \A q \in Requests \ {r} : pc'[q] = "idle"
    BY DEF Moves, TypeOK, ProcessOK, AloneInv, OneAtATime
  <1>2. \A q \in Importers : q # r => pc'[q] = "idle"
    BY <1>1 DEF Requests, Importers
  <1>3. \A u \in Uploads : Carries(u)'
    <2> SUFFICES ASSUME NEW u \in Uploads PROVE Carries(u)'
      OBVIOUS
    <2>1. CASE u = r
      BY <2>1 DEF Acks
    <2>2. CASE u # r
      <3>1. pc'[u] = "idle"
        BY <1>2, <2>2, KindsAreApart
      <3> QED
        BY <3>1 DEF Carries
    <2> QED
      BY <2>1, <2>2
  <1>4. /\ (acked # None => Served /\ sweep \notin {"purging", "collecting"})'
        /\ acked' # None => \A q \in Importers : pc'[q] \in {"idle", "committed"}
        /\ child' # "none" => \E q \in Importers : pc'[q] = "importing"
    BY <1>2 DEF Acks
  <1> QED
    BY <1>3, <1>4 DEF AckInv

(* A step with every importer idle before and after. *)
LEMMA RestingAcks ==
  ASSUME \A r \in Importers : pc'[r] = "idle", child' = "none",
         acked' # None => Served' /\ sweep' \notin {"purging", "collecting"}
  PROVE  AckInv'
  <1>1. \A u \in Uploads : Carries(u)'
    BY DEF Carries, Importers
  <1> QED
    BY <1>1 DEF AckInv

(* The stamps leave the feed and what is in of it. *)
LEMMA StampKeepsFeed ==
  ASSUME NEW d \in Contents, NEW b \in BOOLEAN
  PROVE  /\ [d EXCEPT !.editing = b].feed = d.feed /\ [d EXCEPT !.editing = b].whole = d.whole
         /\ [d EXCEPT !.whole = b].feed = d.feed /\ [d EXCEPT !.whole = b].whole = b
  BY DEF Contents

LEMMA OneFeedOnDisk ==
  ASSUME NEW u \in Uploads, csv = [v \in Uploads |-> IF v = u THEN "all" ELSE "none"]
  PROVE  FeedOnDisk = u
  <1>1. csv[u] = "all" /\ \A v \in Uploads \ {u} : csv[v] = "none"
    OBVIOUS
  <1>2. \A v \in Uploads : csv[v] = "all" => v = u
    BY <1>1
  <1> QED
    BY <1>1, <1>2 DEF FeedOnDisk

LEMMA AckInit == Init => AckInv
  BY DEF Init, AckInv, Carries, Requests, Importers

LEMMA UploadKeepsAck ==
  ASSUME Client = "alone", TypeOK, AloneInv, AckInv, NEW u \in Uploads,
         UploadStart(u) \/ SampleStart(u) \/ UploadStep(u)
  PROVE  AckInv'
  <1> USE KindsAreApart DEF diskVars, openVars, clientVars
  <1>1. CASE UploadStart(u)
    <2>1. Moves(u)
      BY <1>1, AloneSends DEF UploadStart, Moves
    <2>2. Acks(u) /\ Fits(u)
      BY <2>1, AckedFits, AloneFits DEF Moves
    <2>3. Acks(u)'
      BY <1>1, <2>2, AloneSends
         DEF UploadStart, CloseHandle, Acks, Served, Carries, Fits, TypeOK, FolderOK, FileOK, ProcessOK
    <2> QED
      BY <2>1, <2>3, AcksAll
  <1>2. CASE SampleStart(u)
    <2>1. Moves(u)
      BY <1>2 DEF SampleStart, Moves
    <2>2. Acks(u) /\ Fits(u)
      BY <2>1, AckedFits, AloneFits DEF Moves
    <2>3. Acks(u)'
      BY <1>2, <2>2
         DEF SampleStart, HasEditDb, Acks, Served, Carries, Fits, TypeOK, FolderOK, FileOK, ProcessOK
    <2> QED
      BY <2>1, <2>3, AcksAll
  <1>3. CASE UploadCleared(u)
    <2>1. Moves(u)
      BY <1>3 DEF UploadCleared, Moves
    <2>2. Acks(u) /\ Fits(u)
      BY <2>1, AckedFits, AloneFits DEF Moves
    <2>3. Acks(u)'
      BY <1>3, <2>2
         DEF UploadCleared, RemoveFolder, UnlinkDb, Acks, Served, Carries, Fits, TypeOK, FolderOK, FileOK, ProcessOK
    <2> QED
      BY <2>1, <2>3, AcksAll
  <1>4. CASE UploadUnpack(u)
    <2>1. Moves(u)
      BY <1>4 DEF UploadUnpack, Moves
    <2>2. Acks(u) /\ Fits(u)
      BY <2>1, AckedFits, AloneFits DEF Moves
    <2>3. Acks(u)'
      BY <1>4, <2>2
         DEF UploadUnpack, Acks, Served, Carries, Fits, TypeOK, FolderOK, FileOK, ProcessOK
    <2> QED
      BY <2>1, <2>3, AcksAll
  <1>5. CASE UploadUnpacked(u)
    <2>1. Moves(u)
      BY <1>5 DEF UploadUnpacked, Moves
    <2>2. Acks(u) /\ Fits(u)
      BY <2>1, AckedFits, AloneFits DEF Moves
    <2>3. Acks(u)'
      BY <1>5, <2>2
         DEF UploadUnpacked, Acks, Served, Carries, Fits, TypeOK, FolderOK, FileOK, ProcessOK
    <2> QED
      BY <2>1, <2>3, AcksAll
  <1>6. CASE UploadFails(u)
    <2>1. Moves(u)
      BY <1>6 DEF UploadFails, Moves
    <2>2. Acks(u) /\ Fits(u)
      BY <2>1, AckedFits, AloneFits DEF Moves
    <2>3. Acks(u)'
      BY <1>6, <2>2
         DEF UploadFails, Acks, Served, Carries, Fits, TypeOK, FolderOK, FileOK, ProcessOK
    <2> QED
      BY <2>1, <2>3, AcksAll
  <1>7. CASE UploadMigrate(u)
    <2>1. Moves(u)
      BY <1>7 DEF UploadMigrate, Moves
    <2>2. Acks(u) /\ Fits(u)
      BY <2>1, AckedFits, AloneFits DEF Moves
    <2>3. Acks(u)'
      BY <1>7, <2>2
         DEF UploadMigrate, CloseAndUnlink, CloseHandle, HasEditDb, HasEditDbOnDisk, Acks, Served, Carries, Fits, TypeOK, FolderOK, FileOK, ProcessOK
    <2> QED
      BY <2>1, <2>3, AcksAll
  <1>8. CASE UploadCommit(u)
    <2>1. Moves(u)
      BY <1>8 DEF UploadCommit, Moves
    <2>2. Acks(u) /\ Fits(u)
      BY <2>1, AckedFits, AloneFits DEF Moves
    <2>3. Acks(u)'
      BY <1>8, <2>2
         DEF UploadCommit, Acks, Served, Carries, Fits, TypeOK, FolderOK, FileOK, ProcessOK
    <2> QED
      BY <2>1, <2>3, AcksAll
  <1>9. CASE UploadEnd(u)
    <2>1. Moves(u)
      BY <1>9 DEF UploadEnd, Moves
    <2>2. Acks(u) /\ Fits(u)
      BY <2>1, AckedFits, AloneFits DEF Moves
    <2>3. Acks(u)'
      BY <1>9, <2>2
         DEF UploadEnd, Acks, Served, Carries, Fits, TypeOK, FolderOK, FileOK, ProcessOK
    <2> QED
      BY <2>1, <2>3, AcksAll
  <1>10. CASE UploadCleanup(u)
    <2>1. Moves(u)
      BY <1>10 DEF UploadCleanup, Moves
    <2>2. Acks(u) /\ Fits(u)
      BY <2>1, AckedFits, AloneFits DEF Moves
    <2>3. Acks(u)'
      BY <1>10, <2>2
         DEF UploadCleanup, RemoveFolder, UnlinkDb, Acks, Served, Carries, Fits, TypeOK, FolderOK, FileOK, ProcessOK
    <2> QED
      BY <2>1, <2>3, AcksAll
  <1>11. CASE UploadDropped(u)
    <2>1. Moves(u)
      BY <1>11 DEF UploadDropped, Moves
    <2>2. Acks(u) /\ Fits(u)
      BY <2>1, AckedFits, AloneFits DEF Moves
    <2>3. Acks(u)'
      BY <1>11, <2>2
         DEF UploadDropped, CloseHandle, Acks, Served, Carries, Fits, TypeOK, FolderOK, FileOK, ProcessOK
    <2> QED
      BY <2>1, <2>3, AcksAll
  <1> QED
    BY <1>1, <1>2, <1>3, <1>4, <1>5, <1>6, <1>7, <1>8, <1>9, <1>10, <1>11 DEF UploadStep

LEMMA ImportKeepsAck ==
  ASSUME Client = "alone", TypeOK, BuildingHasDatabase, AloneInv, AckInv, NEW r \in Importers,
         ImportStep(r) \/ ImportRefused(r)
  PROVE  AckInv'
  <1>a. r \in Requests
    BY DEF Requests, Importers
  <1>b. pc[r] \in {"queued", "importing"}
    BY DEF ImportStep, ImportStart, ImportDone, ImportFails, ImportRefused
  <1>c. Acks(r) /\ Fits(r)
    BY <1>a, <1>b, AckedFits, AloneFits
  <1>d. handle = "none" /\ acked = None
    BY <1>b, <1>c DEF Acks, Fits
  <1> USE <1>a, KindsAreApart DEF diskVars, openVars, clientVars
  <1>1. CASE ImportStart(r)
    <2>1. Moves(r)
      BY <1>1 DEF ImportStart, Moves
    <2>2. Acks(r)'
      BY <1>1, <1>c, <1>d
         DEF ImportStart, CloseAndUnlink, CloseHandle, Acks, Carries, TypeOK, ProcessOK
    <2> QED
      BY <2>1, <2>2, AcksAll
  <1>2. CASE ImportDone(r)
    <2>1. Moves(r)
      BY <1>2 DEF ImportDone, Moves
    <2>2. r \in Uploads => Carries(r)'
      <3> SUFFICES ASSUME r \in Uploads PROVE Carries(r)'
        OBVIOUS
      <3>1. dir /\ child = "building" /\ db # None /\ db.feed = r
        BY <1>2, <1>c DEF ImportDone, Acks, Carries, BuildingHasDatabase
      <3>2. [db EXCEPT !.whole = TRUE] \in Contents \ {None} /\ [db EXCEPT !.whole = TRUE].feed = r
              /\ [db EXCEPT !.whole = TRUE].whole = TRUE
        BY <3>1, StampKeepsFeed, StampedType DEF TypeOK, FileOK
      <3>3. db' = [db EXCEPT !.whole = TRUE] /\ marker' = FALSE /\ pc'[r] = "saving"
        BY <1>2, <1>d, <3>1, <3>2 DEF ImportDone, HasEditDb, TypeOK, ProcessOK
      <3> QED
        BY <3>2, <3>3, NoneAndBound DEF Carries
    <2>3. acked' = None /\ child' = "none"
      BY <1>2, <1>d DEF ImportDone
    <2> QED
      BY <2>1, <2>2, <2>3, AcksAll DEF Acks
  <1>3. CASE ImportFails(r)
    <2>1. Moves(r)
      BY <1>3 DEF ImportFails, Moves
    <2>2. Acks(r)'
      BY <1>3, <1>c, <1>d
         DEF ImportFails, Acks, Carries, TypeOK, ProcessOK
    <2> QED
      BY <2>1, <2>2, AcksAll
  <1>4. CASE ImportRefused(r)
    <2>1. Moves(r)
      BY <1>4 DEF ImportRefused, Moves
    <2>2. Acks(r)'
      BY <1>4, <1>c, <1>d
         DEF ImportRefused, Acks, Carries, TypeOK, ProcessOK
    <2> QED
      BY <2>1, <2>2, AcksAll
  <1> QED
    BY <1>1, <1>2, <1>3, <1>4 DEF ImportStep

LEMMA ClientKeepsAck ==
  ASSUME Client = "alone", TypeOK, AloneInv, AckInv, NEW r \in Requests,
         \/ r \in Enters /\ EnterImports(r)
         \/ r \in Exports /\ (ExportStart(r) \/ TokenGoesStale(r) \/ ExportEnd(r))
         \/ r \in Heartbeats /\ (HeartbeatLooks(r) \/ HeartbeatWrites(r))
  PROVE  AckInv'
  <1>1. Moves(r)
    BY AloneSends
       DEF EnterImports, ExportStart, TokenGoesStale, ExportEnd, HeartbeatLooks, HeartbeatWrites, Moves
  <1>2. Acks(r)
    BY <1>1, AckedFits DEF Moves
  <1>3. r \notin Uploads
    BY KindsAreApart
  <1>4. UNCHANGED <<db, marker, child, sweep, acked>> /\ (child # "none" => pc'[r] = pc[r])
    BY <1>2, KindsAreApart
       DEF EnterImports, ExportStart, TokenGoesStale, ExportEnd, HeartbeatLooks, HeartbeatWrites,
           diskVars, openVars, clientVars, Acks
  <1>5. acked # None => (r \in Importers => pc'[r] \in {"idle", "committed"})
    BY <1>2, KindsAreApart
       DEF EnterImports, HasEditDb, HasEditDbOnDisk, Acks, Served
  <1>6. Acks(r)'
    BY <1>2, <1>3, <1>4, <1>5 DEF Acks, Served
  <1> QED
    BY <1>1, <1>6, AcksAll

(* The edit mode and the reads, with nothing under way. *)
LEMMA OpeningKeepsAck ==
  ASSUME Client = "alone", TypeOK, AckInv, Exit \/ Read \/ \E r \in Enters : Enter(r)
  PROVE  AckInv'
  <1>1. UNCHANGED <<pc, child, sweep, marker, acked>> /\ MaySend
    BY DEF Exit, Read, Enter, clientVars
  <1>2. sweep \notin {"purging", "collecting"} /\ \A r \in Importers : pc[r] = "idle"
    BY <1>1, AloneSends DEF Requests, Importers
  <1>3. child = "none"
    BY <1>2 DEF AckInv
  <1>4. Restamps(db, db')
    BY DEF Exit, Read, Enter, HasEditDb, HasEditDbOnDisk, Restamps, TypeOK, FileOK
  <1>5. acked # None => Served'
    <2> SUFFICES ASSUME acked # None PROVE Served'
      OBVIOUS
    <2>1. Served
      BY DEF AckInv
    <2>2. db' # None /\ db'.feed = db.feed /\ db'.whole = db.whole
      <3>1. CASE db' = db
        BY <2>1, <3>1 DEF Served
      <3>2. CASE db' # db
        <4>1. db \in Contents /\ \E b \in BOOLEAN : db' = [db EXCEPT !.editing = b]
          BY <1>4, <3>2 DEF Restamps
        <4>2. PICK b \in BOOLEAN : db' = [db EXCEPT !.editing = b]
          BY <4>1
        <4>3. [db EXCEPT !.editing = b] # None
          BY <4>1, StampedType
        <4> QED
          BY <4>1, <4>2, <4>3, StampKeepsFeed
      <3> QED
        BY <3>1, <3>2
    <2> QED
      BY <1>1, <2>1, <2>2 DEF Served
  <1> QED
    BY <1>1, <1>2, <1>3, <1>5, RestingAcks

(* The child, the sweep, the clock and a crash. *)
LEMMA WorldKeepsAck ==
  ASSUME TypeOK, AloneInv, AckInv, Sweep \/ Unlinking \/ ChildCreates \/ Age \/ Crash
  PROVE  AckInv'
  <1> USE DEF diskVars, openVars, clientVars
  <1>1. CASE SweepCollects \/ SweepLooks \/ SweepDecides
    <2>1. /\ UNCHANGED <<pc, child, db, dir, csv, marker>>
          /\ handle = "none" => handle' = "none"
          /\ acked' = acked \/ acked' = None
          /\ acked' # None => sweep' \notin {"purging", "collecting"}
      BY <1>1 DEF SweepCollects, SweepLooks, SweepDecides, CloseHandle
    <2> QED
      BY <2>1 DEF AckInv, Carries, Served
  <1>2. CASE SweepRemoves \/ Unlinking
    <2>1. acked = None /\ (\A u \in Uploads : pc[u] \notin
             {"cleared", "unpacking", "validating", "queued", "importing", "saving"})
      <3>1. CASE sweep \in {"purging", "collecting"}
        BY <3>1 DEF AloneInv, SweepSparesUploads, AckInv
      <3>2. CASE \E u \in Uploads : pc[u] \in {"clearing", "failing"}
        <4>1. acked = None
          BY <3>2, KindsAreApart DEF AckInv
        <4> QED
          BY <3>2, <4>1, KindsAreApart DEF AloneInv, OneAtATime
      <3> QED
        BY <1>2, <3>1, <3>2 DEF SweepRemoves, Unlinking, Removing
    <2>2. /\ UNCHANGED <<pc, acked>>
          /\ child # "none" <=> child' # "none"
          /\ handle = "none" => handle' = "none"
      BY <1>2 DEF SweepRemoves, RemoveFolder, Unlinking, RemoveEntry, UnlinkDb
    <2> QED
      BY <2>1, <2>2 DEF AckInv, Carries
  <1>3. CASE ChildCreates
    <2>1. /\ UNCHANGED <<pc, acked, dir, csv, marker, handle, sweep>>
          /\ child = "started" /\ child' = "building"
          /\ db'.feed = FeedOnDisk
      BY <1>3 DEF ChildCreates
    <2>2. acked = None
      BY <2>1 DEF AckInv
    <2>3. PICK r \in Importers : pc[r] = "importing"
      BY <2>1 DEF AckInv
    <2>4. \A u \in Uploads : u # r => pc[u] = "idle"
      BY <2>3, KindsAreApart DEF AloneInv, OneAtATime, Requests, Importers
    <2>5. r \in Uploads => FeedOnDisk = r
      BY <2>3, OneFeedOnDisk DEF AckInv, Carries
    <2>6. ASSUME NEW u \in Uploads PROVE Carries(u)'
      <3>1. CASE u = r
        <4>1. Carries(r)
          BY <3>1 DEF AckInv
        <4> QED
          BY <2>1, <2>3, <2>5, <3>1, <4>1 DEF Carries
      <3>2. CASE u # r
        BY <2>1, <2>4, <3>2 DEF Carries
      <3> QED
        BY <3>1, <3>2
    <2> QED
      BY <2>1, <2>2, <2>3, <2>6 DEF AckInv
  <1>4. CASE Age
    BY <1>4 DEF Age, AckInv, Carries, Served
  <1>5. CASE Crash
    <2>1. /\ \A r \in Importers : pc'[r] = "idle"
          /\ child' = "none" /\ sweep' = "rest" /\ UNCHANGED <<marker, acked>>
      BY <1>5 DEF Crash, Requests, Importers
    <2>2. acked # None => child = "none"
      BY DEF AckInv
    <2>3. acked # None => Served'
      BY <1>5, <2>1, <2>2 DEF Crash, AckInv, Served
    <2> QED
      BY <2>1, <2>3, RestingAcks
  <1> QED
    BY <1>1, <1>2, <1>3, <1>4, <1>5 DEF Sweep

LEMMA AckStep ==
  ASSUME Client = "alone", TypeOK, BuildingHasDatabase, AloneInv, AckInv, [Next]_copyVars
  PROVE  AckInv'
  <1>1. CASE \E u \in Uploads : UploadStart(u) \/ SampleStart(u) \/ UploadStep(u)
    BY <1>1, UploadKeepsAck
  <1>2. CASE \E r \in Importers : ImportStep(r) \/ ImportRefused(r)
    BY <1>2, ImportKeepsAck
  <1>3. CASE \E r \in Requests :
               \/ r \in Enters /\ EnterImports(r)
               \/ r \in Exports /\ (ExportStart(r) \/ TokenGoesStale(r) \/ ExportEnd(r))
               \/ r \in Heartbeats /\ (HeartbeatLooks(r) \/ HeartbeatWrites(r))
    BY <1>3, ClientKeepsAck
  <1>4. CASE Exit \/ Read \/ \E r \in Enters : Enter(r)
    BY <1>4, OpeningKeepsAck
  <1>5. CASE Sweep \/ Unlinking \/ ChildCreates \/ Age \/ Crash
    BY <1>5, WorldKeepsAck
  <1>6. CASE UNCHANGED copyVars
    BY <1>6 DEF copyVars, diskVars, openVars, clientVars, AckInv, Carries, Served
  <1> QED
    BY <1>1, <1>2, <1>3, <1>4, <1>5, <1>6, KindsAreApart DEF Next

\* The feed a client that waits for its handler was answered 200 for is the one
\* served, whole, through restarts, reads and edits, even when a crash cuts the
\* removal of its folder: until its next upload or the sweep.
THEOREM AnsweredFeedStays ==
  ASSUME Client = "alone"
  PROVE  Spec => []AckedFeedIsServed
  <1> DEFINE Inv == WorkingCopyTypes /\ AloneInv /\ AckInv
  <1>1. Init => Inv
    BY WorkingCopyInit, AloneInit, AckInit
  <1>2. Inv /\ [Next]_copyVars => Inv'
    BY WorkingCopyStep, AloneStep, AckStep DEF WorkingCopyTypes
  <1>3. Inv => AckedFeedIsServed
    BY DEF AckInv, Served, AckedFeedIsServed
  <1> QED
    BY <1>1, <1>2, <1>3, PTL DEF Spec
-----------------------------------------------------------------------------
(* Until the process first stops, for the same client: a session has its       *)
(* database, no import is entered for, and the edit mode is its stamp.         *)
DbInv ==
  /\ SessionHasDatabase
  /\ \A r \in Enters : pc[r] = "idle"
  /\ \A u \in Uploads : (pc[u] = "committed" => HasEditDbOnDisk) /\ (pc[u] = "cleaned" => ~dir)

EditInv ==
  /\ editMode = TRUE => wanted = TRUE
  /\ db # None /\ db.editing = TRUE => (editMode = TRUE /\ handle = "file") \/ Removing

CalmInv == crashes = 0 => HandleInv /\ DbInv /\ EditInv

(* What they say of an upload that is the only request anywhere. *)
Holds(u) ==
  /\ pc[u] = "idle" /\ dir /\ sweep \in {"rest", "looked"} => HasEditDbOnDisk
  /\ pc[u] = "committed" => HasEditDbOnDisk
  /\ pc[u] = "cleaned" => ~dir
  /\ editMode = TRUE => wanted = TRUE
  /\ db # None /\ db.editing = TRUE => (editMode = TRUE /\ handle = "file") \/ Leaving(u)

LEMMA AloneHolds ==
  ASSUME AloneInv, DbInv, EditInv, NEW u \in Uploads, pc[u] # "idle" \/ \A q \in Requests : pc[q] = "idle"
  PROVE  Holds(u)
  <1>1. \A q \in Requests \ {u} : pc[q] = "idle"
    BY KindsAreApart DEF AloneInv, OneAtATime
  <1>2. Removing <=> Leaving(u)
    BY <1>1 DEF Removing, Leaving, Requests
  <1>3. pc[u] = "idle" => \A v \in Uploads : pc[v] = "idle"
    BY <1>1 DEF Requests
  <1> QED
    BY <1>2, <1>3 DEF DbInv, EditInv, SessionHasDatabase, Holds

LEMMA HoldsAll ==
  ASSUME TypeOK, AloneInv, NEW u \in Uploads, Moves(u), Holds(u)'
  PROVE  DbInv' /\ EditInv'
  <1>1. \A q \in Requests \ {u} : pc'[q] = "idle"
    BY KindsAreApart DEF Moves, TypeOK, ProcessOK, AloneInv, OneAtATime
  <1>2. Removing' <=> Leaving(u)'
    BY <1>1 DEF Removing, Leaving, Requests
  <1>3. \A r \in Enters : pc'[r] = "idle"
    BY <1>1, KindsAreApart
  <1>4. \A v \in Uploads : v # u => pc'[v] = "idle"
    BY <1>1, KindsAreApart
  <1> QED
    BY <1>2, <1>3, <1>4 DEF DbInv, EditInv, SessionHasDatabase, Holds

LEMMA UploadHolds ==
  ASSUME Client = "alone", TypeOK, AloneInv, AckInv, DbInv, EditInv, NEW u \in Uploads,
         UploadStart(u) \/ SampleStart(u) \/ UploadStep(u)
  PROVE  DbInv' /\ EditInv'
  <1> USE KindsAreApart DEF diskVars, openVars, clientVars
  <1>1. CASE UploadStart(u)
    <2>1. Moves(u)
      BY <1>1, AloneSends DEF UploadStart, Moves
    <2>2. Acks(u) /\ Fits(u) /\ Holds(u)
      BY <2>1, AckedFits, AloneFits, AloneHolds DEF Moves
    <2>3. Holds(u)'
      BY <1>1, <2>2, AloneSends
         DEF UploadStart, CloseHandle, Acks, Carries, Fits, Holds, Leaving, HasEditDbOnDisk, TypeOK, FolderOK, FileOK, ProcessOK
    <2> QED
      BY <2>1, <2>3, HoldsAll
  <1>2. CASE SampleStart(u)
    <2>1. Moves(u)
      BY <1>2 DEF SampleStart, Moves
    <2>2. Acks(u) /\ Fits(u) /\ Holds(u)
      BY <2>1, AckedFits, AloneFits, AloneHolds DEF Moves
    <2>3. Holds(u)'
      BY <1>2, <2>2
         DEF SampleStart, HasEditDb, Acks, Carries, Fits, Holds, Leaving, HasEditDbOnDisk, TypeOK, FolderOK, FileOK, ProcessOK
    <2> QED
      BY <2>1, <2>3, HoldsAll
  <1>3. CASE UploadCleared(u)
    <2>1. Moves(u)
      BY <1>3 DEF UploadCleared, Moves
    <2>2. Acks(u) /\ Fits(u) /\ Holds(u)
      BY <2>1, AckedFits, AloneFits, AloneHolds DEF Moves
    <2>3. Holds(u)'
      BY <1>3, <2>2
         DEF UploadCleared, RemoveFolder, UnlinkDb, Acks, Carries, Fits, Holds, Leaving, HasEditDbOnDisk, TypeOK, FolderOK, FileOK, ProcessOK
    <2> QED
      BY <2>1, <2>3, HoldsAll
  <1>4. CASE UploadUnpack(u)
    <2>1. Moves(u)
      BY <1>4 DEF UploadUnpack, Moves
    <2>2. Acks(u) /\ Fits(u) /\ Holds(u)
      BY <2>1, AckedFits, AloneFits, AloneHolds DEF Moves
    <2>3. Holds(u)'
      BY <1>4, <2>2
         DEF UploadUnpack, Acks, Carries, Fits, Holds, Leaving, HasEditDbOnDisk, TypeOK, FolderOK, FileOK, ProcessOK
    <2> QED
      BY <2>1, <2>3, HoldsAll
  <1>5. CASE UploadUnpacked(u)
    <2>1. Moves(u)
      BY <1>5 DEF UploadUnpacked, Moves
    <2>2. Acks(u) /\ Fits(u) /\ Holds(u)
      BY <2>1, AckedFits, AloneFits, AloneHolds DEF Moves
    <2>3. Holds(u)'
      BY <1>5, <2>2
         DEF UploadUnpacked, Acks, Carries, Fits, Holds, Leaving, HasEditDbOnDisk, TypeOK, FolderOK, FileOK, ProcessOK
    <2> QED
      BY <2>1, <2>3, HoldsAll
  <1>6. CASE UploadFails(u)
    <2>1. Moves(u)
      BY <1>6 DEF UploadFails, Moves
    <2>2. Acks(u) /\ Fits(u) /\ Holds(u)
      BY <2>1, AckedFits, AloneFits, AloneHolds DEF Moves
    <2>3. Holds(u)'
      BY <1>6, <2>2
         DEF UploadFails, Acks, Carries, Fits, Holds, Leaving, HasEditDbOnDisk, TypeOK, FolderOK, FileOK, ProcessOK
    <2> QED
      BY <2>1, <2>3, HoldsAll
  <1>7. CASE UploadMigrate(u)
    <2>1. Moves(u)
      BY <1>7 DEF UploadMigrate, Moves
    <2>2. Acks(u) /\ Fits(u) /\ Holds(u)
      BY <2>1, AckedFits, AloneFits, AloneHolds DEF Moves
    <2>3. Holds(u)'
      BY <1>7, <2>2
         DEF UploadMigrate, CloseAndUnlink, CloseHandle, Acks, Carries, Fits, Holds, Leaving, HasEditDbOnDisk, TypeOK, FolderOK, FileOK, ProcessOK
    <2> QED
      BY <2>1, <2>3, HoldsAll
  <1>8. CASE UploadCommit(u)
    <2>1. Moves(u)
      BY <1>8 DEF UploadCommit, Moves
    <2>2. Acks(u) /\ Fits(u) /\ Holds(u)
      BY <2>1, AckedFits, AloneFits, AloneHolds DEF Moves
    <2>3. Holds(u)'
      BY <1>8, <2>2
         DEF UploadCommit, Acks, Carries, Fits, Holds, Leaving, HasEditDbOnDisk, TypeOK, FolderOK, FileOK, ProcessOK
    <2> QED
      BY <2>1, <2>3, HoldsAll
  <1>9. CASE UploadEnd(u)
    <2>1. Moves(u)
      BY <1>9 DEF UploadEnd, Moves
    <2>2. Acks(u) /\ Fits(u) /\ Holds(u)
      BY <2>1, AckedFits, AloneFits, AloneHolds DEF Moves
    <2>3. Holds(u)'
      BY <1>9, <2>2
         DEF UploadEnd, Acks, Carries, Fits, Holds, Leaving, HasEditDbOnDisk, TypeOK, FolderOK, FileOK, ProcessOK
    <2> QED
      BY <2>1, <2>3, HoldsAll
  <1>10. CASE UploadCleanup(u)
    <2>1. Moves(u)
      BY <1>10 DEF UploadCleanup, Moves
    <2>2. Acks(u) /\ Fits(u) /\ Holds(u)
      BY <2>1, AckedFits, AloneFits, AloneHolds DEF Moves
    <2>3. Holds(u)'
      BY <1>10, <2>2
         DEF UploadCleanup, RemoveFolder, UnlinkDb, Acks, Carries, Fits, Holds, Leaving, HasEditDbOnDisk, TypeOK, FolderOK, FileOK, ProcessOK
    <2> QED
      BY <2>1, <2>3, HoldsAll
  <1>11. CASE UploadDropped(u)
    <2>1. Moves(u)
      BY <1>11 DEF UploadDropped, Moves
    <2>2. Acks(u) /\ Fits(u) /\ Holds(u)
      BY <2>1, AckedFits, AloneFits, AloneHolds DEF Moves
    <2>3. Holds(u)'
      BY <1>11, <2>2
         DEF UploadDropped, CloseHandle, Acks, Carries, Fits, Holds, Leaving, HasEditDbOnDisk, TypeOK, FolderOK, FileOK, ProcessOK
    <2> QED
      BY <2>1, <2>3, HoldsAll
  <1> QED
    BY <1>1, <1>2, <1>3, <1>4, <1>5, <1>6, <1>7, <1>8, <1>9, <1>10, <1>11 DEF UploadStep

LEMMA ImportHolds ==
  ASSUME Client = "alone", TypeOK, BuildingHasDatabase, AloneInv, AckInv, DbInv, EditInv,
         NEW u \in Importers, ImportStep(u) \/ ImportRefused(u)
  PROVE  DbInv' /\ EditInv'
  <1>a. pc[u] \in {"queued", "importing"}
    BY DEF ImportStep, ImportStart, ImportDone, ImportFails, ImportRefused
  <1>b. u \in Uploads /\ u \in Requests
    BY <1>a DEF DbInv, Importers, Requests
  <1>c. Acks(u) /\ Fits(u) /\ Holds(u)
    BY <1>a, <1>b, AckedFits, AloneFits, AloneHolds
  <1>d. handle = "none" /\ (db # None => db.editing # TRUE)
    BY <1>a, <1>b, <1>c DEF Fits, Holds, Leaving, Importers
  <1> USE <1>b, KindsAreApart DEF diskVars, openVars, clientVars
  <1>1. CASE ImportStart(u)
    <2>1. Moves(u)
      BY <1>1 DEF ImportStart, Moves
    <2>2. Holds(u)'
      BY <1>1, <1>c, <1>d
         DEF ImportStart, CloseAndUnlink, CloseHandle, Holds, Leaving, TypeOK, ProcessOK
    <2> QED
      BY <2>1, <2>2, HoldsAll
  <1>2. CASE ImportDone(u)
    <2>1. Moves(u)
      BY <1>2 DEF ImportDone, Moves
    <2>2. dir /\ child = "building" /\ db \in Contents
      BY <1>2, <1>c DEF ImportDone, Acks, Carries, BuildingHasDatabase, TypeOK, FileOK
    <2>3. [db EXCEPT !.whole = TRUE] # None /\ [db EXCEPT !.whole = TRUE].editing = db.editing
      BY <2>2, StampedType DEF Contents
    <2>4. /\ db' = [db EXCEPT !.whole = TRUE] /\ pc'[u] = "saving"
          /\ editMode' = editMode /\ wanted' = wanted
      BY <1>2, <1>d, <2>2, <2>3 DEF ImportDone, HasEditDb, TypeOK, ProcessOK
    <2>5. db # None
      BY <2>2, NoneAndBound
    <2>6. Holds(u)'
      BY <1>c, <1>d, <2>3, <2>4, <2>5 DEF Holds
    <2> QED
      BY <2>1, <2>6, HoldsAll
  <1>3. CASE ImportFails(u)
    <2>1. Moves(u)
      BY <1>3 DEF ImportFails, Moves
    <2>2. Holds(u)'
      BY <1>3, <1>c
         DEF ImportFails, Holds, Leaving, TypeOK, ProcessOK
    <2> QED
      BY <2>1, <2>2, HoldsAll
  <1>4. CASE ImportRefused(u)
    <2>1. Moves(u)
      BY <1>4 DEF ImportRefused, Moves
    <2>2. Holds(u)'
      BY <1>4, <1>c, <1>d
         DEF ImportRefused, Holds, Leaving, TypeOK, ProcessOK
    <2> QED
      BY <2>1, <2>2, HoldsAll
  <1> QED
    BY <1>1, <1>2, <1>3, <1>4 DEF ImportStep

(* What a request finds when one may be sent. *)
LEMMA SendingFinds ==
  ASSUME Client = "alone", MaySend, TypeOK, HandleInv, DbInv, EditInv
  PROVE  /\ \A r \in Requests : pc[r] = "idle"
         /\ ~Removing
         /\ dir => HasEditDbOnDisk
         /\ db # None /\ db.editing = TRUE => editMode = TRUE /\ handle = "file"
         /\ handle # "gone"
  <1>1. sweep \in {"rest", "looked"} /\ \A r \in Requests : pc[r] = "idle"
    BY AloneSends DEF TypeOK, ProcessOK
  <1>2. ~Removing
    BY <1>1 DEF Removing, Requests
  <1>3. dir => HasEditDbOnDisk
    BY <1>1 DEF DbInv, SessionHasDatabase, Requests
  <1> QED
    BY <1>1, <1>2, <1>3 DEF EditInv, HandleInv

(* The flag, or the stamp of what it opens, says that edit mode was entered. *)
LEMMA ExportNeedsEntry ==
  ASSUME Client = "alone", TypeOK, HandleInv, DbInv, EditInv, NEW x \in Exports, ExportStart(x)
  PROVE  wanted = TRUE /\ handle' = "file"
  <1>1. db # None /\ (HasEditDb => handle = "file") /\ (editMode = TRUE => wanted = TRUE)
    BY SendingFinds DEF ExportStart, HasEditDb, HasEditDbOnDisk, TypeOK, FileOK, EditInv
  <1>2. db \in Contents /\ Open = db
    BY <1>1, SendingFinds DEF ExportStart, Open, TypeOK, FileOK
  <1>3. db.editing \in BOOLEAN /\ editMode \in BOOLEAN
    BY <1>2 DEF Contents, TypeOK, ProcessOK
  <1>4. editMode = TRUE \/ db.editing = TRUE
    BY <1>2, <1>3 DEF ExportStart
  <1> QED
    BY <1>1, <1>4, SendingFinds DEF ExportStart

LEMMA ClientHolds ==
  ASSUME Client = "alone", TypeOK, AloneInv, HandleInv, DbInv, EditInv, NEW r \in Requests,
         \/ r \in Enters /\ EnterImports(r)
         \/ r \in Exports /\ (ExportStart(r) \/ TokenGoesStale(r) \/ ExportEnd(r))
         \/ r \in Heartbeats /\ (HeartbeatLooks(r) \/ HeartbeatWrites(r))
  PROVE  DbInv' /\ EditInv'
  <1>a. ASSUME NEW h \in Requests, h \notin Uploads, h \notin Enters,
               Moves(h), UNCHANGED <<db, marker, dir, sweep, wanted>>,
               editMode' = TRUE => wanted = TRUE,
               db # None /\ db.editing = TRUE => (editMode' = TRUE /\ handle' = "file") \/ Removing
        PROVE  DbInv' /\ EditInv'
    <2>1. /\ \A u \in Uploads : pc'[u] = pc[u]
          /\ \A q \in Enters : pc'[q] = pc[q]
      BY <1>a, KindsAreApart DEF Moves, TypeOK, ProcessOK
    <2>2. Removing' <=> Removing
      BY <1>a, <2>1 DEF Removing
    <2>3. EditInv'
      BY <1>a, <2>2 DEF EditInv
    <2>4. DbInv'
      BY <1>a, <2>1 DEF DbInv, SessionHasDatabase, HasEditDbOnDisk
    <2> QED
      BY <2>3, <2>4
  <1>1. CASE r \in Enters /\ EnterImports(r)
    BY <1>1, SendingFinds DEF EnterImports
  <1>2. CASE r \in Exports /\ ExportStart(r)
    <2>1. Moves(r) /\ UNCHANGED <<db, marker, dir, sweep, wanted>> /\ editMode' = TRUE
      BY <1>2, AloneSends DEF ExportStart, Moves, clientVars
    <2>2. wanted = TRUE /\ handle' = "file"
      BY <1>2, ExportNeedsEntry
    <2> QED
      BY <1>2, <1>a, <2>1, <2>2, KindsAreApart
  <1>3. CASE r \in Exports /\ (TokenGoesStale(r) \/ ExportEnd(r))
    <2>1. Moves(r) /\ UNCHANGED <<db, marker, dir, sweep, wanted, editMode, handle>>
      BY <1>3 DEF TokenGoesStale, ExportEnd, Moves, diskVars, openVars, clientVars
    <2> QED
      BY <1>3, <1>a, <2>1, KindsAreApart DEF EditInv
  <1>4. CASE r \in Heartbeats /\ (HeartbeatLooks(r) \/ HeartbeatWrites(r))
    <2>1. Moves(r) /\ UNCHANGED <<db, marker, dir, sweep, wanted, editMode, handle>>
      BY <1>4, AloneSends DEF HeartbeatLooks, HeartbeatWrites, Moves, diskVars, openVars, clientVars
    <2>2. r \notin Enters
      BY <1>4, WorkingCopyAssumption
    <2> QED
      BY <1>4, <1>a, <2>1, <2>2, KindsAreApart DEF EditInv
  <1> QED
    BY <1>1, <1>2, <1>3, <1>4

(* The edit mode and the reads, with nothing under way: the flag and its stamp *)
(* are set and cleared together.                                               *)
LEMMA OpeningHolds ==
  ASSUME Client = "alone", TypeOK, HandleInv, DbInv, EditInv, Exit \/ Read \/ \E r \in Enters : Enter(r)
  PROVE  DbInv' /\ EditInv'
  <1>1. UNCHANGED <<pc, sweep, marker, dir>> /\ MaySend
    BY DEF Exit, Read, Enter
  <1>2. Restamps(db, db')
    BY DEF Exit, Read, Enter, HasEditDb, HasEditDbOnDisk, Restamps, TypeOK, FileOK
  <1>3. db = None <=> db' = None
    BY <1>2, RestampIsAsWhole DEF TypeOK, FileOK
  <1>4. DbInv'
    BY <1>1, <1>3 DEF DbInv, SessionHasDatabase, HasEditDbOnDisk
  <1>5. EditInv'
    <2>1. CASE Exit
      <3>1. editMode' = FALSE
        BY <2>1 DEF Exit
      <3>2. db # None => db'.editing # TRUE
        <4> SUFFICES ASSUME db # None PROVE db'.editing # TRUE
          OBVIOUS
        <4>1. CASE editMode = TRUE /\ handle = "file"
          <5>1. db \in Contents /\ db' = [db EXCEPT !.editing = FALSE]
            BY <2>1, <4>1 DEF Exit, TypeOK, FileOK
          <5> QED
            BY <5>1 DEF Contents
        <4>2. CASE ~(editMode = TRUE /\ handle = "file")
          <5>1. db' = db
            BY <2>1, <4>2 DEF Exit, TypeOK, ProcessOK
          <5> QED
            BY <4>2, <5>1, <1>1, SendingFinds
        <4> QED
          BY <4>1, <4>2
      <3> QED
        BY <1>3, <3>1, <3>2 DEF EditInv
    <2>2. CASE Read
      BY <1>1, <2>2, SendingFinds DEF Read, EditInv, clientVars
    <2>3. CASE \E r \in Enters : Enter(r)
      <3>1. editMode' = TRUE /\ wanted' = TRUE /\ handle' = "file"
        BY <1>1, <2>3, SendingFinds DEF Enter
      <3> QED
        BY <3>1 DEF EditInv
    <2> QED
      BY <2>1, <2>2, <2>3
  <1> QED
    BY <1>4, <1>5

(* The child, the sweep and the clock. *)
LEMMA WorldHolds ==
  ASSUME TypeOK, AloneInv, AckInv, HandleInv, DbInv, EditInv,
         Sweep \/ Unlinking \/ ChildCreates \/ Age
  PROVE  DbInv' /\ EditInv'
  <1> USE DEF diskVars, openVars, clientVars
  <1>1. CASE SweepCollects \/ SweepLooks \/ SweepDecides
    <2>1. /\ UNCHANGED <<pc, db, dir, marker, editMode, wanted>>
          /\ sweep \in {"rest", "looked"}
          /\ sweep' \in {"purging", "collecting"} \/ handle' = handle
      BY <1>1 DEF SweepCollects, SweepLooks, SweepDecides
    <2>2. DbInv'
      BY <2>1 DEF DbInv, SessionHasDatabase, HasEditDbOnDisk
    <2>3. EditInv'
      BY <2>1 DEF EditInv, Removing
    <2> QED
      BY <2>2, <2>3
  <1>2. CASE SweepRemoves
    <2>1. UNCHANGED <<pc, editMode, wanted>> /\ ~dir' /\ db' = None
      BY <1>2 DEF SweepRemoves, RemoveFolder, UnlinkDb
    <2>2. \A u \in Uploads : pc[u] = "idle"
      BY <1>2 DEF SweepRemoves, AloneInv, SweepSparesUploads
    <2> QED
      BY <2>1, <2>2 DEF DbInv, EditInv, SessionHasDatabase
  <1>3. CASE Unlinking
    <2>1. UNCHANGED <<pc, sweep, dir, editMode, wanted>> /\ Removing /\ (db' = db \/ db' = None)
      BY <1>3 DEF Unlinking, RemoveEntry, UnlinkDb
    <2>2. Removing'
      BY <2>1 DEF Removing
    <2>3. \A u \in Uploads : pc[u] # "committed"
      BY <2>1, KindsAreApart DEF Removing, AloneInv, OneAtATime, SweepSparesUploads
    <2>4. DbInv'
      BY <2>1, <2>3 DEF DbInv, SessionHasDatabase, Removing, TypeOK, ProcessOK
    <2> QED
      BY <2>1, <2>2, <2>4 DEF EditInv
  <1>4. CASE ChildCreates
    <2>1. UNCHANGED <<pc, sweep, dir, editMode, wanted>> /\ child # "none" /\ db'.editing = FALSE
      BY <1>4 DEF ChildCreates
    <2>2. PICK r \in Uploads : pc[r] = "importing"
      BY <2>1 DEF AckInv, DbInv, Importers
    <2>3. \A u \in Uploads : u # r => pc[u] = "idle"
      BY <2>2, KindsAreApart DEF AloneInv, OneAtATime
    <2> QED
      BY <2>1, <2>2, <2>3 DEF DbInv, EditInv, SessionHasDatabase
  <1>5. CASE Age
    BY <1>5 DEF Age, DbInv, EditInv, SessionHasDatabase, HasEditDbOnDisk, Removing
  <1> QED
    BY <1>1, <1>2, <1>3, <1>4, <1>5 DEF Sweep

LEMMA CalmInit == Init => CalmInv
  BY HandleInit DEF Init, CalmInv, DbInv, EditInv, SessionHasDatabase, Requests

LEMMA CalmStep ==
  ASSUME Client = "alone", TypeOK, BuildingHasDatabase, AloneInv, AckInv, CalmInv, [Next]_copyVars
  PROVE  CalmInv'
  <1> SUFFICES ASSUME crashes' = 0 PROVE HandleInv' /\ DbInv' /\ EditInv'
    BY DEF CalmInv
  <1>a. crashes = 0 /\ ~Crash
    <2>1. crashes \in Nat /\ (Crash => crashes' = crashes + 1)
      BY NoneAndBound DEF Crash, TypeOK, ProcessOK
    <2>2. ~Crash
      BY <2>1
    <2>3. crashes' = crashes
      BY <2>2
         DEF Next, copyVars, UploadStart, SampleStart, UploadStep, UploadCleared, UploadUnpack,
             UploadUnpacked, UploadFails, UploadMigrate, UploadCommit, UploadEnd, UploadCleanup,
             UploadDropped, ImportStep, ImportStart, ImportDone, ImportFails, ImportRefused,
             ChildCreates, Enter, EnterImports, Exit, Read, ExportStart, TokenGoesStale, ExportEnd,
             HeartbeatLooks, HeartbeatWrites, Sweep, SweepCollects, SweepLooks, SweepDecides,
             SweepRemoves, Unlinking, RemoveEntry, Age
    <2> QED
      BY <2>2, <2>3
  <1>b. HandleInv /\ DbInv /\ EditInv
    BY <1>a DEF CalmInv
  <1>c. HandleInv'
    BY <1>b, HandleStep DEF DbInv
  <1>1. CASE \E u \in Uploads : UploadStart(u) \/ SampleStart(u) \/ UploadStep(u)
    BY <1>1, <1>b, <1>c, UploadHolds
  <1>2. CASE \E r \in Importers : ImportStep(r) \/ ImportRefused(r)
    BY <1>2, <1>b, <1>c, ImportHolds
  <1>3. CASE \E r \in Requests :
               \/ r \in Enters /\ EnterImports(r)
               \/ r \in Exports /\ (ExportStart(r) \/ TokenGoesStale(r) \/ ExportEnd(r))
               \/ r \in Heartbeats /\ (HeartbeatLooks(r) \/ HeartbeatWrites(r))
    BY <1>3, <1>b, <1>c, ClientHolds
  <1>4. CASE Exit \/ Read \/ \E r \in Enters : Enter(r)
    BY <1>4, <1>b, <1>c, OpeningHolds
  <1>5. CASE Sweep \/ Unlinking \/ ChildCreates \/ Age
    BY <1>5, <1>b, <1>c, WorldHolds
  <1>6. CASE UNCHANGED copyVars
    BY <1>6, <1>b, <1>c
       DEF copyVars, diskVars, openVars, clientVars, DbInv, EditInv, SessionHasDatabase, HasEditDbOnDisk, Removing
  <1> QED
    BY <1>1, <1>2, <1>3, <1>4, <1>5, <1>6, <1>a, KindsAreApart DEF Next

LEMMA CalmAlways ==
  ASSUME Client = "alone"
  PROVE  Spec => [](WorkingCopyTypes /\ AloneInv /\ AckInv /\ CalmInv)
  <1> DEFINE Inv == WorkingCopyTypes /\ AloneInv /\ AckInv /\ CalmInv
  <1>1. Init => Inv
    BY WorkingCopyInit, AloneInit, AckInit, CalmInit
  <1>2. Inv /\ [Next]_copyVars => Inv'
    BY WorkingCopyStep, AloneStep, AckStep, CalmStep DEF WorkingCopyTypes
  <1> QED
    BY <1>1, <1>2, PTL DEF Spec

\* Until the process first stops, the session of a client that waits for its
\* handler has its database whenever no upload works on its folder and the sweep
\* has not begun: a refused or failed feed never stays as one, and no import is
\* ever entered for.
THEOREM SessionKeepsDatabase ==
  ASSUME Client = "alone"
  PROVE  Spec => [](crashes = 0 => SessionHasDatabase)
  <1>1. CalmInv => (crashes = 0 => SessionHasDatabase)
    BY DEF CalmInv, DbInv
  <1> QED
    BY <1>1, CalmAlways, PTL

(* A token is taken by its export's start and by nothing else. *)
LEMMA OnlyExportsWork ==
  ASSUME TypeOK, [Next]_copyVars, NEW x \in Exports, pc[x] = "idle", pc'[x] = "working"
  PROVE  ExportStart(x)
  <1>a. x \in Requests
    BY KindsAreApart
  <1>b. pc'[x] # pc[x]
    OBVIOUS
  <1> USE <1>a DEF TypeOK, ProcessOK
  <1>1. ~\E u \in Uploads : UploadStart(u) \/ SampleStart(u) \/ UploadStep(u)
    <2> SUFFICES ASSUME NEW u \in Uploads, UploadStart(u) \/ SampleStart(u) \/ UploadStep(u)
                 PROVE  pc'[x] = pc[x]
      BY <1>b
    <2>1. u # x
      BY KindsAreApart
    <2> QED
      BY <2>1
         DEF UploadStart, SampleStart, UploadStep, UploadCleared, UploadUnpack, UploadUnpacked, UploadFails,
             UploadMigrate, UploadCommit, UploadEnd, UploadCleanup, UploadDropped
  <1>2. ~\E r \in Importers : ImportStep(r) \/ ImportRefused(r)
    <2> SUFFICES ASSUME NEW r \in Importers, ImportStep(r) \/ ImportRefused(r)
                 PROVE  pc'[x] = pc[x]
      BY <1>b
    <2>1. r # x
      BY KindsAreApart
    <2> QED
      BY <2>1 DEF ImportStep, ImportStart, ImportDone, ImportFails, ImportRefused
  <1>3. ~\E r \in Enters : Enter(r) \/ EnterImports(r)
    BY KindsAreApart DEF Enter, EnterImports
  <1>4. ~(Exit \/ Read \/ ChildCreates \/ Sweep \/ Unlinking \/ Age \/ UNCHANGED copyVars)
    BY DEF Exit, Read, ChildCreates, Sweep, SweepCollects, SweepLooks, SweepDecides, SweepRemoves,
           Unlinking, RemoveEntry, Age, copyVars
  <1>5. ~Crash
    BY DEF Crash
  <1>6. ~\E h \in Heartbeats : HeartbeatLooks(h) \/ HeartbeatWrites(h)
    BY KindsAreApart DEF HeartbeatLooks, HeartbeatWrites
  <1>7. ~\E y \in Exports : TokenGoesStale(y) \/ ExportEnd(y)
    BY DEF TokenGoesStale, ExportEnd
  <1>8. \A y \in Exports : ExportStart(y) => y = x
    BY DEF ExportStart
  <1>9. Next
    BY <1>4
  <1> QED
    BY <1>1, <1>2, <1>3, <1>4, <1>5, <1>6, <1>7, <1>8, <1>9 DEF Next

\* Without a restart an export is let through only to such a client that entered
\* edit mode and has not left it since: flag and stamp are cleared together.
THEOREM EditsAreEntered ==
  ASSUME Client = "alone", MaxCrashes = 0
  PROVE  Spec => EditOnlyWhenEntered
  <1> DEFINE Inv == WorkingCopyTypes /\ AloneInv /\ AckInv /\ CalmInv
             Lets == \A x \in Exports : pc[x] = "idle" /\ pc'[x] = "working" => wanted
  <1>1. Inv /\ Inv' /\ [Next]_copyVars => [Lets]_copyVars
    <2> SUFFICES ASSUME Inv, [Next]_copyVars, NEW x \in Exports, pc[x] = "idle", pc'[x] = "working"
                 PROVE  wanted
      OBVIOUS
    <2>1. TypeOK /\ crashes = 0
      BY DEF WorkingCopyTypes, TypeOK, ProcessOK
    <2>2. ExportStart(x) /\ HandleInv /\ DbInv /\ EditInv
      BY <2>1, OnlyExportsWork DEF CalmInv
    <2> QED
      BY <2>1, <2>2, ExportNeedsEntry
  <1> QED
    BY <1>1, CalmAlways, PTL DEF Spec, EditOnlyWhenEntered
=============================================================================
