# GTFS Express: a TLA+ verification project

GTFS Express opens a public-transport feed (GTFS), validates it, shows it, edits
it and exports it. A web client (`GTFS-EXPRESS-WEB`) talks to one API process
(`GTFS-EXPRESS-API`), a Node event loop that keeps every session's *working copy*
(a folder with the feed's CSVs and a SQLite database) on its disk.

This directory models the parts of both whose correctness depends on the order of
things: what happens between two awaits, across a restart, in a queue, when deliveries
repeat, or when two browsers write one project. Paths below are relative to
`GTFS-EXPRESS-API/src/`, those of section 2.9 to `GTFS-EXPRESS-WEB/src/`.

## 1. The system

### 1.1 How it runs

One process, one event loop. Code between two awaits on real I/O is atomic for
every other request, and a promise resolved in a turn continues before the next
event. What really runs in parallel is: the import child
(`services/db/importChild.js`), the validator's JVM, libuv's thread pool (an
`fsp.rm` unlinks a folder's entries concurrently with the loop), and the outside
(clients, the payment provider). better-sqlite3 is synchronous: a transaction is
never interleaved. The process may be killed anywhere; SIGTERM drains for 30 s
(`app.js:379`). Memory is lost then, the folders and the accounts' database stay.

### 1.2 Components, their state and their operations

| Component | State | Operations | Hard because | Correct when |
|---|---|---|---|---|
| Session working copy (`sessionManager`, `db/connection`, `sessionAccess`, `editSession`, `uploadService`, the export's guard) | on disk: the folder, the CSVs, `gtfs.db`, `_importing`, times; in memory: open handles, edit flags, upload marks, mutation tokens | upload, sample, enter/exit/status, reads, export, heartbeat, sweep | every check is made before an await and used after it; a sweep removes beside requests; restarts lose the memory | the feed answered for is the one served; no partial database served; no work under way swept; nothing abandoned stays |
| Import queue and child (`db/feedImporter`, `db/importChild`) | `running`, `shuttingDown`, `waiting`, `current`; the marker and the database | acquire, release, importFeed, stopAll, the child's messages | hand-over without freeing, timers in line, refusals, a child killed at any point, SIGTERM | one import at a time, in order, the slot never leaked, partial databases always marked |
| Compute gate (`demand/computeGate`) | `running`, `queue` | acquire, release, the timer in line | counter against queue, timers against releases | at most N run, first come first served |
| Payment webhooks (`billing/billingService`, the billing tables of `accounts/store`) | `billing_events`, `subscriptions`; the provider's own state and its undelivered events | handleWebhook, applyEvent | events repeated, reordered, concurrent; a fetch in the middle of one; crashes | no older state over a newer one, a cancellation final, nothing paid lost |
| Validator slots (`canonicalValidatorService`) | `validatorsRunning`, `validatorQueue`, the JVMs | withValidatorSlot, the JVM's exit, its kill | its limit depends on the import queue and moves while validations wait | the JVMs fit the memory, the line never stands still |
| Shares (`shareService`) | a folder per share: the files at its root, former versions, a staging folder per version, the card `_share.json` | create, publish, open, expire, sweep, removal with the account | dozens of file operations with an await between any two, failures and stops between them, a card read long before it is written | what a link serves was validated; a version's card is its files'; what nobody can open goes |
| Accounts (`accounts/store`, `accountsController`) | the code's row, wrong codes per client, account, sessions, cookies | request a code, check it, sign out, delete, disable, purge | counts over windows that restart, on rows that are replaced, purged and deleted; sessions that end in six ways | no sequence of requests passes the limits; a code opens once; no session without an account and a browser |
| Import progress (`importProgress`) | two bounded tables of openings and of streams that wait, a held-back count per opening, four timers | begin, report, answer, leave, follow, wait, give up, evict, forget | a stream may come before or after its request; counts held back beside stages; evictions | every stream is told where its opening stands and ends |
| Web client's projects (`utils/projectStore`, web) | per browser the cached project and its sync record; per tab its timers, saves, reads, conflicts; the server's copy | edit, save, read, list, resolve, act, remove, forget, reload | several browsers and tabs, answers lost or late, a page that closes | no edit lost or overwritten in silence; what is not saved is about to be |
| Session cap (`sessionManager`, `uploadService`, `catalog/feedSessionService`) | folders on disk | the check at each way to open a session | checked before awaits | – (a comparison, not a reservation) |
| AI cost limiter (`aiCostLimiter`) | per-key counters, windows, the day's spend | check, recordSpend | check before the call, spend after | the budget holds |
| Read cache (`middleware/readCache`) | none: an ETag of the file's time and the edit log | read | the edits are written elsewhere | no stale body |
| Validator gate (`validatorGate`, `validationReportStore`) | baseline and reports | new errors against a baseline | a pure function with many cases | an export never adds errors |
| Catalogue, realtime, statistics, detail reads, plans, network, sheets, admin, mail | reads of SQL or HTTP | – | pure I/O or pure reads | – |
| Web client's pages and texts | React state, caches | – | UI | – |
| Hosted edition (`services/edit/*`, `services/workspace/*`, the transform engine's applications, the assistant) | – | – | stubs in this repository (`hostedEdition.js`) | – |

### 1.3 Interactions

The upload calls the import queue and, before it, the validator's slots, which read the
queue's `running`: the two are checked together. The sweep reads the upload marks, the
tokens, the queue's `isImporting`, the folder's times and the marker, and closes handles.
Every read and every edit goes through `ensureDbHandle`. A share's creation and its
publications run behind the compute gate, take their files from a working copy and their
verdict from the validator; an account's deletion removes its shares and its sessions.
Webhooks write the rows `licenceOf` reads to let edits through. An upload, a demo or a
published feed reports to the import progress. The web client saves projects to a
workspace server that is part of the hosted edition.

## 2. The modules

| Module | What it is |
|---|---|
| `SlotGate` | the abstract promise of an admission gate: N slots, a bounded line, first come first served |
| `ImportQueue` | `feedImporter` and `importChild`, every operation; implements `SlotGate` with one slot |
| `ValidatorSlots` | extends `ImportQueue` with the validator's slots, whose limit reads the queue |
| `ComputeGate` | `computeGate`, every operation; implements `SlotGate` with several slots |
| `Shares` | extends `ComputeGate` with what its tasks do to one share, and what happens beside it |
| `WorkingCopy` | one session's working copy and everything that changes it |
| `Billing` | the payment provider's webhook with the two tables it writes, for one account |
| `SignIn` | signing in by a code, for one address: codes, windows, account, sessions, cookies |
| `ImportProgress` | the openings' progress and the streams that follow it |
| `ProjectSync` | the web client's cache of a project and its saves |
| `LineLemmas` | lemmas about a line: a sequence that holds each member of a set once |
| `ImportSlotsProofs` | the theorems about `ImportQueue` and `ValidatorSlots` |
| `SharesProofs` | the theorems about `ComputeGate` and `Shares` |
| `WorkingCopyProofs`, `BillingProofs`, `SignInProofs`, `ImportProgressProofs`, `ProjectSyncProofs` | the theorems about the module each is named for |
| `MC*` | the constants of the instances |

The two compositions are by extension: `ValidatorSlots` is `ImportQueue`'s variables and
steps, unchanged, beside its own, `Shares` the same over `ComputeGate`; the runs check the
properties of both modules at once, the refinements of `SlotGate` among them.

An action is one turn of the event loop: what the code does from one await on real
I/O to the next. A definition marked `\* Mutation:` is no part of a model: it is a
plausible bug of the definition below it, which one of the properties catches.

### 2.1 `ImportQueue`

| State | Code |
|---|---|
| `running`, `shuttingDown`, `waiting`, `current` | the module's variables (`feedImporter.js:45-49`) |
| `child` | the forked `importChild.js`: started, building its database, with its answer, dead before its "close" |
| `db`, `marker` | per session: `gtfs.db` (none, partial, whole) and `_importing` |
| `pc` | where each request stands in `importFeed` |

`Ask` is `acquire` with its three outcomes, `Fork` and `MarkerFails` what follows the
slot, the `Child…` actions the child's messages and deaths, `Close` the close handler
with its removals and the `finally`'s `release` (the hand-over is in the same turn),
`QueueTimeout` a timer in line, `StopAll` SIGTERM, `Restart` a process that stops
anywhere, `NewFeed` an upload that clears a session's folder.

### 2.2 `ComputeGate`

`running` and `queue` are the module's variables. `Acquire`, `Release` (its loop wakes
as many as fit) and `Timeout` are the code's; the code releases by counting down and
then up again, which is why its refinement of `SlotGate`, whose hand-over never frees a
slot, is not immediate: it needs the counter to be exact.

### 2.3 `ValidatorSlots`

`validatorsRunning` and `validatorQueue` are the module's variables, `jvm` says where each
validation is. `Concurrency` is `concurrencyFor` over the container's limit, the API's heap,
the margin and the JVM's heap; `SlotsNow` is what `withValidatorSlot` compares with, one
fewer while `feedImporter` says an import runs. `Validate` takes a slot or a place in line,
`SlotEnds` is the `finally` that hands the slot over or frees it, on the JVM's exit
(`JvmExits`) or at its time limit (`JvmTimesOut`), which gives the slot back while the killed
JVM may live a moment longer (`JvmDies`). The container's limit is taken as known: without one
the code runs its ceiling of JVMs.

### 2.4 `Shares`

| State | Code |
|---|---|
| `card` | `_share.json`: the contents its versions' counts were taken from, or none readable |
| `root`, `kept`, `staging` | the feed files at the folder's root, under `versions/<n>`, under `.staging-<n>`: of each, which feed it comes from |
| `job` | where each creation or publication is, the card it read, what its counts were taken from |
| `opening` | the card each visitor's `openShare` read and will write back |
| `expired`, `token`, `owner`, `cut` | the date, whether the token was drawn, whether the account exists, whether a publication was cut in its renames |

A request computes from the gate's `Acquire` to `Finish`, and takes the steps of
`createShare` or `publishVersion`: `Start` reads the card, `MakeFolder`, `Snapshot` (what the
session holds now, any feed), `Validated` or `Refused`, the renames one by one (`MoveOld`,
`MoveNew`), the card in two steps because `writeFile` truncates first. `Fails` is the
`catch`. `Sweep`, `Expire`, `DeleteAccount`, the visitors and `Stop` happen beside it.
`Start` may come a step after the slot is given, and the staging folder's removal is one
step with the last rename.

### 2.5 `WorkingCopy`

One session is enough: every table is keyed by session, and what sessions share (the
import queue) is `ImportQueue`, here a queue that serves or refuses.

| State | Code |
|---|---|
| `dir`, `csv`, `db`, `marker`, `idle` | the folder, its CSVs, `gtfs.db`, `_importing`, and whether its effective mtime is past `SESSION_CLEANUP_AGE_MS` |
| `handle`, `ghost` | `connection.js`'s `handles`: none, the file on disk, or a file unlinked since, with what it holds |
| `editMode`, `uploading` | `editModeFlags`, `uploadInProgress` |
| `pc` | where each upload, enter, export and heartbeat is |
| `child`, `sweep`, `crashes` | the session's import child, where `cleanupOldSessions` is with the folder, how often the process stopped |
| `acked`, `wanted` | what the client was told: history for the properties |

An upload is the steps `UploadStart` (up to the removal of the former folder),
`UploadCleared`, `UploadUnpack`, `UploadUnpacked`, `UploadMigrate`, the import,
`UploadCommit`, `UploadEnd`, or `UploadFails`, `UploadCleanup`, `UploadDropped` for the
`finally` of a failed one. A removal (`fsp.rm`) takes time: other actions come between
its start and its end, and the disk changes under them. `Client` says what the session's
client does: `"alone"` one request at a time and none before the last handler has ended,
`"serial"` one at a time by their answers, `"any"` several at once.

### 2.6 `Billing`

`truth`, `now`, `emitted` and `acked` are the provider: its subscriptions, its clock, its
events and those it has had a 2xx for. `recorded` is `billing_events`, `row` the account's
row of `subscriptions`, `asking` the checkouts that await `GET /subscriptions`.
`HandleWebhook` is `handleWebhook` with `applyEvent`'s verdict (`Verdict`), in one turn
save for a checkout, which `ProviderAnswers`, `CheckoutApplies` and `CheckoutFails` take
further. The provider may deliver anything it has emitted at any time, again and again.

### 2.7 `SignIn`

| State | Code |
|---|---|
| `row` | `login_codes`' row of the address: the code, its end, its tries, the hour's sends, the day's wrong codes |
| `failed` | `login_failures`' rows of the address, one per client |
| `account`, `sessions`, `cookie` | `users`, `user_sessions`, the cookie each browser holds |
| `now` | `Date.now()`, in ticks |
| `sent`, `opened`, `tries`, `wrongAt`, `missedAt`, `sentAt` | what was sent, used and tried, and when: history |

The handlers are synchronous, so each is one action: `RequestCode` (`requestCode` with
`issueLoginCode`), `WrongCode` and `RightCode` (`verifyCode` with `verifyLoginCode`; the
right code signs in, or is turned away by a disabled account or a console it may not open,
and is spent in any case), `Logout`, `DeleteAccount`, `Disable`, `Enable`, `Purge` (the
purges any other address's sign-in runs), `Expire` (a session nobody used). A client may type
any code ever sent, or wrong digits. `DailyFailures`, `CountedIn` and `SendWindow` are the
windows' arithmetic.

### 2.8 `ImportProgress`

`order` and `entry` are the map `openings`, `waiting` and `early` the map `waiting`; an
entry's `pending` is its timer (armed, fired or none: a fired one is never reset, so its
count may be written twice, which `Words` keeps), `due` whether the interval has passed.
`Begin`, `Answer` and `Leave` are `follow`, `Report` a handler's `stage` or `counts`,
`TellHeld`, `Forget`, `GiveUp` the timers, `FollowOpening`, `Wait`, `Refuse` and `Quit` the
outcomes of `streamProgress`. `said` numbers the words of an opening, `heard` those each
stream was written.

### 2.9 `ProjectSync`

| State | Code (`utils/projectStore.js`) |
|---|---|
| `disk` | per browser, localStorage: the project, whether it names its account, its sync record (`state`, `dirty`, `rev`, `data_version`, `base`) |
| `mem` | per tab, the module's maps and sets: timers, `again`, conflicts, removed, forgotten |
| `push`, `get`, `resolve`, `list`, `del`, `act` | per tab, each request under way: sent, served, lost, and what it was sent with |
| `server` | the workspace server's copy and its `data_version`: not in this repository, modelled as the client's calls expect it |
| `edits`, `reached`, `discarded`, `fate` | which edits were made, ever kept, given up by a person: history |

A field's value is the set of the edits it reflects, so a merge that drops an edit is
visible. `StartPush` to `PushServed`/`PushStale`/`PushMissing`/`PushRefused`/`PushLost` is
`push` with its answers (`adopt`, `failed`), `Reconciled` is `reconcile`, `Refresh` and
`List` the reads, `Reload`/`Keep` the two resolutions of a conflict, `ActServed`
`adoptServerProject`, `Load` a page that closes and opens. `Events` names what happens around
the code in an instance. `resolveConflict`, `adoptServerProject`, `flushProject`,
`withVersion` and `withoutAppliedVersion` have no caller in the open edition; they are part of
the module all the same. Assumed: one choice in a conflict at a time, a project's creation is
not lost nor the page reloaded before its answer, one read of the project per tab, a project
created again has a fresh `data_version`. Left out: hash collisions of `base`, the journal,
the versions' zips and freezes, a forced save, storage refusals, and a person who reloads a
conflict whose copy another tab holds.

## 3. What the runs check

| Run | Instance | Shows |
|---|---|---|
| `import_queue` | 3 import requests (2 sessions, 2 requests share one), 2 places, 3 validations, room for 2 JVMs | one import at a time, served in order (`ImplementsGate`), its slot never leaked, a partial database always marked, nothing imported after SIGTERM; the validators' counter is the JVMs that run while the limit moves (`ValidatorsAreCounted`), they fit the container (`JvmsFit`), and everybody in either line is answered |
| `shares` | 3 requests, 1 slot, 1 place in line, 2 sound feeds and one the validator refuses, 2 files, 2 versions, 1 visitor | everything a link serves was let through by the validator, each version's card is about its own files, what nobody can open goes; the gate underneath counts right and serves in order |
| `shares_overlap` | the same with 2 slots | *violated* `ServedIsValidated`: see 6.1 |
| `wc_restart` | 1 client, 2 uploads, enter, export, heartbeat, 2 crashes | the feed answered for is on disk, whole; no partial database is served; a handle is the file |
| `wc_idle` | the same client and a folder that ages, no crash | the sweep spares tokens and still takes what is abandoned; the upload mark is exact; a refused feed leaves nothing; edit mode is the client's own |
| `wc_live` | 2 overlapping uploads, reads, exits, the sweep, 1 crash | every upload is answered, orphans are collected |
| `billing_serial` | 2 subscriptions, 7 events, 1 crash, key set | the row ends on the provider's truth, a cancellation is final, what was paid becomes a licence |
| `billing_overlap` | 1 subscription, deliveries beside a waiting checkout | *violated* `CanceledIsFinal`: see 6.2 |
| `sign_in` | 2 browsers, 4 codes, 6 ticks: two windows of 3, 2 tries a code, 2 codes an hour, 2 wrong codes a client, 3 an address | no sequence of requests, tries, purges and deletions passes twice a window's limit less one, which the windows do reach (`GuessesArePaced`); a code opens once, in order (`CodeOpensOnce`); no session is left to nobody (`SessionsAreHeld`) |
| `import_progress` | 2 openings, 2 streams, one place in each table, 2 stages, 3 words | open streams are in one table, once (`OpenStreamsAreKnown`); each is told the last word or a timer will (`FollowersAreUpToDate`); stages end on their last count; every stream ends |
| `projects_two` | 2 browsers, 2 fields, 2 edits, lost answers, the account's deletion | no edit lost, none overwritten in silence, the forgotten project stays so, every edit reaches the server or the person |
| `projects_life` | 1 tab, 1 field, 1 version, every happening but edits and the account's deletion | what is dirty has a timer or a save, whatever came between |

The passing runs restrict the outside on purpose where the code would fail without it;
section 6 says what each restriction hides and how to see it:

- `wc_restart` and `wc_idle` have one client that waits for its handler to end
  (`"alone"`): with overlapping requests, 6.4-6.6 break the properties about the feed and
  the handle. `wc_live` has no such restriction, and checks what still holds.
- `EditOnlyWhenEntered` is checked without crashes. After a restart the flag in memory is
  off although the database is stamped: `exitEditMode` stamps `'0'` only if the flag was
  set (`editSession.js:204`), so the next mutation enters edit mode again, whatever the
  comment at 203 says. `MaxCrashes = 1` in `MCWorkingCopy_idle.cfg` shows it.
- `CutsRemovals = FALSE` keeps a crash out of the middle of a removal: `fsp.rm` unlinks a
  folder's entries concurrently, and one stopped after `_importing` and before `gtfs.db`
  leaves a partial database that `hasEditDbOnDisk` takes for a working copy. `TRUE` in
  `MCWorkingCopy_restart.cfg` shows it.
- `billing_serial` has deliveries that do not overlap a checkout's question
  (`Overlap = FALSE`, else 6.2), changes at distinct seconds (`SameSecond = FALSE`: equal
  times are applied in the order they come, so the later of two may lose) and a
  subscription bought once the former's events are through (`LateEvents = FALSE`:
  `created` and checkouts skip the "superseded" check, so a late one of a former
  subscription overwrites a newer row that is not entitled).
- `shares` has one slot, so that publications of the share do not overlap, and
  `Apart = TRUE`: a visitor, an expiry or an account's deletion does not come in the middle
  of a publication (6.7).
- `projects_two` and `projects_life` choose their `Events` around 6.10-6.15.

## 4. Bounds and fairness

| Bound | Why it is enough |
|---|---|
| 3 import requests, `QueueMax = 2` | one imports, one waits (a timer or SIGTERM may hit it), one is refused; 2 of a session, 1 of another |
| 3 validations, 2 JVMs at most, 1 beside an import | two run when the limit falls to one, a third waits and is handed a slot while it is low or high |
| 3 share requests, 1 slot, 1 place | one works, one waits, one is refused; a creation and a publication, or two publications, follow each other |
| 2 files, 2 versions | a rename may stop between two files; a second version is the first that moves a former one. `MaxVersions = 3` passes too (7,089,314 states), but takes longer than a run here should |
| 2 uploads, 1 of each other request | an overlap or a retry needs two; the other requests change one flag or one token each |
| `MaxCrashes` 2, 1, 0 | two for a crash that meets what an earlier one left; the liveness run needs one |
| 7 events, 2 subscriptions | two subscriptions, each bought with its checkout (two events each), and three more changes: enough for a cancellation, its late "updated", and a second subscription |
| `MaxTime = 6` with windows of 3, `MaxCodes = 4` | two whole windows end to end and what is between; more codes than an hour's sends, so that a window must start again; the bounds of `GuessesArePaced`, twice a limit less one, are reached |
| 1 place per table, 2 ids, 2 streams, 3 words | each table evicts, refuses and serves; a word goes out, is held back, is followed by a stage |
| 2 edits, of all browsers together; `MaxDataVersion = 3`, `MaxRev = 2` | one edit in each browser, or two in one across a save; a creation and two saves. `EveryEditSettles` lets go at the last `data_version`, where the server of the model refuses all |
| `MaxAsked = 1` | one read, list, act or resolution of a tab under way beside its save |

The clock is a flag (`idle`, `expired`, `due`), the provider's seconds or `SignIn`'s ticks; an
age limit of a working copy never fires while a request shorter than it runs. Only `sign_in`
uses symmetry (its browsers; it checks no liveness). Bounds are guards or constants named
`Max…`; the runs that only stop at them say `CHECK_DEADLOCK FALSE` (`projects_*`,
`billing_*`; and `import_progress`, where everything may have ended).

Fairness, all weak unless said:

- a handler goes on after its I/O (`UploadStep`, `Fork`, the compute gate's `Release`, a
  share's `Works`): the event loop runs every continuation, and every computation ends;
- an import's child ends by itself or is killed at its time limit (`feedImporter.js:125`), and
  its "close" is delivered; a JVM ends by itself or by its timer
  (`canonicalValidatorService.js:590`);
- a request in `WorkingCopy`'s queue is served or refused at `QUEUE_WAIT_MS`; in `ImportQueue`
  itself the timers are *not* fair: the line moves without them;
- the sweeps come every 30 minutes (`sessionManager.js`'s interval) and every 6 hours
  (`shareService.js:372`). The latter is strongly fair: creations of the share may make its
  leftovers readable or take them away again and again, but the interval goes on;
- the provider delivers each event until its 2xx and answers one question of many: strong
  fairness of `Deliver` and `CheckoutApplies`, since a failure or a wait may disable them again
  and again. A webhook's provider retries for days;
- `ImportProgress`'s timers go off; nothing is asked of a request or of a client;
- in `ProjectSync` a save's timer goes off, and of the saves tried again and again one is
  served and one answer arrives: strong fairness of the server and of the answers, for the
  same reason as the provider's. The code retries for as long as the page is open
  (`projectStore.js:606-608`).

Nothing makes a client send, a person edit or choose, an export end, or the process stop.

## 5. What is proved

TLAPS proves these for every value of the constants allowed by the modules' assumptions.

| Theorem | Says |
|---|---|
| `ImportsTypeCorrect`, `ImportSlotNeverLeaks`, `PartialDatabaseIsMarked`, `ShutdownStopsEveryImport` | `TypeOK`, `SlotNeverLeaks`, `PartialIsMarked`, `ShutdownStopsImports` of `ImportQueue` |
| `QueueImplementsGate` | `ImportQueue` implements `SlotGate` with one slot and `QueueMax - 1` places |
| `ValidatorsLeaveImportsAlone`, `ImportSlotNeverLeaksBeside` | the composition implements `ImportQueue`, so `SlotNeverLeaks` (and the rest) holds beside the validators |
| `ValidatorCounterIsExact`, `ValidatorsFitTheContainer` | `ValidatorsAreCounted`, `JvmsFit` of `ValidatorSlots`, for any memory |
| `GateTypeCorrect`, `GateCounterIsExact` | `TypeOK`, `CounterIsExact` of `ComputeGate` |
| `ComputeGateImplementsGate` | `ComputeGate` implements `SlotGate` with `MaxRunning` slots |
| `SharesLeaveTheGateAlone`, `GateIsExactAroundShares`, `SharesAreServedInOrder` | `Shares` implements `ComputeGate`, so `CounterIsExact` and `ImplementsGate` hold around a share's requests |
| `LinksServeWhatPassed` | `ServedIsValidated` of `Shares`, given a gate of one slot |
| `VersionsStayTheirCards` | `VersionsAreTheirCards` of `Shares`, given one slot and `Apart = TRUE` |
| `WorkingCopyTypeCorrect` | `TypeOK` of `WorkingCopy`, whatever the client does |
| `UploadMarkIsExact`, `SweepSparesWork` | `MarkCoversUpload` and `SweepSparesTokens` of `WorkingCopy`, given a client that waits (`Client = "alone"`) |
| `PartialIsServedToNobody` | `PartialNeverServed` of `WorkingCopy`, given the same client and no crash that cuts a removal (`CutsRemovals = FALSE`) |
| `OpenHandleIsTheFile` | `HandleIsTheFile` of `WorkingCopy`, given the same client and, when the folder may age, no import to enter for (`MayIdle => Enters = {}`) |
| `AnsweredFeedStays` | `AckedFeedIsServed` of `WorkingCopy`, given the same client, crashes that cut removals included |
| `SessionKeepsDatabase` | `SessionHasDatabase` of `WorkingCopy` until the first crash, given the same client |
| `EditsAreEntered` | `EditOnlyWhenEntered` of `WorkingCopy`, given the same client and no crash |
| `CancellationIsFinal` | `CanceledIsFinal` of `Billing`, given the key and no overlap |
| `LicenceSettlesOnTruth` | `SettledIsTruth` of `Billing`, given the same, `SameSecond = FALSE` and `LateEvents = FALSE` |
| `SignInTypeCorrect`, `CodesOpenOnce`, `SessionsHaveHolders`, `GuessesStayPaced` | `TypeOK`, `CodeOpensOnce`, `SessionsAreHeld`, `GuessesArePaced` of `SignIn`, for any limits, windows and number of clients |
| `ProgressTypeCorrect`, `StreamsStayKnown`, `FollowersStayUpToDate`, `StagesEndComplete` | `TypeOK`, `OpenStreamsAreKnown`, `FollowersAreUpToDate`, `StagesEndOnTheirLastCount` of `ImportProgress`, for any tables |
| `ProjectTypeCorrect`, `DirtyStaysScheduled` | `TypeOK`, `DirtyIsScheduled` of `ProjectSync`, for any tabs, browsers and `Events` |
| `CopiesStayReached` | whatever happens, a copy of the server's that a client holds carries only edits the server kept |
| `EditsAreNeverLost` | `NoEditIsLost` of `ProjectSync`, given `LossRegime` |
| `WritesDropNothing`, `ForgottenIsNotBroughtBack` | `NoSilentOverwrite`, `ForgottenStaysForgotten` of `ProjectSync`, given `OnlySaves` |

*Import queue.* None of its invariants is inductive. `SlotNeverLeaks` needs `LineIsExact`
(the line holds each waiting request once): a hand-over to a request that is not waiting
would give it a second slot. `PartialIsMarked` needs `CurrentIsImporting`: the child
writes only in a session whose marker stands. `InductiveInv` joins them;
`ImportsKeepInductiveInv` has one lemma per action. `Close` and `MarkerFails` give the
slot back and share `ReleaseProperties`. The refinement maps `holders` to the requests
granted or importing and `line` to `waiting`; `Ask`, the hand-over, the timers, `StopAll`
and `Restart` become `Enter`/`Join`, `HandOver`/`Leave`, `GiveUp`, `Dismiss`, `Reset`, the
others stutter.

*Validator slots.* The counter is compared with a limit that an import moves, so the
invariant is not "running at most the limit": it joins `ValidatorsTypeOK` (the counter never
passes what the container holds), `ValidatorQueueIsExact` (the line holds each waiting
validation once, so a hand-over starts one JVM and no other) and `ValidatorsAreCounted`, whose
second part says that somebody waits only behind as many JVMs as an import would leave. The
counting rests on `FiniteSetTheorems`; `JvmsFit` then is arithmetic on `Concurrency`. Every
step of the composition is a step of `ImportQueue` or leaves it alone, which gives its
theorems for nothing.

*Compute gate.* `CounterIsExact` counts a set (`running = Cardinality(Computing)`), so it
rests on `FiniteSetTheorems` and on the set of tasks being finite. The lemma
`ReleaseHandsOver` shows that the release's loop wakes exactly one task when the line is
not empty, and the refinement follows.

*Shares.* `ServedIsValidated` says nothing of a share without a card, which its sweep may find
unreadable, a crash may leave in the middle of a rename, and an opening may bring back with a
card it read long before. `SharesInv` therefore speaks of `Shared`: a card exists, or a job or
a visitor still has one in hand. While it does, the root's files passed and no creation is under
way, since the token is drawn once (`SharedIsSound`); former versions always passed
(`KeptIsSound`), and so did what a publication renames (`MovedIsSound`). A refusal, a cut
rename or a removal may then leave any mixture, and every file of it passed. `OneComputes`, from
the gate's `CounterIsExact`, gives that one job works at a time: with two slots
another's snapshot replaces the files of the staging folder after the verdict (6.1). Nothing
is assumed of what happens beside a publication (`Apart` may be false).

`VersionsAreTheirCards` is about values, not only about a verdict: it follows every file through
a publication's renames. `PublicationMatches` says, for each stage of a job, where the files of
the version that goes and of the one that comes are: while the old ones are moved each file is at
the root or already under its number, while the new ones are moved each is still in the staging
folder or already at the root. A failure at any of these steps leaves what the next sweep or
publication finds, and after a cut (`cut`) nothing is claimed. Here both hypotheses are needed:
with two slots or with an opening beside a publication the property fails (6.1, 6.7).

*Working copy.* `TypeOK` says which parts of the state fit together (no file is open at
`gtfs.db` without one there, nothing is in a folder that is gone) and is inductive only
with `BuildingHasDatabase`: whatever removes the database also takes it from the child
that builds it. For the client that waits, `AloneInv` joins the mark and the sweep's
properties with `OneAtATime` and `MarkerMeansClosed` (beside the marker nothing is open
and no export runs). With one request anywhere, each invariant is a statement about that
request (`Fits`, `Guards`), which is what each action's step proves. `PartialIsGuarded`
says why a partial database is not served: it has its marker or is being removed, and the
child that writes it has its requester waiting. Both assumptions are needed: with
`"any"`, an upload's removal unlinks the marker of an import that runs beside it, and a read
opens what the child has written so far; a cut removal leaves a partial database without its
marker (section 3).

For the same client, three more. `HandleInv` says when nothing may be open: from the moment an
upload clears the folder until its import has ended, and while the sweep removes. It needs its
hypothesis: an import entered for in `enterEditMode` may wait in the queue with no mark of its own,
and a folder that passes its age meanwhile is removed under it. `AckInv` says what an upload has on
disk at each of its steps (`Carries`): that is how the feed answered for comes to be the one in the
database, and it holds even when a crash cuts a removal, because the removal only begins when no
answer counts any more. `CalmInv` holds until the first crash: the session has its database
(`DbInv`), so no import is ever entered for, and the edit flag is the database's stamp (`EditInv`).
After a crash both fail (section 3). The runs `wc_restart` and `wc_idle` give
the theorems' instances; the intermediate invariants hold in both configurations.

*Payments.* `CanceledInv` says that a canceled row's subscription is canceled at the
provider, that at most one checkout waits, and that a waiting one has not read an older
status than the row's: what `Overlap = TRUE` breaks (6.2).

`SettledIsTruth` speaks of the end only, and before it the row may go back: a checkout that
comes first writes what the provider says now under its own, older time, and a change between
the two is then applied over it. `LicenceInv` says what remains true. `ProviderInv`: a
subscription's status is its last change's, and one subscription comes after another.
`LateOnesAreTheLast`: what is still to be delivered is newer than every other subscription's
events. `RowIsOfAChange`: there is a change with the row's status such that no later one is
recorded and no later one will be taken for stale (`IsAsOf`), so the last change, once recorded,
is that one. `RecordedIsInTheRow`: a change recorded is not later than the row, unless the row is
canceled, which sets aside what comes after. `CheckoutsAreFresh` is the same for a checkout that
waits with its answer. `MeetsAnOldRow` is why "superseded" never drops an event that counts: when
one meets another subscription's row, that row has ended. Each hypothesis is needed (section 3).

*Signing in.* `SignInTypeCorrect` is not a matter of shape: the counts in the rows are bounded
by the limits only because every handler asks for the lock and the tries before it counts.
`CodesOpenOnce` is inductive only with `RowIsTheLast`: a row holds the last code sent, its
`attempts` are the tries of that code, and it came after every code that opened a session. So
does `SessionsHaveHolders`: the session a code opens is new, and no other browser's cookie
names it.

`PacedInv` relates each history of the last span to the window that counts it (`Paced`). While a
window is open it has counted everything since it opened, the ticks after its first one strictly
less, and what came before is below the limit. At the tick on which it closes, its first tick
has left the span and what remains is below the limit again: so never two whole windows. The
first code of a window is what makes it strict, and why `Paced` speaks of `After(w.since)`.
A sign-in, the purge and a deletion may drop a window only when it is closed or with its
history: the purge keeps a row an hour past its code's end, and a row's window of codes sent
began no later than that end (`PacedPurge`). The sums are the community modules' fold; since
an induction theorem with an operator parameter is out of reach, each lemma about them
looks at a smallest set that fails (`SmallestBad`, from the well-foundedness of the strict
subsets of a finite set) and shows that there is none.

*Import progress.* `ProgressInv` joins two parts. `TablesAreExact` and `StreamsAreKnown`: each of
the two tables holds an id once, an id is in one of them at most, a stream is known under the id it
asked for if and only if it is open. So a touch that moves the early streams to the entry, an
eviction, a refusal or a timer each leave every stream in one place. `WordsAreHeard`: an entry's
state is the last word said, or none; what a stream heard is in order, each stage to its last word
(`InOrder`); and a stream that is known was told the last word, *or* is in the same stage with the
timer armed (`ToldWhereItStands`). The last disjunct is what makes the property inductive, for
the stream that comes while a count is held back as for those that were there: the next stage
writes the held count first, to all of them, so none skips it; a timer that fired and left
`pending` set writes it twice, never out of order. The lemmas `HearsNext` and `HearsPublished`
are that argument, `TouchedKeepsTables` and `CloseKeepsTables` the tables'.

*Projects.* Three inductive invariants, one on the other. `ScheduleInv` is for every instance.
"A timer or a save" is not inductive: a save that ends must leave a timer when something waits,
and the tab of a forgotten account leaves none. `Will` says which saves will: those that something
asked to repeat, those of a tab that forgot nothing, and in a tab that did, those that are not
answered "served". No save is so answered any more once a tab forgot, since the server keeps
nothing for a closed account (`ClosedIsForgotten`), and one answered before that was for the cache
the tab took away.

`LossInv` follows the edits. `EditsAreHeld`: each is on the server, given up, or in its browser
under a dirty record. When a save is adopted at the record's revision the record becomes clean,
so `SavesHoldTheRest` must say what such a save carries: it is at most as new as the record, and
when it is as new it has everything of the browser that is not kept elsewhere. When a cache is
replaced by the server's copy, `CopiesAreReached` says that what comes is something the server
kept, and when one is reconciled, the base it is compared with is such a copy: a field changed on
one side only loses nothing. `GoneIsGone`: a tab that removed or forgot the project has none in
its browser, so its saves in flight answer to nobody. `LossRegime` has two cases: nothing takes the
project away (no `create`, `remove`, `close`, `purge`), whatever is read, kept or acted on in
however many tabs; or nothing is read back, and a person who removes or closes is in the only tab
of the browser. Without it the code loses an edit: the record that judges a 404 is the one
read before the request (6.12).

`OverInv` adds versions to it. Every project a client may send or take, with the version it would
go under, is `Behind` the server: not of a later version, and of the same version only with
all that the server has in each field. That a save passes the compare-and-set then implies that
it drops nothing. A record's base is below its cache, so reconciling two copies gives one above
both. `OnlySaves` asks for one tab in each browser and for no read or act of the server's
(`refresh`, `list`, `act`); creations, versions, removals, choices in a conflict, quotas, losses,
purges, closed accounts and reloads of the page are all allowed. Each part of it is needed (6.10, 6.11). The run
`projects_two` is an instance of both hypotheses.

Only model-checked: every liveness property (fairness and ENABLED are out of the prover's
reach), and everything about clients whose requests overlap. Every invariant a passing run
checks has its theorem, some under the hypotheses the table names.

## 6. Where the code disagrees with what it says

The first two are runs. The others were found while modelling; each names the property that
fails and the instance that shows it. The properties stay in the modules, for a reader who
changes the code.

1. `shares_overlap`, `ServedIsValidated`. `publishVersion` reads the card, then awaits its
   snapshot (`shareService.js:279-285`): two publications of one share work in the same
   `.staging-<n>`, and the second's copy replaces the files the first one's gate let through
   before they are renamed to the root. The link serves what the gate refused; the file's
   header (lines 4-5) says that the snapshot passes the gate before it exists.
2. `billing_overlap`, `CanceledIsFinal`. A checkout applies what it read of the subscription
   before a deletion that came meanwhile (`billingService.js:185-186`): a canceled subscription
   is active again, against the comment at line 210.
3. `ImportedHoldsDatabase` of `ImportQueue` (2 requests of one session). `migrateWithParsedData`
   checks that there is no database, then queues its import (`editSession.js:40, 54`). Two
   imports both pass; the second's child is refused ("already exists"), and the parent's close
   handler removes the database (`feedImporter.js:145`) that the first was answered with.
4. `HandleIsTheFile` of `WorkingCopy` (1 upload, `"serial"`, `MayIdle = TRUE`, no other
   request). The sweep closes the handle, then awaits the removal
   (`sessionManager.js:262-263`): a read in between reopens `gtfs.db`, and the session goes on
   answering from an unlinked file.
5. `AckedFeedIsServed` (1 upload, `"any"`). An upload closes the old handle and awaits the
   removal of the folder (`uploadService.js:286, 300-308`): a read in between reopens the old
   database, the migration takes it for a resumed session, and the upload is answered 200 with
   the feed it replaced.
6. `AckedFeedIsServed` (2 uploads, `"serial"`). A failed upload answers, then removes the folder
   in its `finally` (`uploadService.js:595-607`): a retry sent on that answer loses its folder
   and its mark.
7. `RemovedWithAccount` and `VersionsAreTheirCards` of `Shares` (`Apart = FALSE`, one slot). An
   account deleted in the middle of its publication leaves a share: the card is written back
   after `removeSharesOf`, although line 212 of
   `shareService.js` keeps the owner "so that its deletion removes the share".
   `openShare` writes back the card it read before its copy (line 320): a publication that
   ended meanwhile loses its version from the card. And the card is written in place: a stop
   between the truncation and the text loses the share to the sweep, and a publication cut
   between its renames leaves the root half of a version its card does not name (`cut`).
8. `ImportKeepsItsRoom` of `ValidatorSlots`. "While one runs, one validator fewer fits"
   (`canonicalValidatorService.js:533`), but a slot is handed over without asking: with a line,
   as many JVMs as ever run beside the import.
9. `FailedIsFinal` of `ImportProgress`. An answer cut by its client is said `failed`, and the
   handler that runs on says its later stages to whoever follows then.
10. `NoSilentOverwrite` of `ProjectSync` (1 tab, 2 fields, `{"refresh"}`, 3 edits,
    `MaxDataVersion = 5`, `MaxRev = 4`). `refreshProject` takes any other `data_version` for a
    newer one (`projectStore.js:665`): a read served before a save and answered after it puts
    the older fields under the newer version, and the next save overwrites (line 15: "never a
    silent overwrite"). With `{"act"}` and 2 browsers, `adoptServerProject` keeps every field of a
    pending copy without comparing (line 460), to the same end. So do two tabs of one browser
    (1 field, `{"keep"}`, 3 edits, `MaxDataVersion = 4`): one keeps its copy in a conflict, the
    other reloads the server's before the answer, and `adopt` puts the new `data_version` over
    the older fields (lines 533-549).
11. `ForgottenStaysForgotten` (`{"close", "act"}`). `adoptServerProject` and `refreshProject`
    clear the forgotten mark before writing their answer (lines 444, 659): one in flight when the
    account was deleted puts the project back (line 355 says it never does). The mark is also one
    tab's: with 2 tabs in one browser and `{"close"}`, a save of the other one, answered after the
    deletion, puts the project back too.
12. `NoEditIsLost` (`{"purge", "refresh"}`, `Account = FALSE`). After a 404 `refreshProject`
    forgets by the record it read before asking (lines 656, 681): an edit made meanwhile goes with
    the project. `refreshProjects` does the same with its list (line 705).
13. `ConflictIsAnothers` (`{"loss"}`, 1 browser, 2 edits). A save kept by the server whose answer
    was lost comes back as a conflict with nobody: its base is the one before it (line 499).
14. `WithdrawnStaysWithdrawn` (`{"versions"}`). A version withdrawn while the save that carries
    it runs is merged back from the answer (line 427).
15. `DirtyIsScheduled` without its exemption `removed` (`{"remove", "refresh"}`): a project read
    back by the tab that removed it keeps the mark, and its later edits are not saved by that tab.
16. `PeriodEndIsBrought` of `Billing` (`HasKey = FALSE`, 1 subscription, 5 events). Without the
    key, the subscription's own event is older than the checkout that names its account and is
    set aside as stale (`billingService.js:205`): the period's end the comment at 188 waits for
    never comes, and the licence is bounded to 31 days.

## 7. What is not modelled, and the plan

Not modelled, and why:

- **Texts, pages, data.** Most of the repository's lines are translations
  (`i18n/translations.js`, `transform/locales`), React components, SQL reads, HTTP clients of
  catalogues and realtime feeds, and their formatting. They keep no state whose order matters:
  a model of them would restate them. They are the bulk of what the map does not cover.
- **The hosted edition.** The edit service, the workspace server, the transform engine's
  applications and the assistant are stubs here (`hostedEdition.js`): there is no source to
  translate. `ProjectSync` models the server only as its client expects it. The read cache's
  ETag depends on the edit log that edition writes.
- **Session cap.** The count of folders is compared before the awaits that make one, in each of
  the ways to open a session: openings at once pass it, and no line of the code says by how much
  they may not.
- **Validator gate.** A pure comparison of two reports' counts; in `Shares` its verdict is a choice
  fixed per feed.

Within the modelled parts, left out: a session's linked drafts, owners and reports, the
statistics and the logs of an upload, the validator's report, the checkout's and the portal's
pages, the signature, the plan and the customer's id, two accounts that name one subscription
(`ownedElsewhere`), a period that ends by the clock alone; a share's count of openings, its zip
and its change log, a session without all its files, the validator's slot taken inside a
publication; a session's 30 days (`Expire` may come at any moment) and its sliding, two codes with
the same digits, a `Set-Cookie` that is lost. The tests are not part of the repository.

What would come next, in this order:

1. **AI cost limiter**: windows per key, and by how much calls at once pass the day's ceiling
   (`aiCostLimiter.js:70`: "the call that crosses the ceiling runs, the next one is refused").
2. **Trials** of `accounts/store.js` and their mails: what a sweep reads and sends later.
3. **Several sessions** over the import queue with `WorkingCopy` as the working copy of each.
