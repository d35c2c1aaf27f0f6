------------------------------- MODULE Shares -------------------------------
(***************************************************************************)
(* services/shareService.js behind the compute gate: one share, its folder *)
(* (the snapshot at its root, the previous ones under versions/, the one   *)
(* being made under .staging-n, the card _share.json), the account that    *)
(* owns it, its visitors and the sweep of what has expired.                *)
(*                                                                         *)
(* The gate's tasks are the requests that create or publish: a request     *)
(* computes from the turn that gives it a slot to the one that gives it    *)
(* back.  An action is what runs between two awaits; a rename and a        *)
(* removal are one step each.  A folder says of each file which feed it is *)
(* from; the validator passes the feeds of Sound.                          *)
(***************************************************************************)
EXTENDS ComputeGate

CONSTANTS
  Feeds, Sound,  \* what a session may hold, and what the validator lets through
  Files,         \* the files of a feed
  MaxVersions,   \* MAX_VERSIONS
  Visitors,      \* the requests that open the share
  Apart,         \* whether what is not a publication keeps away from one
  None

ASSUME SharesAssumption ==
  /\ Sound \subseteq Feeds /\ None \notin Feeds
  /\ MaxVersions \in Nat \ {0}
  /\ Apart \in BOOLEAN

VARIABLES
  card,     \* what _share.json holds: the versions' contents, the last one the current; or <<>>
  folder,   \* whether the share's folder exists
  root,     \* the files at its root
  kept,     \* per version, the files under versions/<n>
  staging,  \* per version, the files under .staging-<n>, or None
  job,      \* per task, how far its creation or publication is
  opening,  \* per visitor, the card it read, or <<>>
  expired,  \* whether the card's date is past
  token,    \* whether the share's token was drawn
  owner,    \* whether the account still exists
  cut       \* history: a publication stopped between its first rename and its card

shareVars == <<card, folder, root, kept, staging, job, opening, expired, token, owner, cut>>

Folders == [Files -> Feeds \cup {None}]
Empty   == [f \in Files |-> None]
Whole(d) == [f \in Files |-> d]

Idle == [stage |-> "none", read |-> <<>>, content |-> Empty]

\* A job is a creation while its card was never read.
Creates(t) == job[t].read = <<>>
Number(t)  == Len(job[t].read) + 1

\* Apart: no creation or publication is under way.
Quiet == Apart => \A t \in Tasks : pc[t] # "computing"

SharesTypeOK ==
  /\ card \in Seq(Folders) /\ Len(card) <= MaxVersions
  /\ folder \in BOOLEAN /\ expired \in BOOLEAN /\ token \in BOOLEAN
  /\ owner \in BOOLEAN /\ cut \in BOOLEAN
  /\ root \in Folders
  /\ kept \in [1..MaxVersions -> Folders]
  /\ staging \in [1..MaxVersions -> Folders \cup {None}]
  /\ \A t \in Tasks : job[t].stage \in
       {"none", "mkdir", "copying", "validating", "moving", "unpacking", "writing", "torn", "done"}

SharesInit ==
  /\ Init
  /\ card = <<>> /\ folder = FALSE /\ root = Empty
  /\ kept = [n \in 1..MaxVersions |-> Empty]
  /\ staging = [n \in 1..MaxVersions |-> None]
  /\ job = [t \in Tasks |-> Idle]
  /\ opening = [o \in Visitors |-> <<>>]
  /\ expired = FALSE /\ token = FALSE /\ owner = TRUE /\ cut = FALSE

\* fsp.rm of the share's folder.
Removed ==
  /\ card' = <<>> /\ folder' = FALSE /\ root' = Empty
  /\ kept' = [n \in 1..MaxVersions |-> Empty]
  /\ staging' = [n \in 1..MaxVersions |-> None]
  /\ expired' = FALSE

Goes(t, stage) == job' = [job EXCEPT ![t].stage = stage]

-----------------------------------------------------------------------------
(* A creation or a publication. *)

\* createShare draws its token; publishVersion reads the card, or is refused for
\* an unknown or expired share, or for one with all its versions.
Start(t) ==
  /\ pc[t] = "computing" /\ job[t].stage = "none"
  /\ Apart => \A o \in Visitors : opening[o] = <<>>
  /\ \/ /\ ~token /\ owner
        /\ token' = TRUE
        /\ Goes(t, "mkdir")
     \/ /\ card # <<>> /\ ~expired /\ Len(card) < MaxVersions
        /\ job' = [job EXCEPT ![t] = [stage |-> "mkdir", read |-> card, content |-> Empty]]
        /\ UNCHANGED token
     \/ /\ token \/ ~owner
        /\ card = <<>> \/ expired \/ Len(card) >= MaxVersions
        /\ Goes(t, "done")
        /\ UNCHANGED token
  /\ UNCHANGED <<gateVars, card, folder, root, kept, staging, opening, expired, owner, cut>>

\* mkdir, recursive: the folder of the snapshot, which may be there already.
MakeFolder(t) ==
  /\ job[t].stage = "mkdir"
  /\ folder' = TRUE
  /\ IF Creates(t) THEN UNCHANGED staging
     ELSE staging' = [staging EXCEPT ![Number(t)] = IF @ = None THEN Empty ELSE @]
  /\ Goes(t, "copying")
  /\ UNCHANGED <<gateVars, card, root, kept, opening, expired, token, owner, cut>>

\* snapshotSession copies what the session holds now; dumping a database makes
\* the folder again, copying CSVs into one that is gone fails.
Snapshot(t) ==
  /\ job[t].stage = "copying"
  /\ \E d \in Feeds :
       /\ folder' = TRUE
       /\ IF Creates(t)
            THEN root' = Whole(d) /\ UNCHANGED staging
            ELSE staging' = [staging EXCEPT ![Number(t)] = Whole(d)] /\ UNCHANGED root
  /\ Goes(t, "validating")
  /\ UNCHANGED <<gateVars, card, kept, opening, expired, token, owner, cut>>

\* The catch: a creation's folder goes, or a publication's staging.
Fails(t) ==
  /\ Goes(t, "done")
  /\ \/ /\ Creates(t)
        /\ Removed
     \/ /\ ~Creates(t)
        /\ staging' = [staging EXCEPT ![Number(t)] = None]
        /\ UNCHANGED <<card, folder, root, kept, expired>>
  /\ UNCHANGED <<gateVars, opening, token, owner>>

\* The files the validator reads.
Snapshotted(t) == IF Creates(t) THEN root ELSE staging[Number(t)]

Passes(snapshot) == snapshot # None /\ \A f \in Files : snapshot[f] \in Sound

\* Mutation: the verdict comes after the move.
MovesUnvalidated(t) ==
  /\ job[t].stage = "validating"
  /\ Snapshotted(t) # None
  /\ job' = [job EXCEPT ![t] = [stage   |-> IF Creates(t) THEN "writing" ELSE "moving",
                                read    |-> job[t].read,
                                content |-> Snapshotted(t)]]
  /\ UNCHANGED <<gateVars, card, folder, root, kept, staging, opening, expired, token, owner, cut>>

\* The gate lets the snapshot through and the card's counts are taken from it.
Validated(t) ==
  /\ job[t].stage = "validating"
  /\ Passes(Snapshotted(t))
  /\ job' = [job EXCEPT ![t] = [stage   |-> IF Creates(t) THEN "writing" ELSE "moving",
                                read    |-> job[t].read,
                                content |-> Snapshotted(t)]]
  /\ UNCHANGED <<gateVars, card, folder, root, kept, staging, opening, expired, token, owner, cut>>

\* The gate refuses it, or the copy or the validator failed.
Refused(t) ==
  /\ \/ job[t].stage = "validating" /\ ~Passes(Snapshotted(t))
     \/ job[t].stage \in {"copying", "validating"}
  /\ Fails(t)
  /\ UNCHANGED cut

\* Mutation: the files go under the version that comes, not the one that goes.
MovesUnderTheNext(t) ==
  /\ job[t].stage = "moving"
  /\ \/ /\ root # Empty
        /\ \E f \in Files :
             /\ root[f] # None
             /\ kept' = [kept EXCEPT ![Number(t)][f] = root[f]]
             /\ root' = [root EXCEPT ![f] = None]
        /\ UNCHANGED job
     \/ /\ root = Empty
        /\ Goes(t, "unpacking")
        /\ UNCHANGED <<kept, root>>
  /\ folder' = TRUE
  /\ UNCHANGED <<gateVars, card, staging, opening, expired, token, owner, cut>>

\* The files at the root are renamed one by one into versions/<current>.
MoveOld(t) ==
  /\ job[t].stage = "moving"
  /\ \/ /\ root # Empty
        /\ \E f \in Files :
             /\ root[f] # None
             /\ kept' = [kept EXCEPT ![Number(t) - 1][f] = root[f]]
             /\ root' = [root EXCEPT ![f] = None]
        /\ UNCHANGED job
     \/ /\ root = Empty
        /\ Goes(t, "unpacking")
        /\ UNCHANGED <<kept, root>>
  /\ folder' = TRUE
  /\ UNCHANGED <<gateVars, card, staging, opening, expired, token, owner, cut>>

\* Those of the staging folder are renamed to the root; then it goes.
MoveNew(t) ==
  LET from == staging[Number(t)] IN
    /\ job[t].stage = "unpacking"
    /\ from # None
    /\ \/ /\ from # Empty
          /\ \E f \in Files :
               /\ from[f] # None
               /\ root' = [root EXCEPT ![f] = from[f]]
               /\ staging' = [staging EXCEPT ![Number(t)][f] = None]
          /\ UNCHANGED job
       \/ /\ from = Empty
          /\ staging' = [staging EXCEPT ![Number(t)] = None]
          /\ Goes(t, "writing")
          /\ UNCHANGED root
    /\ UNCHANGED <<gateVars, card, folder, kept, opening, expired, token, owner, cut>>

\* A rename fails, or the staging folder is gone: what was moved stays moved.
RenameFails(t) ==
  /\ job[t].stage \in {"moving", "unpacking"}
  /\ Fails(t)
  /\ cut' = TRUE

\* The card is written in place: empty first, then whole.
WriteStarts(t) ==
  /\ job[t].stage = "writing"
  /\ folder
  /\ card' = <<>>
  /\ Goes(t, "torn")
  /\ UNCHANGED <<gateVars, folder, root, kept, staging, opening, expired, token, owner, cut>>

WriteEnds(t) ==
  /\ job[t].stage = "torn"
  /\ card' = IF folder THEN Append(job[t].read, job[t].content) ELSE <<>>
  /\ expired' = FALSE
  /\ Goes(t, "done")
  /\ UNCHANGED <<gateVars, folder, root, kept, staging, opening, token, owner, cut>>

\* The folder went before the card could be written.
WriteFails(t) ==
  /\ job[t].stage = "writing"
  /\ ~folder
  /\ Fails(t)
  /\ cut' = (cut \/ ~Creates(t))

\* withGate's `finally`.
Finish(t) ==
  /\ job[t].stage = "done"
  /\ Release(t)
  /\ job' = [job EXCEPT ![t] = Idle]
  /\ UNCHANGED <<card, folder, root, kept, staging, opening, expired, token, owner, cut>>

-----------------------------------------------------------------------------
(* Beside it. *)

\* openShare reads the card, copies and ingests the files, then writes the card
\* it read back, with one opening more.
OpenStarts(o) ==
  /\ Quiet
  /\ opening[o] = <<>>
  /\ card # <<>> /\ ~expired
  /\ opening' = [opening EXCEPT ![o] = card]
  /\ UNCHANGED <<gateVars, card, folder, root, kept, staging, job, expired, token, owner, cut>>

OpenEnds(o) ==
  /\ opening[o] # <<>>
  /\ \/ /\ folder
        /\ card' = opening[o]
     \/ UNCHANGED card
  /\ opening' = [opening EXCEPT ![o] = <<>>]
  /\ UNCHANGED <<gateVars, folder, root, kept, staging, job, expired, token, owner, cut>>

\* SHARE_TTL_DAYS without a publication.
Expire ==
  /\ Quiet /\ (Apart => \A o \in Visitors : opening[o] = <<>>)
  /\ card # <<>> /\ ~expired
  /\ expired' = TRUE
  /\ UNCHANGED <<gateVars, card, folder, root, kept, staging, job, opening, token, owner, cut>>

\* Mutation: a folder without a card is left.
SweepWantsACard ==
  /\ folder /\ card # <<>> /\ expired
  /\ Removed
  /\ UNCHANGED <<gateVars, job, opening, token, owner, cut>>

\* cleanupExpiredShares: an expired card, or none that can be read.
Sweep ==
  /\ Apart => \A t \in Tasks : job[t].stage # "torn"
  /\ folder
  /\ card = <<>> \/ expired
  /\ Removed
  /\ UNCHANGED <<gateVars, job, opening, token, owner, cut>>

\* removeSharesOf, with the account: the shares whose card names it.
DeleteAccount ==
  /\ Quiet
  /\ owner
  /\ owner' = FALSE
  /\ IF card # <<>> THEN Removed ELSE UNCHANGED <<card, folder, root, kept, staging, expired>>
  /\ UNCHANGED <<gateVars, job, opening, token, cut>>

\* The process stops: the folder stays as it is.
Stop ==
  /\ Restart
  /\ cut' = (cut \/ \E t \in Tasks : job[t].stage \in {"moving", "unpacking", "writing"} /\ ~Creates(t))
  /\ job' = [t \in Tasks |-> Idle]
  /\ opening' = [o \in Visitors |-> <<>>]
  /\ UNCHANGED <<card, folder, root, kept, staging, expired, token, owner>>

GateSteps ==
  \/ \E t \in Tasks : Acquire(t) \/ Forget(t)
  \/ \E i \in DOMAIN queue : Timeout(i)

Works(t) ==
  \/ Start(t) \/ MakeFolder(t) \/ Snapshot(t) \/ Validated(t) \/ Refused(t)
  \/ MoveOld(t) \/ MoveNew(t) \/ RenameFails(t)
  \/ WriteStarts(t) \/ WriteEnds(t) \/ WriteFails(t) \/ Finish(t)

SharesNext ==
  \/ GateSteps /\ UNCHANGED shareVars
  \/ \E t \in Tasks : Works(t)
  \/ \E o \in Visitors : OpenStarts(o) \/ OpenEnds(o)
  \/ Expire \/ Sweep \/ DeleteAccount \/ Stop

SharesSpec == SharesInit /\ [][SharesNext]_<<gateVars, shareVars>>

\* What a job awaits comes, the sweep comes round, openings end.
SharesFairSpec ==
  /\ SharesSpec
  /\ \A t \in Tasks : WF_<<gateVars, shareVars>>(Works(t))
  /\ \A o \in Visitors : WF_<<gateVars, shareVars>>(OpenEnds(o))
  /\ SF_<<gateVars, shareVars>>(Sweep)

-----------------------------------------------------------------------------

\* "The snapshot passes the validator gate before it exists, else its folder is
\* removed and nothing is published": every file a link serves, of the current
\* version or of a former one, comes from a snapshot the validator let through.
ServedIsValidated ==
  card # <<>> =>
    \A f \in Files : /\ root[f] \in Sound \cup {None}
                     /\ \A n \in 1..MaxVersions : kept[n][f] \in Sound \cup {None}

Publishing == \E t \in Tasks : job[t].stage \in {"moving", "unpacking", "writing"} /\ ~Creates(t)

\* Each version's card is about its own files: "the previous snapshot moves under
\* versions/<n> and the root becomes the new one", whatever refusals, openings and
\* stops came before, unless one of them cut a publication in its renames.
VersionsAreTheirCards ==
  (card # <<>> /\ ~cut) =>
    /\ \A n \in 1..(Len(card) - 1) : kept[n] = card[n]
    /\ ~Publishing => root = card[Len(card)]

\* A folder nobody can open does not stay: what a stop or a failure left goes.
LeftoversGo == (folder /\ card = <<>>) ~> (~folder \/ card # <<>>)

\* "The account that shared it, so that its deletion removes the share": once the
\* account is gone and its shares with it, no link of it serves anything.
RemovedWithAccount == ~owner => card = <<>>
=============================================================================
