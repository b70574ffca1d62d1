------------------------------ MODULE Uploads ------------------------------
(***************************************************************************)
(* The four commands that copy files to R2, each in scenes of its own: a   *)
(* behaviour runs one of them, a variable that others use as well is that  *)
(* command's own, and those of the other commands hold "-".                *)
(***************************************************************************)
EXTENDS Naturals, Sequences, FiniteSets

CONSTANTS
    Keys, Archive, Order, CanBeForeign, CanBeDamaged, Reuses,
    DropOrder, Bytes, Candidates, Oversize, Fading, CanConflict,
    Rows, Objects, Content, Parts, Foreign,
    Concurrency, MaxTries, MaxFailures, SyncEvery, TornTails, MaxFaults, MaxUploads

VARIABLES
    which,
    bucket, late, report, faults, phase, task, try, aborted, jammed,
    file, synced, unsynced, chain, completed,
    damaged, pos, failures,
    changed, cursor, counts, prior,
    source, uploads, records, tail, todo, step, tried, review, release,
    shards, d1Report, table, remote,
    journal, media, running, work

checkpointVars == <<file, synced, unsynced, chain, completed>>
runVars == <<task, try, aborted>>
artworkVars == <<damaged, pos, failures>>
publicationVars == <<changed, counts, prior>>
holdingsVars == <<source, records, todo, step, tried, review, release, shards, d1Report,
                  table, remote>>
recoveryVars == <<journal, media, running, work>>
vars == <<which, bucket, late, report, faults, phase, jammed, cursor, uploads, tail, runVars,
          checkpointVars, artworkVars, publicationVars, holdingsVars, recoveryVars>>

Artwork == INSTANCE ArtworkUpload WITH Attempts <- MaxTries
Publication == INSTANCE MediaPublication WITH Attempts <- MaxTries
Holdings == INSTANCE HoldingsArtwork WITH Large <- Oversize
Recovery == INSTANCE MediaRecovery WITH
    Attempts <- MaxTries, TornTails <- FALSE, Concurrency <- 1

UploadsAreGiven ==
    /\ Artwork!CheckpointAssumption /\ Artwork!UploadAssumption
    /\ Publication!PublicationAssumption /\ Holdings!ArtworkAssumption
    /\ Content \in [Rows -> Objects] /\ Parts \in [Objects -> Nat]
    /\ Foreign \subseteq Objects /\ MaxUploads \in Nat

ASSUME CommandsFit == UploadsAreGiven

NoRuns == task = "-" /\ try = "-" /\ aborted = "-"
NoCheckpoint == file = "-" /\ synced = "-" /\ unsynced = "-" /\ chain = "-" /\ completed = "-"
NoArtwork == damaged = "-" /\ pos = "-" /\ failures = "-"
NoPublication == changed = "-" /\ counts = "-" /\ prior = "-"
NoHoldings ==
    /\ source = "-" /\ records = "-" /\ todo = "-" /\ step = "-" /\ tried = "-"
    /\ review = "-" /\ release = "-" /\ shards = "-" /\ d1Report = "-"
    /\ table = "-" /\ remote = "-"
NoRecovery == journal = "-" /\ media = "-" /\ running = "-" /\ work = "-"

Init ==
    \/ /\ which = "artwork" /\ Artwork!Init
       /\ cursor = "-" /\ uploads = "-" /\ tail = "-"
       /\ NoPublication /\ NoHoldings /\ NoRecovery
    \/ /\ which = "publication" /\ Publication!Init
       /\ uploads = "-" /\ tail = "-"
       /\ NoArtwork /\ NoHoldings /\ NoRecovery
    \/ /\ which = "holdings" /\ Holdings!Init
       /\ late = "-"
       /\ NoRuns /\ NoCheckpoint /\ NoArtwork /\ NoPublication /\ NoRecovery
    \/ /\ which = "recovery" /\ Recovery!Init
       /\ phase = "-" /\ cursor = "-"
       /\ NoRuns /\ NoCheckpoint /\ NoArtwork /\ NoPublication /\ NoHoldings

(* What the other commands' variables do meanwhile.                        *)
InArtwork ==
    /\ which = "artwork"
    /\ UNCHANGED <<which, cursor, uploads, tail, publicationVars, holdingsVars, recoveryVars>>
InPublication ==
    /\ which = "publication"
    /\ UNCHANGED <<which, uploads, tail, artworkVars, holdingsVars, recoveryVars>>
InHoldings ==
    /\ which = "holdings"
    /\ UNCHANGED <<which, late, runVars, checkpointVars, artworkVars, publicationVars,
                   recoveryVars>>
InRecovery ==
    /\ which = "recovery"
    /\ UNCHANGED <<which, phase, cursor, runVars, checkpointVars, artworkVars,
                   publicationVars, holdingsVars>>

Next ==
    \/ InArtwork /\ Artwork!Next
    \/ InPublication /\ Publication!Next
    \/ InHoldings /\ Holdings!Next
    \/ InRecovery /\ Recovery!Next

(* The fairness of each command: its run goes on, the operator repeats it, *)
(* and R2 drops the uploads that stay incomplete; the recovery has only    *)
(* one worker here, and no more uploads than MaxUploads.                   *)
RunStep ==
    \/ InArtwork /\ Artwork!RunStep
    \/ InPublication /\ Publication!RunStep
    \/ InHoldings /\ Holdings!RunStep
    \/ InRecovery /\ ((\E r \in Rows : Recovery!WorkerStep(r)) \/ Recovery!Finish)
Operate ==
    \/ InArtwork /\ Artwork!Open
    \/ InPublication /\ (Publication!Open \/ Publication!Restore)
    \/ InHoldings /\ Holdings!Operate
    \/ InRecovery /\ Recovery!Start
Expire == InRecovery /\ \E u \in 1 .. MaxUploads : Recovery!Expire(u)

Spec == Init /\ [][Next]_vars
FairSpec ==
    /\ Spec
    /\ WF_vars(RunStep) /\ WF_vars(Operate) /\ SF_vars(Expire)
-----------------------------------------------------------------------------
(* Properties.                                                             *)

\* The states of the four commands are what their modules say.
TypeOK ==
    /\ which = "artwork" => Artwork!TypeOK
    /\ which = "publication" => Publication!TypeOK
    /\ which = "holdings" => Holdings!TypeOK
    /\ which = "recovery" => Recovery!TypeOK

\* JsonlCheckpoint.record, finalizeHoldingsArtwork, loadHoldingsArtworkD1: a record
\* that a later run will skip, and an entry of a release, stand for an original that
\* is in the bucket, whatever was torn, lost, retried or reviewed before; a Drop is left out of a
\* release only while its latest record says that every source has failed; and a
\* verified load holds the rows of the shards its report counts, and nobody else's.
RecordedIsStored ==
    /\ TypeOK
    /\ which = "artwork" => Artwork!RecordsAreStored
    /\ which = "holdings" => Holdings!ReleaseIsArchived /\ Holdings!VerifiedLoadIsExact

\* Without a fault no multipart upload is left open, though two Drops may upload
\* the same original at once; with faults, no more than the faults explain.  And a
\* run stops after --max-failures, give or take the tasks that are under way.
FaultsAreBounded ==
    /\ which = "artwork" => Artwork!FailuresBounded
    /\ which = "holdings" => Holdings!OrphansNeedFaults
    /\ which = "recovery" => Recovery!LeaksNeedFaults

\* publishCollectionMedia: no object is counted twice in a run, so a complete
\* report stands for every object: all of them are in the bucket when it is
\* written.  So does the report of uploadArtworkArchive, for every eligible entry,
\* whose objects appear once and for good: each of its steps is one of ImmutableStore.
CompleteIsStored ==
    [][/\ which = "publication" => Publication!ReportsWhatIsStored
       /\ which = "artwork" => Artwork!StoreStep]_vars

\* validateMediaPublishReport asks for a pass that uploads nothing: the report it
\* accepts was written by a run that found the record of an earlier run for every
\* uploaded object, and the object itself in the bucket.
AcceptedIsSecondPass == [][which = "publication" => Publication!AcceptsSecondPass]_vars

\* "Failed and resumable": the operator who repeats a command gets its report, or
\* the load verified, unless another object or row is in the way, the sources
\* never settle, or a torn write has left a checkpoint that no run can open.
Unhindered ==
    /\ which = "artwork" => Artwork!Unhindered
    /\ which = "publication" => Publication!Unhindered
    /\ which = "holdings" => Holdings!Unhindered
Ended ==
    /\ which = "artwork" => Artwork!Ended
    /\ which = "publication" => Publication!Ended
    /\ which = "holdings" => Holdings!Ended
    /\ which = "recovery" => Recovery!Ended
UploadsEnd == <>[]Unhindered => <>Ended
=============================================================================
