-------------------------- MODULE ArchiveCaptures ---------------------------
(***************************************************************************)
(* The commands that bring an archive in, each in a part of its own: a     *)
(* behaviour runs one of them, a variable that others use as well is that  *)
(* command's own, and those of the other parts hold "-".                   *)
(*   holdings: the sharded snapshot of the Compass holdings.               *)
(*   moments: MomentsCapture, the captures of the Moments and the proof of *)
(*     their stability; its variables keep their first values otherwise.   *)
(*   collections: the capture and verification of the Collections.         *)
(*   media: the originals of the Moments.                                  *)
(*   supplement: the Drops that a Collections snapshot names.              *)
(*   import: the import of an archive and its verification.                *)
(*   backfill: the collectors of the Drops of a loaded snapshot.           *)
(***************************************************************************)
EXTENDS MomentsCapture, Sequences

CONSTANTS
    Parts,       \* those to tell of
    Pool,        \* the workers of the commands that have some
    MaxFaults,   \* bound: faults of the media and the supplement
    \* Of the holdings, as HoldingsCapture explains them.
    Identities, FirstIdentities, DropOfIdentity, VisibleDrops, ShardCount, IdentityPage,
    \* Of the Collections, as CollectionsCapture explains them.
    CollectionTables, CollectionRows, CountedTables, CollectionOfRow, DropOfItem,
    CollectionPage, DropBatch, MaxTableFaults,
    \* Of the media, as MediaCapture explains them.
    MediaRows, MomentOfMedia, NoMoment, DropsOfMoment, HiddenDrops, Processed, Originals,
    BytesOfMedia, MediaAnswers, MediaAttempts,
    \* Of the import, as ArchiveImport explains them.
    ImportSources, RemoteArt, LocalArt, RangeEntries, StatementRows, ShardRows,
    \* Of the backfill, as CollectorBackfill explains them.
    Base, AddressDigits, MaxPrefix, OwnersOfTokens, MaxRequestFaults,
    \* Of the supplement, as DropSupplement explains them.
    NamedDrops, NamedPage, Candidates, Barred, ArtworkBytes, ArtworkAnswers,
    ArtworkArchives, Legacy, MaxAnswerChanges

VARIABLES
    which,   \* the part that this behaviour is about
    rows, schema, upper, cursor, captured, started, finished, tokens, recounted,
    phase, attempt, at, tally, pending, contradicted, worker, edited,
    companion, seen, burned,
    moves,
    journal,
    rounds, issue, output,
    standing,
    origin,
    progress,
    command, verdict,
    src, pages, drops, dropPages, verified, proc, side,
    manifest,
    faults,
    latest, stored, bucket, todo, jobs, proof, recovery, check, passes,
    remote, kind, out,
    job,
    refs,
    frozen, copies, files

holdingsVars == <<rows, schema, upper, cursor, captured, started, finished,
      tokens, recounted, phase, attempt, at, tally, pending, contradicted,
      worker, edited, companion, seen, burned>>
collectionsVars == <<src, pages, drops, dropPages, verified, proc, side>>
mediaVars == <<latest, stored, bucket, todo, jobs, proof, recovery, check,
      passes>>
importVars == <<remote, kind, out>>
supplementVars == <<frozen, copies, files>>
MCVars == <<which, vars, holdingsVars, moves, journal, rounds, issue, output,
            standing, origin, progress, command, verdict, collectionsVars,
            manifest, faults, mediaVars, importVars, job, refs, supplementVars>>

Holdings == INSTANCE HoldingsCapture WITH
    changes <- moves, runs <- rounds, edition <- issue, built <- output,
    FirstRows <- FirstIdentities, DropOf <- DropOfIdentity, Workers <- Pool,
    PageSize <- IdentityPage
Collections == INSTANCE CollectionsCapture WITH
    changes <- moves, state <- progress,
    Entities <- CollectionTables, Rows <- CollectionRows, Counted <- CountedTables,
    CollectionOf <- CollectionOfRow, DropOf <- DropOfItem, PageSize <- CollectionPage,
    MaxFaults <- MaxTableFaults
MomentsMedia == INSTANCE MediaCapture WITH
    source <- origin, run <- command, report <- verdict,
    Media <- MediaRows, MomentOf <- MomentOfMedia, DropsOf <- DropsOfMoment,
    Bytes <- BytesOfMedia, Scenes <- MediaAnswers, Workers <- Pool, Attempts <- MediaAttempts
Import == INSTANCE ArchiveImport WITH
    source <- origin,
    Sources <- ImportSources, Archives <- RemoteArt, Local <- LocalArt
Backfill == INSTANCE CollectorBackfill WITH
    Tokens <- OwnersOfTokens, MaxFaults <- MaxRequestFaults
Supplement == INSTANCE DropSupplement WITH
    changes <- moves, source <- origin, run <- command, state <- progress,
    Drops <- NamedDrops, PageSize <- NamedPage, BytesOf <- ArtworkBytes,
    Answering <- ArtworkAnswers, Archives <- ArtworkArchives, Workers <- Pool,
    MaxChanges <- MaxAnswerChanges

ASSUME MomentsCaptureAssumption /\ Holdings!CaptureAssumption
ASSUME Collections!CollectionsCaptureAssumption /\ MomentsMedia!MediaCaptureAssumption
ASSUME Import!ArchiveImportAssumption /\ Backfill!BackfillAssumption
ASSUME Supplement!DropSupplementAssumption

(* What the variables of the other parts hold meanwhile.                    *)
NoHoldings ==
    /\ rows = "-" /\ schema = "-" /\ upper = "-" /\ cursor = "-" /\ captured = "-"
    /\ started = "-" /\ finished = "-" /\ tokens = "-" /\ recounted = "-" /\ phase = "-"
    /\ attempt = "-" /\ at = "-" /\ tally = "-" /\ pending = "-" /\ contradicted = "-"
    /\ worker = "-" /\ edited = "-" /\ companion = "-" /\ seen = "-" /\ burned = "-"
NoCollections ==
    /\ src = "-" /\ pages = "-" /\ drops = "-" /\ dropPages = "-" /\ verified = "-"
    /\ proc = "-" /\ side = "-"
NoMedia ==
    /\ latest = "-" /\ stored = "-" /\ proof = "-" /\ recovery = "-" /\ check = "-"
    /\ passes = "-"
NoPool == bucket = "-" /\ todo = "-" /\ jobs = "-"
NoImport == remote = "-" /\ kind = "-" /\ out = "-"
NoSupplement == frozen = "-" /\ copies = "-" /\ files = "-"
NoRounds == rounds = "-" /\ issue = "-" /\ output = "-"
NoJob == job = "-" /\ refs = "-"

MCInit ==
    /\ which \in Parts /\ Init
    /\ \/ /\ which = "holdings" /\ Holdings!Init
          /\ origin = "-" /\ progress = "-" /\ command = "-" /\ verdict = "-"
          /\ manifest = "-" /\ faults = "-"
          /\ NoCollections /\ NoMedia /\ NoPool /\ NoImport /\ NoJob /\ NoSupplement
       \/ /\ which = "moments"
          /\ moves = "-" /\ journal = "-" /\ standing = "-" /\ origin = "-"
          /\ progress = "-" /\ command = "-" /\ verdict = "-" /\ manifest = "-"
          /\ faults = "-"
          /\ NoHoldings /\ NoRounds /\ NoCollections /\ NoMedia /\ NoPool /\ NoImport
          /\ NoJob /\ NoSupplement
       \/ /\ which = "collections" /\ Collections!Init
          /\ journal = "-" /\ origin = "-" /\ command = "-" /\ verdict = "-"
          /\ NoHoldings /\ NoRounds /\ NoMedia /\ NoPool /\ NoImport /\ NoJob
          /\ NoSupplement
       \/ /\ which = "media" /\ MomentsMedia!Init
          /\ moves = "-" /\ journal = "-" /\ standing = "-" /\ progress = "-"
          /\ NoHoldings /\ NoRounds /\ NoCollections /\ NoImport /\ NoJob /\ NoSupplement
       \/ /\ which = "import" /\ Import!Init
          /\ moves = "-" /\ journal = "-" /\ standing = "-" /\ progress = "-"
          /\ command = "-" /\ verdict = "-" /\ manifest = "-" /\ faults = "-"
          /\ refs = "-"
          /\ NoHoldings /\ NoRounds /\ NoCollections /\ NoMedia /\ NoPool /\ NoSupplement
       \/ /\ which = "backfill" /\ Backfill!Init
          /\ moves = "-" /\ standing = "-" /\ origin = "-" /\ progress = "-"
          /\ command = "-" /\ verdict = "-" /\ manifest = "-"
          /\ NoHoldings /\ NoRounds /\ NoCollections /\ NoMedia /\ NoPool /\ NoImport
          /\ NoSupplement
       \/ /\ which = "supplement" /\ Supplement!Init
          /\ standing = "-" /\ verdict = "-"
          /\ drops = "-" /\ dropPages = "-" /\ verified = "-" /\ proc = "-" /\ side = "-"
          /\ NoHoldings /\ NoRounds /\ NoMedia /\ NoImport /\ NoJob

InHoldings ==
    /\ which = "holdings"
    /\ UNCHANGED <<which, vars, origin, progress, command, verdict,
                   collectionsVars, manifest, faults, mediaVars, importVars,
                   job, refs, supplementVars>>
InMoments ==
    /\ which = "moments"
    /\ UNCHANGED <<which, holdingsVars, moves, journal, rounds, issue, output,
                   standing, origin, progress, command, verdict, collectionsVars,
                   manifest, faults, mediaVars, importVars, job, refs, supplementVars>>
InCollections ==
    /\ which = "collections"
    /\ UNCHANGED <<which, vars, holdingsVars, journal, rounds, issue, output, origin,
                   command, verdict, mediaVars, importVars, job, refs, supplementVars>>
InMedia ==
    /\ which = "media"
    /\ UNCHANGED <<which, vars, holdingsVars, moves, journal, rounds, issue, output,
                   standing, progress, collectionsVars, importVars, job, refs,
                   supplementVars>>
InImport ==
    /\ which = "import"
    /\ UNCHANGED <<which, vars, holdingsVars, moves, journal, rounds, issue, output,
                   standing, progress, command, verdict, collectionsVars, manifest,
                   faults, mediaVars, refs, supplementVars>>
InBackfill ==
    /\ which = "backfill"
    /\ UNCHANGED <<which, vars, holdingsVars, moves, rounds, issue, output, standing,
                   origin, progress, command, verdict, collectionsVars, manifest,
                   mediaVars, importVars, supplementVars>>
InSupplement ==
    /\ which = "supplement"
    /\ UNCHANGED <<which, vars, holdingsVars, rounds, issue, output, standing, verdict,
                   drops, dropPages, verified, proc, side, latest, stored, proof,
                   recovery, check, passes, importVars, job, refs>>

MCNext ==
    \/ InHoldings /\ Holdings!Next
    \/ InMoments /\ Next
    \/ InCollections /\ Collections!Next
    \/ InMedia /\ MomentsMedia!Next
    \/ InImport /\ Import!Next
    \/ InBackfill /\ Backfill!Next
    \/ InSupplement /\ Supplement!Next

(* The fairness of each command: it goes on, and the operator repeats it.   *)
Repeat ==
    \/ InCollections /\ Collections!Start
    \/ InMedia /\ MomentsMedia!Operate
    \/ InSupplement /\ Supplement!Enrich
Step ==
    \/ InCollections /\ Collections!CaptureStep
    \/ InMedia /\ MomentsMedia!CaptureStep
    \/ InBackfill /\ Backfill!Run
    \/ InSupplement /\ Supplement!Step
Check ==
    \/ InCollections /\ Collections!Verify
    \/ InMedia /\ MomentsMedia!VerifyStep

(* What the operator does by hand where no command goes on.                 *)
Mend ==
    \/ InCollections /\ (Collections!Tidy \/ Collections!Fresh)
    \/ InSupplement /\ Supplement!Restart

Work(w) ==
    \/ InMedia /\ MomentsMedia!Work(w)
    \/ InSupplement /\ Supplement!Download(w)

MCFairSpec ==
    /\ MCInit /\ [][MCNext]_MCVars
    /\ WF_MCVars(Repeat) /\ WF_MCVars(Step) /\ WF_MCVars(Check)
    /\ \A w \in Pool : WF_MCVars(Work(w))
    /\ SF_MCVars(Mend)
-----------------------------------------------------------------------------
(* Properties.                                                             *)

\* The states of the commands are what their modules say.
PartsAreTyped ==
    /\ TypeOK
    /\ which = "holdings" => Holdings!TypeOK
    /\ which = "collections" => Collections!TypeOK
    /\ which = "media" => MomentsMedia!TypeOK
    /\ which = "import" => Import!TypeOK
    /\ which = "backfill" => Backfill!TypeOK
    /\ which = "supplement" => Supplement!TypeOK

\* captureShard, resetMismatchedShards, captureCollectionsEntity, "Completed ranges are
\* journaled": wherever a run stopped, what a directory or a database records of its
\* progress describes the very rows it holds, so that a resumed run neither repeats a
\* row nor steps over one, however its ranges were split: a row that was at the source
\* during the whole pass is captured, and what is verified of the Collections holds no
\* row of a page that was never committed.
ProgressIsExact ==
    /\ PartsAreTyped
    /\ which = "holdings" => Holdings!CursorIsExact /\ Holdings!StandingRowsAreCaptured
    /\ which = "collections" =>
          /\ Collections!CommittedPagesAreKept
          /\ Collections!StandingRowsAreVerified /\ Collections!VerifiedRowsAreCommitted
    /\ which = "backfill" => Backfill!JournalCoversRanges
    /\ which = "supplement" => Supplement!ProgressIsKept

\* verifyFinalCounts: what is built of the holdings has, range by range, as many rows as
\* the source had when the range was counted last; a report of the media is of the
\* evidence as it stands when the report is written; and a supplement that says it is
\* complete is one that build-d1 accepts, until a run with another catalog has been at
\* it.
WhatIsWrittenIsCurrent ==
    [][/\ which = "holdings" => Holdings!BuildIsCounted
       /\ which = "media" => MomentsMedia!ReportIsOfItsEvidence
       /\ which = "supplement" => Supplement!CompleteIsAccepted]_MCVars

\* buildMomentsMediaPlan and the capture: no bytes reach the public bucket unless one
\* of the media that have them may be shown.
PublicIsVisible == which = "media" => MomentsMedia!PublicIsVisible

\* verify: a complete second report and the first one it names attest one and the same
\* evidence, in which every eligible media is stored; and the plan of a recovery holds
\* every row that keeps the capture it was made of from complete.  A
\* supplement that build-d1 accepts was made of one input throughout.
AttestedIsOneState ==
    /\ which = "media" => MomentsMedia!AttestedIsOneState /\ MomentsMedia!PlanCoversTheGap
    /\ which = "supplement" => Supplement!AcceptedIsOneInput

\* importArchive and its verifier: a verified import is the source, with every row
\* loaded once or in quarantine and every aggregate exact; and an import that forbids
\* nothing, of tokens whose Drops are all there, passes its verification.
ImportIsTheSource ==
    which = "import" => Import!VerifiedIsTheSource /\ Import!CleanImportVerifies

\* Once the source stands still and the operator has removed what killed commands left
\* (a temporary file, a torn query) or started anew where a directory cannot come right,
\* a Collections directory verifies, and the supplement is accepted, unless a Drop is
\* gone or its URLs have nothing to keep; the media end with two reports or the plan of
\* a recovery, unless objects were removed from R2; the backfill completes.
Ended ==
    /\ which = "collections" => verified
    /\ which = "media" => MomentsMedia!Settled \/ ~(stored \subseteq bucket)
    /\ which = "backfill" => job.at = "done"
    /\ which = "supplement" => Supplement!Settled
CapturesEnd == which \in {"collections", "media", "backfill", "supplement"} => <>Ended

\* README.md, "refusing to finalize after repeated instability" and "resumable": a run
\* that finds a contradicted range, with attempts left, can reset that range.
ContradictedShardsCanBeReset == which = "holdings" => Holdings!ContradictedShardsCanBeReset

\* "--attempts: Network attempts": an attempt to download from a source that answers
\* whole, which nothing breaks, is not one more failure.
UnbrokenAttemptSucceeds == [][which = "media" => MomentsMedia!UnbrokenAttempt]_MCVars
=============================================================================
