--------------------------- MODULE HoldingsArtwork ---------------------------
(***************************************************************************)
(* The artwork archive of the Compass Holdings.  A capture run downloads   *)
(* the planned originals, stores them in R2 under their digest and appends *)
(* a record per Drop to a checkpoint; failed Drops are tried again by the  *)
(* next run.  What no source can return any more is reviewed, and a        *)
(* release, its D1 shards and its rows in D1 are made from the records.    *)
(***************************************************************************)
EXTENDS Naturals, Sequences, FiniteSets

CONSTANTS
    DropOrder,    \* the Drops to capture, in the order of the plan
    Bytes,        \* the original of each Drop, by its digest
    Large,        \* originals beyond one request
    Candidates,   \* how many approved sources each Drop has
    Fading,       \* Drops whose sources may come and go
    CanConflict,  \* Drops that D1 may hold another row for
    Concurrency,  \* workers of the pool
    TornTails,    \* may an interrupted append leave part of its line behind?
    MaxFaults     \* bound: lost answers, failed appends, kills, changed sources

Drops == {DropOrder[i] : i \in DOMAIN DropOrder}
Originals == {Bytes[d] : d \in Drops}

ArtworkAssumption ==
    /\ DropOrder \in Seq(Drops)
    /\ \A i, j \in DOMAIN DropOrder : DropOrder[i] = DropOrder[j] => i = j
    /\ Candidates \in [Drops -> Nat \ {0}] /\ DOMAIN Bytes = Drops
    /\ Large \subseteq Originals
    /\ Fading \subseteq Drops /\ CanConflict \subseteq Drops
    /\ Concurrency \in Nat \ {0} /\ TornTails \in BOOLEAN /\ MaxFaults \in Nat

VARIABLES
    source,   \* what each source of a Drop would return
    bucket,   \* the originals in R2
    uploads,  \* Drops with an unfinished multipart upload in R2
    records,  \* the latest checkpoint record of each Drop
    tail,     \* the end of the checkpoint file
    phase,    \* of the running command
    todo,     \* Drops of this run no worker has taken yet
    step,     \* what each Drop's worker does next
    tried,    \* the failed attempts of that worker
    jammed,   \* an append of this run has failed
    report,   \* capture-report.json
    review,   \* terminal-unavailable.json
    release,  \* the coverage release, by its Drops
    shards,   \* the D1 shards, one row each
    d1Report, \* the Drops whose rows the D1 report counts
    cursor,   \* the next shard to write or to load
    table,    \* holding_drop_artwork
    remote,   \* the Drops of the verified load
    faults

runVars == <<phase, todo, step, tried, jammed>>
ckptVars == <<records, tail, report, review>>
releaseVars == <<release, shards, d1Report, cursor, table, remote>>
r2Vars == <<bucket, uploads>>
vars == <<source, r2Vars, ckptVars, runVars, releaseVars, faults>>

NoRecord == [status |-> "none", attempts |-> <<>>]
Failed(attempts) == [status |-> "failed", attempts |-> attempts]
Stored == [status |-> "stored", attempts |-> <<>>]
IsStored(d) == records[d] = Stored
IsFailed(d) == records[d].status = "failed"
StoredDrops == {d \in Drops : IsStored(d)}
FailedDrops == {d \in Drops : IsFailed(d)}
Steps == {"none", "download", "head", "put", "create", "complete", "finish",
          "verify", "record", "abandon", "done"}
\* A file that names Drops, and one that has not been written.
Naming(drops) == [made |-> TRUE, drops |-> drops]
NoFile == [made |-> FALSE, drops |-> {}]
NoReport == [made |-> FALSE, stored |-> {}, failed |-> {}, current |-> FALSE]
NoReview == [made |-> FALSE, rows |-> {}, current |-> FALSE]
Attempts == Seq({"gone", "busy", "lost"})

TypeOK ==
    /\ \A d \in Drops : source[d] \in [1 .. Candidates[d] -> {"good", "gone", "busy"}]
    /\ bucket \subseteq Originals /\ uploads \subseteq Drops
    /\ records \in [Drops -> [status : {"none", "stored", "failed"}, attempts : Attempts]]
    /\ tail \in {"empty", "whole", "open", "broken"}
    /\ phase \in {"idle", "header", "capture", "release", "shards", "load"}
    /\ todo \subseteq Drops /\ step \in [Drops -> Steps] /\ tried \in [Drops -> Attempts]
    /\ jammed \in BOOLEAN
    /\ report \in [made : BOOLEAN, stored : SUBSET Drops, failed : SUBSET Drops, current : BOOLEAN]
    /\ review \in [made : BOOLEAN, rows : SUBSET Drops, current : BOOLEAN]
    /\ {release, d1Report, remote} \subseteq [made : BOOLEAN, drops : SUBSET Drops]
    /\ shards \in Seq(Drops) /\ cursor \in 1 .. Len(DropOrder) + 1
    /\ table \in [Drops -> {"none", "row", "other"}]
    /\ faults \in 0 .. MaxFaults

NoStep == [d \in Drops |-> "none"]
NoAttempts == [d \in Drops |-> <<>>]

Init ==
    /\ \E gone \in SUBSET Fading :
          source = [d \in Drops |-> [i \in 1 .. Candidates[d] |->
                       IF d \in gone THEN "gone" ELSE "good"]]
    /\ bucket = {} /\ uploads = {}
    /\ records = [d \in Drops |-> NoRecord] /\ tail = "empty"
    /\ phase = "idle" /\ todo = {} /\ step = NoStep /\ tried = NoAttempts /\ jammed = FALSE
    /\ report = NoReport /\ review = NoReview
    /\ release = NoFile /\ shards = <<>> /\ d1Report = NoFile /\ cursor = 1 /\ remote = NoFile
    /\ \E c \in SUBSET CanConflict :
          table = [d \in Drops |-> IF d \in c THEN "other" ELSE "none"]
    /\ faults = 0

Readable == tail # "broken"

\* Anything appended changes the digest the reports are bound to.
Unbind(r) == [r EXCEPT !.current = FALSE]

\* A line goes to the end of the file, and joins a last line without newline.
Append1(d, record) ==
    /\ records' = [records EXCEPT ![d] = record]
    /\ tail' = IF tail = "open" THEN "broken" ELSE tail
    /\ report' = Unbind(report) /\ review' = Unbind(review)
-----------------------------------------------------------------------------
(* Capture.                                                                  *)

\* Mutant: a Drop that has a record is not tried again.
PendingUntried == {d \in Drops : records[d] = NoRecord}

\* A new run retries what failed.
Pending == {d \in Drops : ~IsStored(d)}

StartCapture ==
    /\ phase = "idle" /\ Readable
    /\ phase' = IF tail = "empty" THEN "header" ELSE "capture"
    /\ todo' = Pending
    /\ UNCHANGED <<step, tried, jammed>>
    /\ UNCHANGED <<source, r2Vars, ckptVars, releaseVars>>

Header ==
    /\ phase = "header"
    /\ tail' = "whole" /\ phase' = "capture"
    /\ UNCHANGED <<records, report, review, todo, step, tried, jammed>>
    /\ UNCHANGED <<source, r2Vars, releaseVars, faults>>

Active == {d \in Drops : step[d] \notin {"none", "done"}}
Go(d, s) == step' = [step EXCEPT ![d] = s]
Same == UNCHANGED <<phase, todo, jammed>> /\ UNCHANGED <<source, releaseVars, faults>>

Take(d) ==
    /\ phase = "capture" /\ d \in todo /\ Cardinality(Active) < Concurrency
    /\ \A i, j \in DOMAIN DropOrder : DropOrder[i] = d /\ j < i => DropOrder[j] \notin todo
    /\ todo' = todo \ {d} /\ Go(d, "download")
    /\ tried' = [tried EXCEPT ![d] = <<>>]
    /\ UNCHANGED <<phase, jammed>>
    /\ UNCHANGED <<source, r2Vars, ckptVars, releaseVars, faults>>

\* The approved sources in turn: the first that returns an image ends the search.
Download(d) ==
    /\ step[d] = "download"
    /\ LET candidate == Len(tried[d]) + 1
           answer == source[d][candidate]
       IN  IF answer = "good" THEN Go(d, "head") /\ UNCHANGED tried
           ELSE /\ tried' = [tried EXCEPT ![d] = Append(@, answer)]
                /\ IF candidate < Candidates[d] THEN UNCHANGED step ELSE Go(d, "abandon")
    /\ UNCHANGED <<r2Vars, ckptVars>> /\ Same

HeadBeforeUpload(d) ==
    /\ step[d] = "head"
    /\ Go(d, IF Bytes[d] \in bucket THEN "verify"
             ELSE IF Bytes[d] \in Large THEN "create" ELSE "put")
    /\ UNCHANGED tried /\ UNCHANGED <<r2Vars, ckptVars>> /\ Same

Put(d) ==
    /\ step[d] = "put" /\ Go(d, "verify")
    /\ bucket' = bucket \cup {Bytes[d]}
    /\ UNCHANGED <<uploads, tried>> /\ UNCHANGED ckptVars /\ Same

CreateMultipart(d) ==
    /\ step[d] = "create"
    /\ IF Bytes[d] \in bucket THEN Go(d, "verify") /\ UNCHANGED uploads
       ELSE Go(d, "complete") /\ uploads' = uploads \cup {d}
    /\ UNCHANGED <<bucket, tried>> /\ UNCHANGED ckptVars /\ Same

\* The bridge looks the key up before it completes the upload.
CompleteMultipart(d) ==
    /\ step[d] = "complete"
    /\ IF Bytes[d] \in bucket THEN Go(d, "verify") /\ uploads' = uploads \ {d}
       ELSE Go(d, "finish") /\ UNCHANGED uploads
    /\ UNCHANGED <<bucket, tried>> /\ UNCHANGED ckptVars /\ Same

FinishMultipart(d) ==
    /\ step[d] = "finish" /\ Go(d, "verify")
    /\ bucket' = bucket \cup {Bytes[d]} /\ uploads' = uploads \ {d}
    /\ UNCHANGED tried /\ UNCHANGED ckptVars /\ Same

\* Every upload is looked up once more before it counts.
VerifyUploaded(d) ==
    /\ step[d] = "verify" /\ Bytes[d] \in bucket /\ Go(d, "record")
    /\ UNCHANGED tried /\ UNCHANGED <<r2Vars, ckptVars>> /\ Same

Outcome(d) == IF step[d] = "record" THEN Stored ELSE Failed(tried[d])

Record(d) ==
    /\ step[d] \in {"record", "abandon"} /\ ~jammed
    /\ Append1(d, Outcome(d)) /\ Go(d, "done")
    /\ UNCHANGED tried /\ UNCHANGED r2Vars /\ Same

\* After a failed append the run is lost; its workers still end.
Drop(d) ==
    /\ step[d] \in {"record", "abandon"} /\ jammed
    /\ Go(d, "done")
    /\ UNCHANGED tried /\ UNCHANGED <<r2Vars, ckptVars>> /\ Same

Leave ==
    /\ phase' = "idle" /\ todo' = {} /\ step' = NoStep /\ tried' = NoAttempts
    /\ jammed' = FALSE

EndCapture ==
    /\ phase = "capture" /\ Active = {} /\ (todo = {} \/ jammed)
    /\ IF jammed THEN UNCHANGED <<report, review>>
       ELSE /\ report' = [made |-> TRUE, stored |-> StoredDrops, failed |-> FailedDrops, current |-> TRUE]
            /\ review' = Unbind(review)
    /\ Leave
    /\ UNCHANGED <<records, tail, source, faults>> /\ UNCHANGED <<r2Vars, releaseVars>>
-----------------------------------------------------------------------------
(* Review, release and load.                                                 *)

IsComplete(r) == r.stored = Drops /\ r.failed = {}
Exhausted(d) ==
    /\ Len(records[d].attempts) = Candidates[d]
    /\ \A i \in DOMAIN records[d].attempts : records[d].attempts[i] = "gone"

\* Only Drops whose every source failed for good may be left out, and the
\* review is bound to the checkpoint and to the report.
MayReview ==
    /\ report.current /\ Readable
    /\ \A d \in FailedDrops : Exhausted(d)
    /\ report.failed = FailedDrops /\ report.stored \cup FailedDrops = Drops

ReviewUnavailable ==
    /\ phase = "idle" /\ MayReview
    /\ review' = [made |-> TRUE, rows |-> FailedDrops, current |-> TRUE]
    /\ UNCHANGED <<records, tail, report, source>>
    /\ UNCHANGED <<r2Vars, runVars, releaseVars>>

LeftOut == IF IsComplete(report) THEN {} ELSE review.rows

\* The release is refused while a planned Drop is neither stored nor reviewed.
MayFinalize ==
    /\ report.made /\ Readable
    /\ IsComplete(report) \/ review.current
    /\ Cardinality(report.stored) + Cardinality(LeftOut) = Cardinality(Drops)
    /\ \A d \in Drops \ LeftOut : IsStored(d)

StartFinalize ==
    /\ phase = "idle" /\ MayFinalize /\ ~remote.made
    /\ phase' = "release"
    /\ UNCHANGED <<todo, step, tried, jammed>>
    /\ UNCHANGED <<source, r2Vars, ckptVars, releaseVars>>

WriteRelease ==
    /\ phase = "release"
    /\ release' = Naming(Drops \ LeftOut) /\ cursor' = 1 /\ phase' = "shards"
    /\ UNCHANGED <<shards, d1Report, table, remote, todo, step, tried, jammed>>
    /\ UNCHANGED <<source, r2Vars, ckptVars, faults>>

\* The rows of a release in the order of the plan: its i-th Drop has i of them up to itself.
UpTo(p, drops) == {q \in 1 .. p : DropOrder[q] \in drops}
RowsOf(drops) ==
    [i \in 1 .. Cardinality(drops) |->
        DropOrder[CHOOSE p \in DOMAIN DropOrder :
                     DropOrder[p] \in drops /\ Cardinality(UpTo(p, drops)) = i]]

\* A shard that is there must be the same; the report follows the last one.
WriteShard ==
    /\ phase = "shards"
    /\ LET rows == RowsOf(release.drops)
       IN  IF cursor <= Len(rows)
             THEN IF cursor <= Len(shards) /\ shards[cursor] # rows[cursor]
                    THEN phase' = "idle" /\ cursor' = 1 /\ UNCHANGED <<shards, d1Report>>
                    ELSE /\ shards' = IF cursor <= Len(shards) THEN shards
                                      ELSE Append(shards, rows[cursor])
                         /\ cursor' = cursor + 1 /\ UNCHANGED <<phase, d1Report>>
             ELSE /\ d1Report' = release /\ phase' = "idle" /\ cursor' = 1
                  /\ UNCHANGED shards
    /\ UNCHANGED <<release, table, remote, todo, step, tried, jammed>>
    /\ UNCHANGED <<source, r2Vars, ckptVars, faults>>

StartLoad ==
    /\ phase = "idle" /\ d1Report.made /\ ~remote.made
    /\ Cardinality(release.drops) = Cardinality(d1Report.drops)
    /\ phase' = "load" /\ cursor' = 1
    /\ UNCHANGED <<release, shards, d1Report, table, remote, todo, step, tried, jammed>>
    /\ UNCHANGED <<source, r2Vars, ckptVars>>

\* INSERT OR IGNORE: a row that is there stays.
LoadShard ==
    /\ phase = "load" /\ cursor <= Cardinality(d1Report.drops)
    /\ table' = [table EXCEPT ![shards[cursor]] = IF @ = "none" THEN "row" ELSE @]
    /\ cursor' = cursor + 1
    /\ UNCHANGED <<release, shards, d1Report, remote>> /\ UNCHANGED runVars
    /\ UNCHANGED <<source, r2Vars, ckptVars, faults>>

TableIs(drops) == \A d \in Drops : table[d] = IF d \in drops THEN "row" ELSE "none"

\* Every row of the table is read back and compared with the release.
VerifyLoad ==
    /\ phase = "load" /\ cursor > Cardinality(d1Report.drops)
    /\ remote' = IF TableIs(release.drops) THEN release ELSE remote
    /\ phase' = "idle" /\ cursor' = 1
    /\ UNCHANGED <<release, shards, d1Report, table, todo, step, tried, jammed>>
    /\ UNCHANGED <<source, r2Vars, ckptVars, faults>>
-----------------------------------------------------------------------------
(* Faults.                                                                   *)

Fault == faults < MaxFaults /\ faults' = faults + 1

\* A source comes, goes, or answers with an error that will pass.
SourceChanges(d) ==
    /\ Fault
    /\ \E i \in 1 .. Candidates[d] : \E answer \in {"good", "gone", "busy"} \ {source[d][i]} :
          source' = [source EXCEPT ![d][i] = answer]
    /\ UNCHANGED <<r2Vars, ckptVars, runVars, releaseVars>>

\* The connection to a source is cut: the search ends there.
LoseDownload(d) ==
    /\ step[d] = "download" /\ Fault
    /\ tried' = [tried EXCEPT ![d] = Append(@, "lost")] /\ Go(d, "abandon")
    /\ UNCHANGED <<phase, todo, jammed, source>> /\ UNCHANGED <<r2Vars, ckptVars, releaseVars>>

\* The bridge stays without an answer after every retry; what it was asked to
\* do may have been done.  A single put falls back to a multipart upload.
LoseBridge(d) ==
    /\ step[d] \in {"head", "put", "create", "complete", "finish", "verify"} /\ Fault
    /\ \/ bucket' = bucket /\ uploads' = uploads
       \/ /\ step[d] \in {"put", "finish"} /\ bucket' = bucket \cup {Bytes[d]}
          /\ uploads' = IF step[d] = "finish" THEN uploads \ {d} ELSE uploads
       \/ step[d] = "create" /\ uploads' = uploads \cup {d} /\ bucket' = bucket
       \/ step[d] = "complete" /\ uploads' = uploads \ {d} /\ bucket' = bucket
    /\ \/ Go(d, "abandon") /\ tried' = [tried EXCEPT ![d] = <<>>]
       \/ step[d] = "put" /\ Go(d, "create") /\ UNCHANGED tried
    /\ UNCHANGED <<phase, todo, jammed, source>> /\ UNCHANGED <<ckptVars, releaseVars>>

\* What an append leaves when it is cut short.
Cut(d) ==
    \/ UNCHANGED ckptVars
    \/ Append1(d, Outcome(d))
    \/ /\ TornTails /\ records' = [records EXCEPT ![d] = Outcome(d)]
       /\ tail' = (IF tail = "open" THEN "broken" ELSE "open")
       /\ report' = Unbind(report) /\ review' = Unbind(review)
    \/ /\ TornTails /\ tail' = "broken" /\ UNCHANGED records
       /\ report' = Unbind(report) /\ review' = Unbind(review)

FailAppend(d) ==
    /\ step[d] \in {"record", "abandon"} /\ ~jammed /\ Fault
    /\ Cut(d) /\ jammed' = TRUE /\ Go(d, "done")
    /\ UNCHANGED <<phase, todo, tried, source>> /\ UNCHANGED <<r2Vars, releaseVars>>

Crash ==
    /\ phase # "idle" /\ Fault
    /\ \/ UNCHANGED ckptVars
       \/ /\ phase = "header" /\ TornTails /\ tail' \in {"open", "broken"}
          /\ UNCHANGED <<records, report, review>>
       \/ \E d \in Active : step[d] \in {"record", "abandon"} /\ ~jammed /\ Cut(d)
    /\ Leave /\ cursor' = 1
    /\ UNCHANGED <<source, release, shards, d1Report, table, remote>> /\ UNCHANGED r2Vars
-----------------------------------------------------------------------------
RunStep ==
    \/ Header \/ EndCapture \/ WriteRelease \/ WriteShard \/ LoadShard \/ VerifyLoad
    \/ \E d \in Drops :
          \/ Take(d) \/ Download(d) \/ HeadBeforeUpload(d) \/ Put(d) \/ CreateMultipart(d)
          \/ CompleteMultipart(d) \/ FinishMultipart(d) \/ VerifyUploaded(d)
          \/ Record(d) \/ Drop(d)

\* The operator goes on to the next command that the files allow.
Operate ==
    /\ \/ StartLoad
       \/ StartFinalize /\ (~d1Report.made \/ d1Report.drops # Drops \ LeftOut)
       \/ ReviewUnavailable /\ ~review.current
       \/ StartCapture /\ ~remote.made /\ ~MayFinalize /\ ~MayReview
    /\ UNCHANGED faults

\* Now and then a command is given again, or too early.
Repeat == Fault /\ (StartCapture \/ StartFinalize \/ StartLoad)

Next ==
    \/ RunStep \/ Operate \/ Repeat \/ Crash
    \/ \E d \in Drops : LoseDownload(d) \/ LoseBridge(d) \/ FailAppend(d)
    \/ \E d \in Fading : SourceChanges(d)

Spec == Init /\ [][Next]_vars

\* A command goes on by itself, and the operator gives the next one.
Fairness == WF_vars(RunStep) /\ WF_vars(Operate)
FairSpec == Spec /\ Fairness
-----------------------------------------------------------------------------
(* Properties.                                                               *)

\* finalizeHoldingsArtwork: whatever was retried, lost or reviewed before, every
\* Drop of a release has its original in R2, and a Drop is left out only while
\* its latest record says that every approved source has failed for good.
ReleaseIsArchived ==
    /\ release.made => \A d \in release.drops : Bytes[d] \in bucket
    /\ phase = "shards" => \A d \in Drops \ release.drops : IsFailed(d) /\ Exhausted(d)

\* loadHoldingsArtworkD1: once a load is verified, the rows of the table are
\* those of the shards the D1 report counts, and nobody else's.
VerifiedLoadIsExact ==
    remote.made =>
        /\ TableIs(remote.drops) /\ remote = d1Report
        /\ \A i \in DOMAIN RowsOf(remote.drops) : shards[i] = RowsOf(remote.drops)[i]

\* Two Drops with the same original may upload it at the same time: without a
\* fault no multipart upload is left open in R2.
OrphansNeedFaults == phase = "idle" /\ faults = 0 => uploads = {}

ShardsDiffer ==
    release.made /\ \E i \in DOMAIN shards \cap DOMAIN RowsOf(release.drops) :
        shards[i] # RowsOf(release.drops)[i]

\* The workflow ends with a verified load once the sources have settled, unless
\* a torn append has broken the checkpoint, D1 holds another row, or an earlier
\* release has left other shards behind.
Unhindered == \A d \in Drops : \A i \in 1 .. Candidates[d] : source[d][i] # "busy"
Ended ==
    remote.made \/ ~Readable \/ ShardsDiffer \/ \E d \in Drops : table[d] = "other"
=============================================================================
