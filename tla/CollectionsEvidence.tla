------------------------ MODULE CollectionsEvidence ------------------------
(***************************************************************************)
(* The files of one Collections snapshot directory and the commands that   *)
(* write them: compare, media, enrich-drops, verify, build-d1, package     *)
(* (tools/collections-backup/cli.mjs), and their two readers outside it,   *)
(* the publication plan and the D1 loader.  Every command is a process of  *)
(* its own, holds no lock, reads some files, and writes others later.  The *)
(* only thing that keeps the evidence together is the digests the files    *)
(* quote of each other.                                                    *)
(*                                                                         *)
(* A digest is the stamp of the command that wrote the file: every file    *)
(* carries a time of its own (finishedAt, comparedAt, generatedAt), so a   *)
(* file written again never has an old digest.  Two exceptions are modelled *)
(* by their content: checksums.sha256 and the media checkpoint, which is   *)
(* only appended to.  The normalized rows are fixed once the directory has *)
(* a manifest: every later snapshot --resume derives the same ones.        *)
(***************************************************************************)
EXTENDS Naturals, FiniteSets

CONSTANTS
    Refs,        \* logos and banners to capture
    Operator,    \* the session that follows Order
    Others,      \* sessions that repeat commands while it works
    Order,       \* the commands in the order the operator runs them
    MaxFaults,   \* bound: kills, repeated commands, failing downloads and comparisons
    MaxFresh     \* bound: times the operator starts a fresh directory

VARIABLES
    manifest,    \* manifest.json
    stability,   \* validation/stability.json
    checkpoint,  \* media/checkpoint.ndjson: latest status of each reference
    media,       \* media/manifest.json
    progress,    \* drop-supplement/state: the manifest it is bound to, 0 if absent
    supplement,  \* drop-supplement/manifest.json
    checksums,   \* checksums.sha256
    report,      \* validation/report.json
    sidecar,     \* validation/report.sha256: the report it quotes
    d1,          \* d1/
    archive,     \* the package and its .sha256
    litter,      \* what killed commands left: see Litters
    job,         \* what each session is running
    accepted,    \* readers that have accepted the directory: "plan", "load"
    faults, fresh

files == <<manifest, stability, checkpoint, media, progress, supplement, checksums,
           report, sidecar, d1, archive, litter>>
vars == <<files, job, accepted, faults, fresh>>

Sessions == {Operator} \cup Others
Commands == {"compare", "media", "enrich", "verify", "build", "package"}
Readers == {"plan", "load"}
Statuses == {"none", "stored", "excluded", "failed"}
(* A temporary file; a media checkpoint whose last line has lost its       *)
(* newline, or is not JSON.                                                *)
Litters == {"temporary", "unended", "torn"}

ASSUME CollectionsEvidenceAssumption ==
    /\ Operator \notin Others
    /\ MaxFaults \in Nat /\ MaxFresh \in Nat
    /\ IsFiniteSet(Refs) /\ IsFiniteSet(Others)

Unmade == [r \in Refs |-> "none"]
Final(rec) == \A r \in Refs : rec[r] \in {"stored", "excluded"}
Counts(rec) == [k \in Statuses |-> Cardinality({r \in Refs : rec[r] = k})]
Stored(rec) == {r \in Refs : rec[r] = "stored"}

(* What a finished snapshot capture leaves: no consistency, no media.      *)
Captured(t) == [at |-> t, fin |-> t, cons |-> 0, stable |-> FALSE,
                media |-> [at |-> 0, rec |-> Unmade]]

NoListing == [stability |-> 0, media |-> 0, checkpoint |-> Unmade, supplement |-> 0, d1 |-> 0]
NoReport == [at |-> 0, verified |-> FALSE, manifest |-> 0, checked |-> FALSE,
             counts |-> Counts(Unmade), checksums |-> NoListing, saw |-> Unmade]
NoInputs == [manifest |-> 0]
NoBuild == [dir |-> FALSE, at |-> 0, portable |-> FALSE, inputs |-> NoInputs, rec |-> Unmade]
NoArchive == [made |-> FALSE, sidecar |-> FALSE, head |-> <<>>, tail |-> <<>>, inputs |-> NoInputs,
              build |-> 0]
Idle == [cmd |-> "idle"]

Emptied(t) ==
    [manifest |-> Captured(t), stability |-> [at |-> 0, fin |-> 0, stable |-> FALSE],
     media |-> [at |-> 0, rec |-> Unmade],
     supplement |-> [at |-> 0, source |-> 0, complete |-> FALSE]]

Init ==
    /\ manifest = Emptied(1).manifest /\ stability = Emptied(1).stability
    /\ checkpoint = Unmade /\ media = Emptied(1).media
    /\ progress = 0 /\ supplement = Emptied(1).supplement
    /\ checksums = NoListing /\ report = NoReport /\ sidecar = 0
    /\ d1 = NoBuild /\ archive = NoArchive
    /\ litter = {}
    /\ job = [s \in Sessions |-> Idle]
    /\ accepted = {} /\ faults = 0 /\ fresh = 0

----------------------------------------------------------------------------
(* What the readers of the directory demand.                               *)

(* Everything the digest of the bound inputs covers.                       *)
Inputs == [manifest |-> manifest.at, report |-> report.at, sidecar |-> sidecar,
           checksums |-> checksums, stability |-> stability.at, media |-> media.at,
           checkpoint |-> checkpoint, supplement |-> supplement.at]

\* Mutant: the walk of the directory leaves validation/ out.
ListingSkipsValidation ==
    [stability |-> 0, media |-> media.at, checkpoint |-> checkpoint,
     supplement |-> supplement.at, d1 |-> d1.at]

Listing == [stability |-> stability.at, media |-> media.at, checkpoint |-> checkpoint,
            supplement |-> supplement.at, d1 |-> d1.at]

MediaIsPublishable ==
    /\ manifest.media.at # 0 /\ Final(manifest.media.rec)
    /\ report.checked

ReportIsCurrent ==
    /\ sidecar = report.at
    /\ report.verified /\ report.manifest = manifest.at

ListingIsCurrent ==
    /\ report.checksums = checksums
    /\ checksums.media = media.at /\ checksums.checkpoint = checkpoint

StabilityIsBound ==
    /\ manifest.cons # 0 /\ manifest.stable
    /\ checksums.stability = stability.at
    /\ stability.stable /\ stability.at = manifest.cons /\ stability.fin = manifest.fin

MediaCountsAgree ==
    /\ media.at # 0 /\ Final(media.rec) /\ "torn" \notin litter
    /\ Counts(checkpoint) = Counts(media.rec)
    /\ Counts(checkpoint) = Counts(manifest.media.rec)
    /\ Counts(checkpoint) = report.counts

\* Mutant: any complete supplement will do.
SupplementIsComplete == supplement.at # 0 /\ supplement.complete

SupplementIsBound ==
    /\ supplement.at # 0 /\ supplement.complete
    /\ supplement.source = manifest.at

(* bindCollectionsSnapshotInputs.  Its reads are one step: each file it    *)
(* parses is checked against the digest of another.                        *)
Bound ==
    /\ MediaIsPublishable /\ ReportIsCurrent /\ ListingIsCurrent
    /\ StabilityIsBound /\ MediaCountsAgree /\ SupplementIsBound

BuildIsBound == d1.at # 0 /\ d1.inputs = Inputs

(* loadCollectionMediaPublicationPlan asks less of the directory than the  *)
(* loader: it never reads the stability report nor the report's sidecar.   *)
SnapshotIsValidated ==
    /\ report.verified /\ report.manifest = manifest.at
    /\ ListingIsCurrent

UnifiedD1PlanHolds ==
    /\ d1.at # 0 /\ d1.inputs.manifest = manifest.at
    /\ supplement.complete /\ d1.inputs.supplement = supplement.at
    /\ Stored(d1.rec) = Stored(checkpoint)

PlanAccepts ==
    MediaIsPublishable /\ SnapshotIsValidated /\ MediaCountsAgree /\ UnifiedD1PlanHolds

\* Mutant: the loader compares the snapshot a build names and nothing else.
LoadComparesManifest == d1.at # 0 /\ d1.inputs.manifest = manifest.at

LoadAccepts == ReportIsCurrent /\ Bound /\ BuildIsBound

----------------------------------------------------------------------------
(* The commands, each as the steps between its reads and its writes.       *)

OfListing(l) == {l.stability, l.media, l.supplement, l.d1}
OfInputs(i) ==
    IF i = NoInputs THEN {}
    ELSE {i.manifest, i.report, i.sidecar, i.stability, i.media, i.supplement}
         \cup OfListing(i.checksums)
OfJob(j) ==
    (IF "at" \in DOMAIN j THEN {j.at} ELSE {})
    \cup (IF "m" \in DOMAIN j THEN {j.m.at, j.m.fin, j.m.cons, j.m.media.at} ELSE {})
    \cup (IF "inputs" \in DOMAIN j THEN OfInputs(j.inputs) ELSE {})

Free(s, c) == job[s] = Idle /\ \A o \in Sessions : job[o].cmd # c
At(s, c, n) == job[s].cmd = c /\ job[s].step = n
Run(s, j) == job' = [job EXCEPT ![s] = j]
Advance(s) == job' = [job EXCEPT ![s].step = @ + 1]
Done(s) == job' = [job EXCEPT ![s] = Idle]

(* A digest that no file and no running command holds.                     *)
Digests ==
    UNION {{manifest.at, manifest.fin, manifest.cons, manifest.media.at, stability.at,
            stability.fin, media.at, progress, supplement.at, supplement.source, report.at,
            report.manifest, sidecar, d1.at, archive.build},
           OfListing(checksums), OfListing(report.checksums),
           OfInputs(d1.inputs), OfInputs(archive.inputs),
           UNION {OfJob(job[s]) : s \in Sessions}}

Stamp == CHOOSE n \in 1..(Cardinality(Digests) + 1) : n \notin Digests

(* snapshot --resume of a finished capture: a new manifest without the     *)
(* consistency and the media of the old one.                               *)
Resume(s) ==
    /\ job[s] = Idle
    /\ manifest' = Captured(Stamp)
    /\ UNCHANGED <<stability, checkpoint, media, progress, supplement, checksums, report,
                   sidecar, d1, archive, litter, job>>

StartCompare(s) ==
    /\ Free(s, "compare")
    /\ Run(s, [cmd |-> "compare", step |-> 1, at |-> Stamp, m |-> manifest])
    /\ UNCHANGED files

WriteStability(s, stable) ==
    /\ At(s, "compare", 1)
    /\ stability' = [at |-> job[s].at, fin |-> job[s].m.fin, stable |-> stable]
    /\ Advance(s)
    /\ UNCHANGED <<manifest, checkpoint, media, progress, supplement, checksums, report,
                   sidecar, d1, archive, litter>>

(* The manifest that compare read at its start, with the verdict.          *)
WriteConsistency(s) ==
    /\ At(s, "compare", 2)
    /\ manifest' = [job[s].m EXCEPT !.at = job[s].at, !.cons = job[s].at,
                                    !.stable = stability.stable]
    /\ Done(s)
    /\ UNCHANGED <<stability, checkpoint, media, progress, supplement, checksums, report,
                   sidecar, d1, archive, litter>>

(* Without --retry-failures a reference with any record is left alone.     *)
(* readCheckpoint throws on a line that is not JSON, the last one too.     *)
StartMedia(s, retry) ==
    /\ Free(s, "media") /\ "torn" \notin litter
    /\ Run(s, [cmd |-> "media", step |-> 1, at |-> Stamp, m |-> manifest,
               todo |-> {r \in Refs : checkpoint[r] = "none"
                                      \/ (retry /\ checkpoint[r] = "failed")}])
    /\ UNCHANGED files

(* A record appended to a line without its newline makes one line of two.  *)
Download(s, r, outcome) ==
    /\ At(s, "media", 1) /\ r \in job[s].todo
    /\ checkpoint' = [checkpoint EXCEPT ![r] = outcome]
    /\ litter' = IF "unended" \in litter THEN (litter \ {"unended"}) \cup {"torn"} ELSE litter
    /\ job' = [job EXCEPT ![s].todo = @ \ {r}]
    /\ UNCHANGED <<manifest, stability, media, progress, supplement, checksums, report,
                   sidecar, d1, archive>>

WriteMedia(s) ==
    /\ At(s, "media", 1) /\ job[s].todo = {}
    /\ media' = [at |-> job[s].at, rec |-> checkpoint]
    /\ Advance(s)
    /\ UNCHANGED <<manifest, stability, checkpoint, progress, supplement, checksums,
                   report, sidecar, d1, archive, litter>>

(* The manifest that media read at its start, with the media it captured.  *)
WriteMediaStatus(s) ==
    /\ At(s, "media", 2)
    /\ manifest' = [job[s].m EXCEPT !.at = job[s].at, !.media = media]
    /\ Done(s)
    /\ UNCHANGED <<stability, checkpoint, media, progress, supplement, checksums, report,
                   sidecar, d1, archive, litter>>

(* A supplement or a page state of another manifest refuses the command.   *)
StartEnrich(s) ==
    /\ Free(s, "enrich")
    /\ supplement.at # 0 => supplement.source = manifest.at
    /\ progress \in {0, manifest.at}
    /\ Run(s, [cmd |-> "enrich", step |-> 1, at |-> Stamp, m |-> manifest])
    /\ progress' = manifest.at
    /\ UNCHANGED <<manifest, stability, checkpoint, media, supplement, checksums, report,
                   sidecar, d1, archive, litter>>

WriteSupplement(s, complete) ==
    /\ At(s, "enrich", 1)
    /\ supplement' = [at |-> job[s].at, source |-> job[s].m.at, complete |-> complete]
    /\ Done(s)
    /\ UNCHANGED <<manifest, stability, checkpoint, media, progress, checksums, report,
                   sidecar, d1, archive, litter>>

StartVerify(s) ==
    /\ Free(s, "verify")
    /\ Run(s, [cmd |-> "verify", step |-> 1, at |-> Stamp, m |-> manifest])
    /\ UNCHANGED files

(* verifyCompletedMedia: nothing is checked of media that are incomplete.  *)
MediaIsSound ==
    /\ media.at # 0
    /\ \A r \in Refs : checkpoint[r] # "none"
    /\ "torn" \notin litter
    /\ Counts(checkpoint) = Counts(media.rec)

CheckSnapshot(s) ==
    /\ At(s, "verify", 1)
    /\ LET claimed == job[s].m.media.at # 0 /\ Final(job[s].m.media.rec)
       IN job' = [job EXCEPT ![s] =
             [cmd |-> "verify", step |-> 2, at |-> job[s].at, m |-> manifest,
              ok |-> claimed => MediaIsSound, checked |-> claimed /\ Final(media.rec),
              saw |-> checkpoint]]
    /\ UNCHANGED files

(* A temporary file fails the verification; it is not in the listing.      *)
WriteChecksums(s) ==
    /\ At(s, "verify", 2)
    /\ checksums' = Listing
    /\ job' = [job EXCEPT ![s].step = 3, ![s].ok = @ /\ "temporary" \notin litter]
    /\ UNCHANGED <<manifest, stability, checkpoint, media, progress, supplement, report,
                   sidecar, d1, archive, litter>>

WriteReport(s) ==
    /\ At(s, "verify", 3)
    /\ report' = [at |-> job[s].at, verified |-> job[s].ok, manifest |-> job[s].m.at,
                  checked |-> job[s].checked, counts |-> Counts(job[s].saw),
                  checksums |-> checksums, saw |-> job[s].saw]
    /\ Advance(s)
    /\ UNCHANGED <<manifest, stability, checkpoint, media, progress, supplement,
                   checksums, sidecar, d1, archive, litter>>

WriteSidecar(s) ==
    /\ At(s, "verify", 4)
    /\ sidecar' = report.at
    /\ Done(s)
    /\ UNCHANGED <<manifest, stability, checkpoint, media, progress, supplement,
                   checksums, report, d1, archive, litter>>

StartBuild(s) ==
    /\ Free(s, "build")
    /\ ReportIsCurrent /\ report.checked
    /\ ~d1.dir
    /\ Bound
    /\ Run(s, [cmd |-> "build", step |-> 1, at |-> Stamp, inputs |-> Inputs])
    /\ d1' = [NoBuild EXCEPT !.dir = TRUE]
    /\ UNCHANGED <<manifest, stability, checkpoint, media, progress, supplement, checksums,
                   report, sidecar, archive, litter>>

(* The rows are read after the inputs were bound, and a first report is    *)
(* written before they are bound again.                                    *)
WriteBuild(s) ==
    /\ At(s, "build", 1)
    /\ IF job[s].inputs.supplement = supplement.at
       THEN /\ d1' = [d1 EXCEPT !.at = job[s].at, !.inputs = job[s].inputs, !.rec = checkpoint]
            /\ Advance(s)
       ELSE d1' = NoBuild /\ Done(s)
    /\ UNCHANGED <<manifest, stability, checkpoint, media, progress, supplement,
                   checksums, report, sidecar, archive, litter>>

Rebound(inputs) == Bound /\ Inputs = inputs

FinishBuild(s) ==
    /\ At(s, "build", 2)
    /\ d1' = IF Rebound(job[s].inputs) THEN [d1 EXCEPT !.portable = TRUE] ELSE NoBuild
    /\ Done(s)
    /\ UNCHANGED <<manifest, stability, checkpoint, media, progress, supplement,
                   checksums, report, sidecar, archive, litter>>

StartPackage(s) ==
    /\ Free(s, "package")
    /\ ~archive.made
    /\ ReportIsCurrent /\ Bound /\ BuildIsBound /\ d1.portable
    /\ Run(s, [cmd |-> "package", step |-> 1, at |-> Stamp, inputs |-> Inputs, build |-> d1.at])
    /\ UNCHANGED files

(* tar reads the directory entry by entry, in no order the command knows.  *)
HeadFiles == <<checksums, d1.at>>
TailFiles == <<manifest.at, stability.at, media.at, checkpoint, supplement.at, report.at, sidecar>>

TarHead(s) ==
    /\ At(s, "package", 1)
    /\ archive' = [NoArchive EXCEPT !.made = TRUE, !.head = HeadFiles]
    /\ Advance(s)
    /\ UNCHANGED <<manifest, stability, checkpoint, media, progress, supplement,
                   checksums, report, sidecar, d1, litter>>

TarTail(s) ==
    /\ At(s, "package", 2)
    /\ archive' = [archive EXCEPT !.tail = TailFiles]
    /\ Advance(s)
    /\ UNCHANGED <<manifest, stability, checkpoint, media, progress, supplement,
                   checksums, report, sidecar, d1, litter>>

\* Mutant: the inputs are not bound again after tar.
PackageWithoutRebind(s) ==
    /\ At(s, "package", 3)
    /\ archive' = [archive EXCEPT !.sidecar = TRUE, !.inputs = job[s].inputs,
                                  !.build = job[s].build]
    /\ Done(s)
    /\ UNCHANGED <<manifest, stability, checkpoint, media, progress, supplement,
                   checksums, report, sidecar, d1, litter>>

FinishPackage(s) ==
    /\ At(s, "package", 3)
    /\ archive' = IF Rebound(job[s].inputs) /\ d1.at = job[s].build /\ d1.portable
                  THEN [archive EXCEPT !.sidecar = TRUE, !.inputs = job[s].inputs,
                                       !.build = job[s].build]
                  ELSE NoArchive
    /\ Done(s)
    /\ UNCHANGED <<manifest, stability, checkpoint, media, progress, supplement,
                   checksums, report, sidecar, d1, litter>>

Plan ==
    /\ PlanAccepts
    /\ accepted' = accepted \cup {"plan"}
    /\ UNCHANGED <<files, job>>

Load ==
    /\ LoadAccepts
    /\ accepted' = accepted \cup {"load"}
    /\ UNCHANGED <<files, job>>

----------------------------------------------------------------------------
(* The operator runs the first command of Order whose result is missing.   *)

Missing(c) ==
    CASE c = "compare" -> manifest.cons = 0 \/ ~manifest.stable \/ stability.at # manifest.cons
      [] c = "media"   -> ~(manifest.media.at # 0 /\ Final(manifest.media.rec))
                          \/ Counts(media.rec) # Counts(manifest.media.rec)
      [] c = "enrich"  -> ~supplement.complete
      [] c = "verify"  -> ~(ReportIsCurrent /\ report.checked /\ ListingIsCurrent
                            /\ checksums.stability = stability.at)
      [] c = "build"   -> ~(d1.portable /\ BuildIsBound)
      [] c = "package" -> ~(archive.sidecar /\ archive.inputs = Inputs)

Due(c) ==
    \E i \in DOMAIN Order :
        /\ Order[i] = c /\ Missing(c)
        /\ \A k \in 1..(i - 1) : ~Missing(Order[k])

Starts(s, c, retry) ==
    \/ c = "compare" /\ StartCompare(s)
    \/ c = "media" /\ StartMedia(s, retry)
    \/ c = "enrich" /\ StartEnrich(s)
    \/ c = "verify" /\ StartVerify(s)
    \/ c = "build" /\ StartBuild(s)
    \/ c = "package" /\ StartPackage(s)

(* What the refusals ask an operator to remove by hand, when nothing runs. *)
Quiet == \A s \in Sessions : job[s] = Idle
Unreadable == "torn" \in litter
LeftBuild == d1.dir /\ ~(d1.portable /\ BuildIsBound)
LeftArchive == archive.made /\ ~(archive.sidecar /\ archive.inputs = Inputs)

Operate ==
    /\ ~(Quiet /\ ("temporary" \in litter \/ Unreadable \/ LeftBuild \/ LeftArchive))
    /\ \E c \in Commands : Due(c) /\ Starts(Operator, c, TRUE)
    /\ UNCHANGED <<accepted, faults, fresh>>

Read ==
    /\ (Plan /\ "plan" \notin accepted) \/ (Load /\ "load" \notin accepted)
    /\ UNCHANGED <<faults, fresh>>

(* A running command goes on; downloads and comparisons go well unless a   *)
(* fault is spent on them.                                                 *)
Continue(s) ==
    \/ WriteStability(s, TRUE) \/ WriteConsistency(s)
    \/ \E r \in Refs, o \in {"stored", "excluded"} : Download(s, r, o)
    \/ WriteMedia(s) \/ WriteMediaStatus(s)
    \/ WriteSupplement(s, TRUE)
    \/ CheckSnapshot(s) \/ WriteChecksums(s) \/ WriteReport(s) \/ WriteSidecar(s)
    \/ WriteBuild(s) \/ FinishBuild(s)
    \/ TarHead(s) \/ TarTail(s) \/ FinishPackage(s)

Work(s) == Continue(s) /\ UNCHANGED <<accepted, faults, fresh>>

Fault == faults < MaxFaults /\ faults' = faults + 1 /\ UNCHANGED <<accepted, fresh>>

Falter(s) ==
    /\ Fault
    /\ WriteStability(s, FALSE) \/ WriteSupplement(s, FALSE)
       \/ \E r \in Refs : Download(s, r, "failed")

Repeat(s) ==
    /\ s \in Others /\ Fault
    /\ Resume(s) \/ \E c \in Commands, retry \in BOOLEAN : Starts(s, c, retry)

(* A kill between any two steps: a write that it cuts leaves a temporary   *)
(* file, and an append that it cuts leaves a line of the media checkpoint  *)
(* without its newline, or only a part of a line.                          *)
Leavings(s) ==
    {"temporary"} \cup (IF ~At(s, "media", 1) THEN {}
                       ELSE {"unended"} \cup (IF job[s].todo # {} THEN {"torn"} ELSE {}))

Kill(s) ==
    /\ Fault /\ job[s] # Idle
    /\ \/ UNCHANGED litter
       \/ \E l \in Leavings(s) : litter' = litter \cup {l}
    /\ Done(s)
    /\ UNCHANGED <<manifest, stability, checkpoint, media, progress, supplement,
                   checksums, report, sidecar, d1, archive>>

Tidy ==
    /\ Quiet
    /\ \/ /\ "temporary" \in litter /\ litter' = litter \ {"temporary"}
          /\ UNCHANGED <<d1, archive>>
       \/ LeftBuild /\ d1' = NoBuild /\ UNCHANGED <<litter, archive>>
       \/ LeftArchive /\ archive' = NoArchive /\ UNCHANGED <<litter, d1>>
    /\ UNCHANGED <<manifest, stability, checkpoint, media, progress, supplement, checksums,
                   report, sidecar, job, accepted, faults, fresh>>

(* "If the bound snapshot or archive inputs change, start in a fresh       *)
(* snapshot directory": the whole workflow again.  The operator does the   *)
(* same, unasked, for a checkpoint that no command reads any more.         *)
StaleSupplement == {progress, supplement.source} \ {0, manifest.at} # {}

Fresh ==
    /\ Quiet /\ (StaleSupplement \/ Unreadable) /\ fresh < MaxFresh
    /\ fresh' = fresh + 1
    /\ manifest' = Emptied(Stamp).manifest /\ stability' = Emptied(Stamp).stability
    /\ checkpoint' = Unmade /\ media' = Emptied(Stamp).media
    /\ progress' = 0 /\ supplement' = Emptied(Stamp).supplement
    /\ checksums' = NoListing /\ report' = NoReport /\ sidecar' = 0
    /\ d1' = NoBuild /\ archive' = NoArchive /\ litter' = {}
    /\ UNCHANGED <<job, accepted, faults>>

SessionStep == \E s \in Sessions : Work(s)
Disturb == \E s \in Sessions : Falter(s) \/ Repeat(s) \/ Kill(s)
Served == accepted = Readers /\ archive.sidecar /\ Quiet
Finished == Served /\ UNCHANGED vars

Next == Operate \/ Read \/ SessionStep \/ Disturb \/ Tidy \/ Fresh \/ Finished

Spec == Init /\ [][Next]_vars

FairSpec ==
    /\ Spec
    /\ \A s \in Sessions : WF_vars(Work(s))
    /\ WF_vars(Operate) /\ WF_vars(Read)
    /\ WF_vars(Tidy) /\ WF_vars(Fresh)

----------------------------------------------------------------------------
TypeOK ==
    /\ manifest.at \in Nat \ {0} /\ stability.at \in Nat
    /\ checkpoint \in [Refs -> Statuses]
    /\ sidecar \in Nat /\ progress \in Nat
    /\ report.at \in Nat /\ report.verified \in BOOLEAN
    /\ d1.at \in Nat /\ litter \subseteq Litters
    /\ accepted \subseteq Readers
    /\ faults \in 0..MaxFaults /\ fresh \in 0..MaxFresh

(* A database that was built is the one that was verified: the media rows  *)
(* it holds are those the verification went through, although neither      *)
(* command reads the directory in one step.                                *)
BuiltIsVerified ==
    /\ TypeOK
    /\ d1.portable /\ d1.inputs = Inputs
           => /\ report.saw = d1.rec
              /\ stability.stable /\ stability.fin = manifest.fin
              /\ supplement.source = manifest.at

(* A package with its sidecar holds one state of the directory: every file *)
(* tar read is the one the D1 build was bound to, whatever ran meanwhile.  *)
PackageIsOneBuild ==
    archive.sidecar =>
        LET i == archive.inputs
        IN /\ archive.head = <<i.checksums, archive.build>>
           /\ archive.tail = <<i.manifest, i.stability, i.media, i.checkpoint, i.supplement,
                               i.report, i.sidecar>>

(* Neither reader accepts a build whose rows are not those that were       *)
(* verified: not the first report of a killed build either, which was      *)
(* written before the inputs were bound a second time.                     *)
AcceptsVerified ==
    accepted' # accepted =>
        /\ Stored(d1.rec) = Stored(report.saw)
        /\ supplement.complete /\ d1.inputs.supplement = supplement.at
AcceptedIsVerified == [][AcceptsVerified]_vars

(* The workflow ends with a plan, a load and a package, whatever was       *)
(* repeated or killed on the way, if Order has compare before enrich: the  *)
(* order of the code's own checks, which is not the documented one.        *)
PipelineEnds == <>Served

=============================================================================
