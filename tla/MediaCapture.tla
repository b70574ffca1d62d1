---------------------------- MODULE MediaCapture ----------------------------
(***************************************************************************)
(* tools/moments-media plan, capture, recovery-plan and verify: which      *)
(* originals of the Moments are public, their download and upload by a     *)
(* pool of workers, the manifest and the proof that are written from the   *)
(* checkpoint, the plan of what is left to recover, and the two HEAD       *)
(* passes over R2 that attest the proof.                                   *)
(*                                                                         *)
(* An object in R2 is its bucket and its bytes: the key is their digest.   *)
(* Files are compared by content; the proof and the reports also by a      *)
(* stamp, since they hold the time they were written.                      *)
(***************************************************************************)
EXTENDS Naturals, FiniteSets, FiniteSetsExt

CONSTANTS
    Media,       \* rows of normalized moment_media
    MomentOf,    \* media to its moment, or NoMoment
    NoMoment,
    DropsOf,     \* moment to the Drops it belongs to
    HiddenDrops, \* moments_hidden_drops
    Processed,   \* media whose status is PROCESSED
    Originals,   \* media with a canonical gateway
    Bytes,       \* media to the bytes of its original
    Scenes,      \* what the sources may answer: media to one of Answers
    Workers,     \* of the capture pool
    Attempts,    \* downloads of a media before it has failed
    MaxFaults    \* bound: kills, interrupts, network failures and removed objects

VARIABLES
    source,      \* what the gateway of each media answers
    latest,      \* capture-checkpoint.ndjson: the last record of each media
    stored,      \* capture-checkpoint.ndjson: the objects of all its records
    bucket,      \* the objects in R2
    todo,        \* media no worker of this run has taken
    jobs,        \* what each worker is doing
    run,         \* the capture command: idle, pool, stopping, proof or report
    manifest,    \* d1-media-manifest.ndjson
    proof,       \* d1-media-manifest.json
    report,      \* capture-report.json
    recovery,    \* recovery-plan.ndjson
    check,       \* the verify command
    passes,      \* its two reports
    faults

capture == <<latest, stored, bucket, todo, jobs, run>>
evidence == <<manifest, proof, report>>
vars == <<source, capture, evidence, recovery, check, passes, faults>>

(* A mistyped answer is whole, and its bytes are not of the declared type. *)
Answers == {"whole", "mistyped", "gone", "refused", "large"}

MediaCaptureAssumption ==
    /\ IsFiniteSet(Media) /\ Attempts \in Nat \ {0} /\ MaxFaults \in Nat
    /\ Originals \subseteq Media /\ Processed \subseteq Media
    /\ \A s \in Scenes : s \in [Media -> Answers]

Unattempted == [status |-> "unattempted", transient |-> FALSE]
Idle == [step |-> "idle"]
NoProof == [at |-> 0]
NoReport == [made |-> FALSE]
NoPass == [at |-> 0, complete |-> FALSE]

Init ==
    /\ source \in Scenes
    /\ latest = [m \in Media |-> Unattempted] /\ stored = {} /\ bucket = {}
    /\ todo = {} /\ jobs = [w \in Workers |-> Idle] /\ run = "idle"
    /\ manifest = <<>> /\ proof = NoProof /\ report = NoReport
    /\ recovery = NoReport
    /\ check = Idle /\ passes = [p \in {1, 2} |-> NoPass]
    /\ faults = 0

----------------------------------------------------------------------------
(* buildMomentsMediaPlan.                                                  *)

\* Mutant: the first Drop of a moment decides.
FirstDropDecides(m) ==
    /\ MomentOf[m] # NoMoment /\ m \in Processed
    /\ DropsOf[MomentOf[m]] # {} /\ Min(DropsOf[MomentOf[m]]) \notin HiddenDrops

Eligible(m) ==
    /\ MomentOf[m] # NoMoment /\ m \in Processed
    /\ DropsOf[MomentOf[m]] # {} /\ DropsOf[MomentOf[m]] \cap HiddenDrops = {}

----------------------------------------------------------------------------
(* captureMomentsMedia.                                                    *)

Terminal == {"public_stored", "private_stored", "quarantined_stored", "source_missing", "oversize"}
Status(m) == latest[m].status

StartCapture ==
    /\ run = "idle"
    /\ run' = "pool"
    /\ todo' = {m \in Media : Status(m) \notin Terminal}
    /\ UNCHANGED <<source, latest, stored, bucket, jobs, evidence, recovery, check, passes>>

Run(w, j) == jobs' = [jobs EXCEPT ![w] = j]
Outcome(m, status) == [step |-> "record", m |-> m, status |-> status, transient |-> FALSE]
Failure(m) == [Outcome(m, "failed") EXCEPT !.transient = TRUE]

Take(w) ==
    /\ run = "pool" /\ jobs[w] = Idle
    /\ \E m \in todo :
        /\ todo' = todo \ {m}
        /\ Run(w, IF m \in Originals
                  THEN [step |-> "fetch", m |-> m, attempt |-> 1, file |-> FALSE]
                  ELSE Outcome(m, "source_missing"))
    /\ UNCHANGED <<source, latest, stored, bucket, run, evidence, recovery, check, passes, faults>>

(* downloadWithRetries: the next attempt, with the file of this one.       *)
Again(w, file) ==
    IF jobs[w].attempt = Attempts THEN Failure(jobs[w].m)
    ELSE [jobs[w] EXCEPT !.attempt = @ + 1, !.file = file]

(* downloadSource: absence, a refusal and a size are seen before the file  *)
(* is opened; the file is opened exclusively.                              *)
Fetch(w) ==
    /\ jobs[w].step = "fetch"
    /\ LET m == jobs[w].m
       IN Run(w, CASE source[m] = "gone"    -> Outcome(m, "source_missing")
                   [] source[m] = "refused" -> Outcome(m, "failed")
                   [] source[m] = "large"   -> Outcome(m, "oversize")
                   [] OTHER -> IF jobs[w].file THEN Again(w, TRUE)
                               ELSE [step |-> "head", m |-> m])
    /\ UNCHANGED <<source, latest, stored, bucket, todo, run, evidence, recovery, check, passes, faults>>

(* A busy source leaves no file, a body that breaks off leaves one.        *)
Break(w) ==
    /\ jobs[w].step = "fetch" /\ source[jobs[w].m] \in {"whole", "mistyped"}
    /\ faults < MaxFaults /\ faults' = faults + 1
    /\ \E cut \in BOOLEAN : Run(w, Again(w, cut \/ jobs[w].file))
    /\ UNCHANGED <<source, latest, stored, bucket, todo, run, evidence, recovery, check, passes>>

Object(m) == <<IF Eligible(m) /\ source[m] # "mistyped" THEN "public" ELSE "private", Bytes[m]>>

StoredAs(m) ==
    IF Object(m)[1] = "public" THEN "public_stored"
    ELSE IF Eligible(m) THEN "quarantined_stored" ELSE "private_stored"

HeadFirst(w) ==
    /\ jobs[w].step = "head"
    /\ LET m == jobs[w].m
       IN Run(w, IF Object(m) \in bucket THEN Outcome(m, StoredAs(m))
                 ELSE [step |-> "upload", m |-> m])
    /\ UNCHANGED <<source, latest, stored, bucket, todo, run, evidence, recovery, check, passes, faults>>

Upload(w) ==
    /\ jobs[w].step = "upload"
    /\ bucket' = bucket \cup {Object(jobs[w].m)}
    /\ Run(w, Outcome(jobs[w].m, StoredAs(jobs[w].m)))
    /\ UNCHANGED <<source, latest, stored, todo, run, evidence, recovery, check, passes, faults>>

(* The bridge gives up: the object may be in R2 all the same.              *)
BridgeFails(w) ==
    /\ jobs[w].step \in {"head", "upload"}
    /\ faults < MaxFaults /\ faults' = faults + 1
    /\ bucket' \in IF jobs[w].step = "upload" THEN {bucket, bucket \cup {Object(jobs[w].m)}}
                   ELSE {bucket}
    /\ Run(w, Failure(jobs[w].m))
    /\ UNCHANGED <<source, latest, stored, todo, run, evidence, recovery, check, passes>>

Stored == {"public_stored", "private_stored", "quarantined_stored"}

Record(w) ==
    /\ jobs[w].step = "record"
    /\ LET j == jobs[w]
       IN /\ latest' = [latest EXCEPT ![j.m] = [status |-> j.status, transient |-> j.transient]]
          /\ stored' = IF j.status \in Stored THEN stored \cup {Object(j.m)} ELSE stored
    /\ Run(w, Idle)
    /\ UNCHANGED <<source, bucket, todo, run, evidence, recovery, check, passes, faults>>

(* SIGINT: the active downloads end as failures, nothing else is taken,    *)
(* and the command ends before the manifest.                               *)
Interrupt ==
    /\ run = "pool" /\ faults < MaxFaults /\ faults' = faults + 1
    /\ run' = "stopping"
    /\ jobs' = [w \in Workers |->
                  IF jobs[w].step \in {"fetch", "head", "upload"} THEN Failure(jobs[w].m)
                  ELSE jobs[w]]
    /\ UNCHANGED <<source, latest, stored, bucket, todo, evidence, recovery, check, passes>>

Quiet == \A w \in Workers : jobs[w] = Idle

Stop ==
    /\ run = "stopping" /\ Quiet
    /\ run' = "idle" /\ todo' = {}
    /\ UNCHANGED <<source, latest, stored, bucket, jobs, evidence, recovery, check, passes, faults>>

Kill ==
    /\ run # "idle" /\ faults < MaxFaults /\ faults' = faults + 1
    /\ run' = "idle" /\ todo' = {} /\ jobs' = [w \in Workers |-> Idle]
    /\ UNCHANGED <<source, latest, stored, bucket, evidence, recovery, check, passes>>

----------------------------------------------------------------------------
(* evaluateMomentsMediaCapture and the files written from it.              *)

ManifestOf ==
    [m \in Media |-> [status |-> Status(m),
                      object |-> IF Status(m) = "public_stored" THEN {Object(m)} ELSE {}]]

(* What keeps a capture from being complete.                               *)
Requires(m) ==
    IF Eligible(m) THEN Status(m) # "public_stored"
    ELSE Status(m) \notin Stored \cup {"source_missing"}

Ready == \A m \in Media : Eligible(m) => Status(m) = "public_stored"
Complete == (\A m \in Media : ~Requires(m)) /\ Ready

Stamps == {proof.at, passes[1].at, passes[2].at}
          \cup (IF "binding" \in DOMAIN check THEN {check.binding.proof, check.previous} ELSE {})
          \cup UNION {IF "binding" \in DOMAIN passes[p]
                      THEN {passes[p].binding.proof, passes[p].previous} ELSE {} : p \in {1, 2}}
Stamp == Min((1..(Cardinality(Stamps) + 1)) \ Stamps)

WriteManifest ==
    /\ run = "pool" /\ todo = {} /\ Quiet
    /\ manifest' = ManifestOf
    /\ run' = "proof"
    /\ UNCHANGED <<source, latest, stored, bucket, todo, jobs, proof, report, recovery, check, passes, faults>>

WriteProof ==
    /\ run = "proof"
    /\ proof' = [at |-> Stamp, manifest |-> manifest, latest |-> latest, complete |-> Complete,
                 ready |-> Ready]
    /\ run' = "report"
    /\ UNCHANGED <<source, latest, stored, bucket, todo, jobs, manifest, report, recovery, check, passes, faults>>

WriteReport ==
    /\ run = "report"
    /\ report' = [made |-> TRUE, complete |-> Complete, ready |-> Ready]
    /\ run' = "idle"
    /\ UNCHANGED <<source, latest, stored, bucket, todo, jobs, manifest, proof, recovery, check, passes, faults>>

----------------------------------------------------------------------------
(* buildMomentsMediaRecoveryPlan.                                          *)

NeedsRecovery(m) ==
    /\ Status(m) # "unattempted"
    /\ \/ Status(m) \in {"failed", "oversize", "source_missing"}
       \/ Eligible(m) /\ Status(m) # "public_stored"

(* Another media whose normalized digest is the same and has a canonical   *)
(* gateway may stand in for one whose source refuses.                      *)
Aliases(m) == {a \in Originals \ {m} : Bytes[a] = Bytes[m]}

Strategies(m) ==
    LET fixed ==
        (IF m \in Originals /\ latest[m].transient THEN {"retry_primary"} ELSE {})
        \cup (IF m \in Originals /\ Status(m) = "oversize" THEN {"multipart_original"} ELSE {})
        \cup (IF Status(m) = "failed" /\ ~latest[m].transient /\ Aliases(m) # {}
              THEN {"hash_alias_original"} ELSE {})
    IN IF fixed # {} THEN fixed
       ELSE IF Eligible(m) THEN {"public_original_required"}
       ELSE IF latest[m].transient THEN {"private_recovery_required"}
       ELSE {"metadata_only"}

PlanRecovery ==
    /\ \E m \in Media : Status(m) # "unattempted"
    /\ recovery' = [made |-> TRUE, latest |-> latest,
                    rows |-> [m \in {n \in Media : NeedsRecovery(n)} |-> Strategies(m)]]
    /\ recovery' # recovery
    /\ UNCHANGED <<source, capture, evidence, check, passes, faults>>

----------------------------------------------------------------------------
(* verifyMomentsMedia.                                                     *)

(* The manifest and the proof are the exact output of the evaluation.      *)
EvidenceHolds ==
    /\ proof.at # 0
    /\ manifest = ManifestOf
    /\ proof.manifest = manifest /\ proof.latest = latest

Binding == [proof |-> proof.at, latest |-> latest, objects |-> stored]

\* Mutant: any complete first report is a predecessor.
AnyCompletePass == passes[1].complete

Predecessor == passes[1].complete /\ passes[1].binding = Binding

StartVerify(p) ==
    /\ check = Idle
    /\ EvidenceHolds
    /\ p = 2 => Predecessor
    /\ check' = [step |-> "head", pass |-> p, binding |-> Binding, left |-> stored, failed |-> {},
                 previous |-> IF p = 2 THEN passes[1].at ELSE 0]
    /\ UNCHANGED <<source, capture, evidence, recovery, passes, faults>>

HeadStored ==
    /\ check.step = "head"
    /\ \E o \in check.left :
        check' = [check EXCEPT !.left = @ \ {o},
                               !.failed = IF o \in bucket THEN @ ELSE @ \cup {o}]
    /\ UNCHANGED <<source, capture, evidence, recovery, passes, faults>>

HeadFails ==
    /\ check.step = "head" /\ faults < MaxFaults /\ faults' = faults + 1
    /\ \E o \in check.left : check' = [check EXCEPT !.left = @ \ {o}, !.failed = @ \cup {o}]
    /\ UNCHANGED <<source, capture, evidence, recovery, passes>>

(* The evidence is evaluated again, and no report is written of another.   *)
FinishVerify ==
    /\ check.step = "head" /\ check.left = {}
    /\ IF EvidenceHolds /\ Binding = check.binding
       THEN passes' = [passes EXCEPT ![check.pass] =
              [at |-> Stamp, complete |-> Complete /\ check.failed = {},
               binding |-> check.binding, previous |-> check.previous]]
       ELSE passes' = passes
    /\ check' = Idle
    /\ UNCHANGED <<source, capture, evidence, recovery, faults>>

(* The objects may be removed from R2 by hand.                             *)
Remove ==
    /\ faults < MaxFaults /\ faults' = faults + 1
    /\ \E o \in bucket : bucket' = bucket \ {o}
    /\ UNCHANGED <<source, latest, stored, todo, jobs, run, evidence, recovery, check, passes>>

----------------------------------------------------------------------------
(* The operator captures until the evidence is that of the checkpoint and  *)
(* no failure of the network is left, then verifies twice or plans the     *)
(* recovery.                                                               *)

Retryable == \E m \in Media : latest[m].transient \/ Status(m) = "unattempted"

Attested ==
    /\ passes[2].complete /\ passes[2].previous = passes[1].at
    /\ EvidenceHolds /\ passes[2].binding = Binding

Planned == recovery.made /\ recovery.latest = latest

Operate ==
    \/ (Retryable \/ ~EvidenceHolds \/ ~report.made) /\ StartCapture /\ UNCHANGED faults
    \/ /\ run = "idle" /\ EvidenceHolds /\ ~Retryable
       /\ IF Complete
          THEN ~Attested /\ \E p \in {1, 2} : (p = 1 => ~Predecessor) /\ StartVerify(p)
          ELSE PlanRecovery

(* A capture may also be started at any time, at the cost of a fault.      *)
Repeat == faults < MaxFaults /\ StartCapture /\ faults' = faults + 1

Work(w) == Take(w) \/ Fetch(w) \/ HeadFirst(w) \/ Upload(w) \/ Record(w)
CaptureStep == Stop \/ WriteManifest \/ WriteProof \/ WriteReport
VerifyStep == HeadStored \/ FinishVerify
Disturb == Interrupt \/ Kill \/ Remove \/ Repeat \/ HeadFails
           \/ \E w \in Workers : Break(w) \/ BridgeFails(w)

Settled == Attested \/ (Planned /\ ~Complete)
Finished == Settled /\ run = "idle" /\ check = Idle /\ UNCHANGED vars

Next == Operate \/ CaptureStep \/ VerifyStep \/ (\E w \in Workers : Work(w)) \/ Disturb \/ Finished

Spec == Init /\ [][Next]_vars
FairSpec ==
    /\ Spec
    /\ WF_vars(Operate) /\ WF_vars(CaptureStep) /\ WF_vars(VerifyStep)
    /\ \A w \in Workers : WF_vars(Work(w))

----------------------------------------------------------------------------
TypeOK ==
    /\ \A m \in Media : Status(m) \in Terminal \cup {"failed", "unattempted"}
    /\ bucket \subseteq {"public", "private"} \X {Bytes[m] : m \in Media}
    /\ run \in {"idle", "pool", "stopping", "proof", "report"}
    /\ todo \subseteq Media /\ faults \in 0..MaxFaults

(* No bytes reach the public bucket unless one of the media that have them *)
(* may be shown: its moment exists, none of its Drops is hidden, and the   *)
(* bytes are what the source said they were.                               *)
PublicIsVisible ==
    \A o \in bucket : o[1] = "public" =>
        \E m \in Processed :
            /\ Bytes[m] = o[2] /\ source[m] # "mistyped" /\ MomentOf[m] # NoMoment
            /\ DropsOf[MomentOf[m]] # {}
            /\ \A d \in DropsOf[MomentOf[m]] : d \notin HiddenDrops

(* A complete second report and the first one it names attest one and the  *)
(* same evidence, in which every eligible media is stored.                 *)
AttestedIsOneState ==
    passes[2].complete /\ passes[2].previous = passes[1].at =>
        /\ passes[1].complete /\ passes[1].binding = passes[2].binding
        /\ \A m \in Media : Eligible(m) => passes[2].binding.latest[m].status = "public_stored"

(* A report is written of evidence that no capture has changed meanwhile.  *)
ReportIsOfItsEvidence ==
    \A p \in {1, 2} : passes'[p] # passes[p] => passes'[p].binding = Binding

(* The plan of a recovery, made by another definition of what is missing,  *)
(* holds every row that keeps the capture it was made of from complete.    *)
PlanCoversTheGap ==
    recovery.made /\ recovery.latest = latest =>
        \A m \in Media : Requires(m) /\ Status(m) # "unattempted" => m \in DOMAIN recovery.rows

(* "--attempts: Network attempts": an attempt to download from a source    *)
(* that answers whole, which nothing breaks, is not one more failure.      *)
UnbrokenAttempt ==
    \A w \in Workers :
        /\ jobs[w].step = "fetch" /\ source[jobs[w].m] = "whole"
        /\ jobs'[w] # jobs[w] /\ faults' = faults
        => jobs'[w].step = "head"
UnbrokenAttemptSucceeds == [][UnbrokenAttempt]_vars
=============================================================================
