--------------------------- MODULE DropSupplement ---------------------------
(***************************************************************************)
(* tools/collections-backup enrich-drops: the supplement of the Drops a    *)
(* Collections snapshot names.  A run freezes its query, copies the proofs *)
(* of an archive whose artwork it may reuse, fetches the relations of the  *)
(* Drops page by page, freezes the plan of the artwork, downloads what the *)
(* archive does not have and writes the manifest last.  A later run picks  *)
(* all of it up, or refuses; build-d1 reads the files by themselves.       *)
(*                                                                         *)
(* The snapshot the supplement belongs to does not change here (see        *)
(* CollectionsEvidence), and the page size stays as it was given first.    *)
(* A Drop's relations are the version of them that the source shows.       *)
(***************************************************************************)
EXTENDS Naturals, FiniteSets, Sequences, SequencesExt

CONSTANTS
    Drops,       \* the Drops the snapshot names (positive integers)
    PageSize,    \* Drops of one request
    Candidates,  \* how many URLs a Drop has for its artwork
    Barred,      \* <<Drop, number>> of the URLs whose host is not allowed
    BytesOf,     \* Drop to the bytes its URLs answer with
    Answering,   \* what the other URLs may answer: functions of <<Drop, number>>
    Archives,    \* the inputs a run may be given: what artwork they have, of which
                 \* upload, with which catalog, and whether the proofs are sound
    Legacy,      \* Drops that an earlier exporter left in quarantine without proof
    Workers,
    MaxChanges,  \* bound: changes of the source
    MaxFaults    \* bound: kills, broken downloads, runs with other inputs

VARIABLES
    src,         \* the version of the relations of each Drop, 0 if the API has none
    source,      \* what the URLs answer
    run,         \* the running command
    frozen,      \* the query and the plan, each absent, torn or written
    copies,      \* provenance/archive/: the manifest, the report, the checkpoint
    state,       \* state/graphql.json
    pages,       \* raw/
    journal,     \* artwork/checkpoint.ndjson: its header and the last record of a Drop
    bucket,      \* artwork/objects/ and artwork/quarantine/
    todo, jobs,  \* the pool of downloads
    files,       \* what the runs rewrite: the rows, the catalog, the references
    manifest,
    changes, faults

origin == <<src, source, changes>>
graphql == <<state, pages>>
artwork == <<journal, bucket>>
pool == <<todo, jobs>>
vars == <<origin, run, frozen, copies, graphql, artwork, pool, files, manifest, faults>>

(* The Drops are asked for in the order of their identifiers, PageSize of  *)
(* them at a time.                                                         *)
Place(d) == Cardinality({o \in Drops : o <= d})
PageOf(k) == {d \in Drops : (k - 1) * PageSize < Place(d) /\ Place(d) <= k * PageSize}

Idle == [step |-> "idle"]
NoManifest == [made |-> FALSE, complete |-> FALSE]
NoRecord == [status |-> "pending", proof |-> "none"]
Recorded(status, proof) == [status |-> status, proof |-> proof]

(* The plan holds what is reused and the token counts of the catalog; the  *)
(* header of the checkpoint names every input.                             *)
PlanOf(e) == [reuse |-> e.manifest, catalog |-> e.catalog]
ProofsOf(e) == IF e.upload = "none" THEN <<>> ELSE <<e.manifest, e.upload, e.upload>>
NoArchive == [manifest |-> {}, upload |-> "none", catalog |-> "none", sound |-> TRUE]

(* The candidates of a Drop, by their place in the order they are tried.  *)
URLs == UNION {{d} \X (1..Candidates[d]) : d \in Drops}

DropSupplementAssumption ==
    /\ Drops \subseteq Nat \ {0} /\ IsFiniteSet(Drops) /\ PageSize \in Nat \ {0}
    /\ Candidates \in [Drops -> Nat] /\ MaxChanges \in Nat /\ MaxFaults \in Nat
    /\ Answering \subseteq [URLs -> {"image", "junk", "empty", "gone", "error"}]
    /\ NoArchive \in Archives
    /\ \A e \in Archives :
          /\ e = [manifest |-> e.manifest, upload |-> e.upload, catalog |-> e.catalog,
                  sound |-> e.sound]
          /\ e.manifest \subseteq Drops /\ (e.upload = "none" => e.manifest = {})

Unmade == [made |-> FALSE]
Unfrozen == [query |-> "none", plan |-> Unmade, planTorn |-> FALSE]
NoFiles == [rows |-> <<>>, catalog |-> "-", references |-> <<>>]
Untouched == [header |-> Unmade, latest |-> [d \in Drops |-> NoRecord], torn |-> FALSE]

PagesFrom(versions) ==
    [k \in 1..((Cardinality(Drops) + PageSize - 1) \div PageSize) |->
        [d \in PageOf(k) |-> versions[d]]]

(* A fresh directory, or one of an earlier exporter with its relations and *)
(* a quarantine of which it kept no proof.                                 *)
Init ==
    /\ src = [d \in Drops |-> 1] /\ source \in Answering
    /\ run = Idle /\ copies = <<>> /\ bucket = {} /\ todo = {}
    /\ jobs = [w \in Workers |-> Idle]
    /\ files = NoFiles
    /\ manifest = NoManifest /\ changes = 0 /\ faults = 0
    /\ \/ /\ frozen = Unfrozen /\ state = [made |-> FALSE, pages |-> <<>>] /\ pages = <<>>
          /\ journal = Untouched
       \/ /\ Legacy # {}
          /\ frozen = [query |-> "whole", plan |-> PlanOf(NoArchive), planTorn |-> FALSE]
          /\ pages = PagesFrom(src) /\ state = [made |-> TRUE, pages |-> pages]
          /\ journal = [header |-> NoArchive, torn |-> FALSE,
                        latest |-> [d \in Drops |-> IF d \in Legacy
                                                    THEN Recorded("quarantined", "lost")
                                                    ELSE NoRecord]]

Change ==
    /\ changes < MaxChanges /\ changes' = changes + 1
    /\ \/ \E d \in Drops : \E v \in 0..2 \ {src[d]} :
             src' = [src EXCEPT ![d] = v] /\ source' = source
       \/ \E a \in Answering \ {source} : source' = a /\ src' = src
    /\ UNCHANGED <<run, frozen, copies, graphql, artwork, pool, files, manifest, faults>>

----------------------------------------------------------------------------
(* captureReferencedDropSupplement, up to the relations.                   *)

Begin(e, retry) ==
    /\ run = Idle
    /\ run' = [step |-> "query", archive |-> e, retry |-> retry]
    /\ UNCHANGED <<origin, frozen, copies, graphql, artwork, pool, files, manifest>>

At(step) == run.step = step
GoTo(step) == run' = [run EXCEPT !.step = step]
Refuse == run' = Idle

(* The file is opened exclusively and written afterwards: between the two  *)
(* it exists and is empty.                                                 *)
OpenQuery ==
    /\ At("query")
    /\ IF frozen.query = "none"
       THEN frozen' = [frozen EXCEPT !.query = "torn"] /\ GoTo("write query")
       ELSE frozen' = frozen /\ IF frozen.query = "whole" THEN GoTo("inspect") ELSE Refuse
    /\ UNCHANGED <<origin, copies, graphql, artwork, pool, files, manifest, faults>>

WriteQuery ==
    /\ At("write query")
    /\ frozen' = [frozen EXCEPT !.query = "whole"] /\ GoTo("inspect")
    /\ UNCHANGED <<origin, copies, graphql, artwork, pool, files, manifest, faults>>

(* An archive whose upload was not complete, or whose proofs do not name   *)
(* each other, is refused before anything of it is copied.                 *)
InspectArchive ==
    /\ At("inspect")
    /\ IF run.archive.sound THEN GoTo("copies") ELSE Refuse
    /\ UNCHANGED <<origin, frozen, copies, graphql, artwork, pool, files, manifest, faults>>

Kept(e) == \A k \in 1..Len(copies) : k \in DOMAIN ProofsOf(e) => copies[k] = ProofsOf(e)[k]

(* One proof after the other, each by rename; one that is there already    *)
(* has to be the same.                                                     *)
CopyProof ==
    /\ At("copies")
    /\ LET proofs == ProofsOf(run.archive)
       IN IF ~Kept(run.archive) THEN Refuse /\ copies' = copies
          ELSE IF Len(copies) < Len(proofs)
          THEN copies' = Append(copies, proofs[Len(copies) + 1]) /\ run' = run
          ELSE GoTo("state") /\ copies' = copies
    /\ UNCHANGED <<origin, frozen, graphql, artwork, pool, files, manifest, faults>>

----------------------------------------------------------------------------
(* captureRelations.                                                       *)

Asked == UNION {DOMAIN p : p \in Range(state.pages)}
RelationsComplete == Asked = Drops

(* A resumed run refuses pages that are not those of its state.            *)
PagesAreKept == SubSeq(pages, 1, Len(state.pages)) = state.pages

OpenState ==
    /\ At("state")
    /\ IF PagesAreKept THEN GoTo("relations") ELSE Refuse
    /\ state' = [state EXCEPT !.made = TRUE]
    /\ UNCHANGED <<origin, frozen, copies, pages, artwork, pool, files, manifest, faults>>

NextIds ==
    LET from == Cardinality(Asked)
    IN {d \in Drops : from < Place(d) /\ Place(d) <= from + PageSize}

(* The answer has to hold every Drop that was asked for.                   *)
FetchPage ==
    /\ At("relations") /\ ~RelationsComplete
    /\ run' = IF \E d \in NextIds : src[d] = 0 THEN Idle
              ELSE [step |-> "page", archive |-> run.archive, retry |-> run.retry,
                    got |-> [d \in NextIds |-> src[d]]]
    /\ UNCHANGED <<origin, frozen, copies, graphql, artwork, pool, files, manifest, faults>>

(* The page replaces one that a killed run left uncommitted.               *)
WritePage ==
    /\ At("page")
    /\ pages' = Append(SubSeq(pages, 1, Len(state.pages)), run.got)
    /\ GoTo("commit")
    /\ UNCHANGED <<origin, frozen, copies, state, artwork, pool, files, manifest, faults>>

CommitPage ==
    /\ At("commit")
    /\ state' = [state EXCEPT !.pages = Append(@, run.got)]
    /\ run' = [step |-> "relations", archive |-> run.archive, retry |-> run.retry]
    /\ UNCHANGED <<origin, frozen, copies, pages, artwork, pool, files, manifest, faults>>

RowsOf(ps) == [d \in UNION {DOMAIN p : p \in Range(ps)} |->
                 (CHOOSE p \in Range(ps) : d \in DOMAIN p)[d]]

(* The rows are read back from the files of the committed pages.           *)
Normalize ==
    /\ At("relations") /\ RelationsComplete
    /\ files' = [files EXCEPT !.rows = RowsOf(SubSeq(pages, 1, Len(state.pages)))]
    /\ GoTo("catalog")
    /\ UNCHANGED <<origin, frozen, copies, graphql, artwork, pool, manifest, faults>>

----------------------------------------------------------------------------
(* captureArtwork.                                                         *)

(* The catalog is replaced before the plan is compared: a run with another *)
(* input has changed the directory by the time it is refused.              *)
WriteCatalog ==
    /\ At("catalog")
    /\ files' = [files EXCEPT !.catalog = run.archive.catalog] /\ GoTo("plan")
    /\ UNCHANGED <<origin, frozen, copies, graphql, artwork, pool, manifest, faults>>

OpenPlan ==
    /\ At("plan")
    /\ IF frozen.plan = Unmade /\ ~frozen.planTorn
       THEN frozen' = [frozen EXCEPT !.planTorn = TRUE] /\ GoTo("write plan")
       ELSE /\ frozen' = frozen
            /\ IF frozen.plan = PlanOf(run.archive) THEN GoTo("checkpoint") ELSE Refuse
    /\ UNCHANGED <<origin, copies, graphql, artwork, pool, files, manifest, faults>>

WritePlan ==
    /\ At("write plan")
    /\ frozen' = [frozen EXCEPT !.plan = PlanOf(run.archive), !.planTorn = FALSE] /\ GoTo("checkpoint")
    /\ UNCHANGED <<origin, copies, graphql, artwork, pool, files, manifest, faults>>

Downloadable == Drops \ run.archive.manifest
Latest(d) == journal.latest[d]
Allowed(d) == \E i \in 1..Candidates[d] : <<d, i>> \notin Barred

Unproven(r) == r.status = "quarantined" /\ r.proof = "lost"

Pending ==
    {d \in Downloadable :
        \/ Latest(d) = NoRecord
        \/ Unproven(Latest(d)) /\ Allowed(d)
        \/ run.retry /\ Latest(d).status \in {"failed", "missing"}}

(* What the records say is there: the file under the digest of its bytes.  *)
FileOf(d, r) == <<IF r.status = "stored" THEN "object" ELSE "quarantine", BytesOf[d]>>
Evidenced(d, r) == r.proof = "bytes" => FileOf(d, r) \in bucket

OpenCheckpoint ==
    /\ At("checkpoint")
    /\ LET sound ==
            /\ ~journal.torn
            /\ journal.header = Unmade \/ journal.header = run.archive
            /\ \A d \in Drops : Evidenced(d, Latest(d))
            /\ \A d \in Downloadable : Unproven(Latest(d)) => Allowed(d)
       IN IF sound
          THEN /\ journal' = [journal EXCEPT !.header = run.archive]
               /\ todo' = Pending /\ GoTo("pool")
          ELSE journal' = journal /\ todo' = todo /\ Refuse
    /\ UNCHANGED <<origin, frozen, copies, graphql, bucket, jobs, files, manifest, faults>>

Work(w, j) == jobs' = [jobs EXCEPT ![w] = j]
Record(d, r) == [step |-> "record", d |-> d, record |-> r]

Take(w) ==
    /\ At("pool") /\ jobs[w] = Idle
    /\ \E d \in todo :
        /\ \A o \in todo : d <= o
        /\ todo' = todo \ {d}
        /\ Work(w, IF Candidates[d] = 0 THEN Record(d, Recorded("missing", "none"))
                   ELSE [step |-> "fetch", d |-> d, i |-> 1, error |-> "none"])
    /\ UNCHANGED <<origin, run, frozen, copies, graphql, artwork, files, manifest, faults>>

(* downloadArtwork: the next URL, or what the last error says; without an  *)
(* error every URL was missing.                                            *)
Following(j, error) ==
    IF j.i < Candidates[j.d] THEN [j EXCEPT !.i = @ + 1, !.error = error]
    ELSE Record(j.d, CASE error = "none"   -> Recorded("missing", "none")
                       [] error = "failed" -> Recorded("failed", "none")
                       [] error = "barred" -> Recorded("quarantined", "barred"))

Answer(j) == IF <<j.d, j.i>> \in Barred THEN "barred" ELSE source[<<j.d, j.i>>]

(* An answer that holds no image ends the attempts at a Drop, an error or  *)
(* an absence does not.                                                    *)
Fetch(w) ==
    /\ jobs[w].step = "fetch"
    /\ LET j == jobs[w]
           answer == Answer(j)
       IN Work(w, CASE answer = "image"  -> [step |-> "keep", d |-> j.d, status |-> "stored"]
                    [] answer = "junk"   -> [step |-> "keep", d |-> j.d, status |-> "quarantined"]
                    [] answer = "empty"  -> Record(j.d, Recorded("quarantined", "empty"))
                    [] answer = "gone"   -> Following(j, j.error)
                    [] answer = "error"  -> Following(j, "failed")
                    [] answer = "barred" -> Following(j, "barred"))
    /\ UNCHANGED <<origin, run, frozen, copies, graphql, artwork, todo, files, manifest, faults>>

Break(w) ==
    /\ jobs[w].step = "fetch" /\ Answer(jobs[w]) # "barred"
    /\ faults < MaxFaults /\ faults' = faults + 1
    /\ Work(w, Following(jobs[w], "failed"))
    /\ UNCHANGED <<origin, run, frozen, copies, graphql, artwork, todo, files, manifest>>

(* The bytes get their name, unless another Drop has brought them.         *)
Keep(w) ==
    /\ jobs[w].step = "keep"
    /\ LET r == Recorded(jobs[w].status, "bytes")
       IN bucket' = bucket \cup {FileOf(jobs[w].d, r)} /\ Work(w, Record(jobs[w].d, r))
    /\ UNCHANGED <<origin, run, frozen, copies, graphql, journal, todo, files, manifest, faults>>

AppendRecord(w) ==
    /\ jobs[w].step = "record"
    /\ journal' = [journal EXCEPT !.latest[jobs[w].d] = jobs[w].record] /\ Work(w, Idle)
    /\ UNCHANGED <<origin, run, frozen, copies, graphql, bucket, todo, files, manifest, faults>>

ReferenceOf(d) ==
    IF d \in run.archive.manifest THEN [status |-> "reused", upload |-> run.archive.upload]
    ELSE Latest(d)

WriteReferences ==
    /\ At("pool") /\ todo = {} /\ \A w \in Workers : jobs[w] = Idle
    /\ files' = [files EXCEPT !.references = [d \in Drops |-> ReferenceOf(d)]]
    /\ GoTo("manifest")
    /\ UNCHANGED <<origin, frozen, copies, graphql, artwork, pool, manifest, faults>>

Incomplete == {"pending", "failed", "missing"}

WriteManifest ==
    /\ At("manifest")
    /\ manifest' = [made |-> TRUE, archive |-> run.archive, raw |-> state.pages,
                    files |-> files, plan |-> frozen.plan, copies |-> ProofsOf(run.archive),
                    complete |-> \A d \in Drops : files.references[d].status \notin Incomplete]
    /\ Refuse
    /\ UNCHANGED <<origin, frozen, copies, graphql, artwork, pool, files, faults>>

(* A kill may cut off the line that is being appended.                     *)
Kill ==
    /\ run # Idle
    /\ faults < MaxFaults /\ faults' = faults + 1
    /\ run' = Idle /\ todo' = {} /\ jobs' = [w \in Workers |-> Idle]
    /\ LET appending == (At("checkpoint") /\ journal.header = Unmade)
                        \/ \E w \in Workers : jobs[w].step = "record"
       IN \E cut \in BOOLEAN : (cut => appending)
             /\ journal' = [journal EXCEPT !.torn = @ \/ cut]
    /\ UNCHANGED <<origin, frozen, copies, graphql, bucket, files, manifest>>

----------------------------------------------------------------------------
(* inspectDropSupplement of build-d1: the files without their writer.      *)

RawIsBound ==
    /\ Len(manifest.raw) <= Len(pages) /\ SubSeq(pages, 1, Len(manifest.raw)) = manifest.raw
    /\ UNION {DOMAIN p : p \in Range(manifest.raw)} = Drops
    /\ files.rows = manifest.files.rows /\ files.rows = RowsOf(manifest.raw)

ArtworkIsBound ==
    /\ frozen.plan = manifest.plan /\ ~journal.torn
    /\ journal.header # Unmade /\ PlanOf(journal.header) = frozen.plan
    /\ files.references = manifest.files.references
    /\ files.catalog = manifest.files.catalog /\ frozen.plan.catalog = files.catalog
    /\ manifest.archive.catalog # "none" => journal.header.catalog = manifest.archive.catalog

ProofsAreBound ==
    manifest.archive.upload # "none" =>
        copies = manifest.copies /\ copies = ProofsOf(manifest.archive)

Uploaded(u) == UNION {e.manifest : e \in {a \in Archives : a.upload = u}}

(* projectDropArtwork: what each reference rests on.                       *)
Projects(d) ==
    LET r == files.references[d]
    IN CASE r.status = "reused" ->
              /\ manifest.archive.upload # "none" /\ d \in Uploaded(copies[3])
              /\ d \in frozen.plan.reuse /\ r.upload = copies[3]
              /\ journal.header.upload = manifest.archive.upload
         [] r.status = "stored" -> r = Latest(d) /\ d \notin frozen.plan.reuse /\ Evidenced(d, r)
         [] r.status \in {"missing", "quarantined"} ->
              /\ r = Latest(d) /\ d \notin frozen.plan.reuse
              /\ r.status = "quarantined" => r.proof \in {"bytes", "empty", "barred"}
              /\ Evidenced(d, r)
         [] OTHER -> FALSE

Accepted ==
    /\ manifest.made /\ manifest.complete /\ frozen.query = "whole"
    /\ RawIsBound /\ ArtworkIsBound /\ ProofsAreBound
    /\ \A d \in Drops : Projects(d)

----------------------------------------------------------------------------
(* The operator repeats the command with --retry-failures, and with the    *)
(* inputs the directory was started with, until build-d1 accepts it.       *)

Fits(e) ==
    /\ e.sound /\ Kept(e)
    /\ frozen.plan = Unmade \/ frozen.plan = PlanOf(e)
    /\ journal.header = Unmade \/ journal.header = e

Enrich == ~Accepted /\ faults' = faults /\ \E e \in Archives : Fits(e) /\ Begin(e, TRUE)
Repeat ==
    /\ faults < MaxFaults /\ faults' = faults + 1
    /\ \E e \in Archives, retry \in BOOLEAN : Begin(e, retry)

(* No run goes on where a kill tore a file that is never written again.    *)
(* The directory is not to be edited, so the operator starts another one;  *)
(* the documents name that way for changed inputs only.                    *)
Torn == frozen.query = "torn" \/ frozen.planTorn \/ journal.torn
Restart ==
    /\ run = Idle /\ Torn /\ ~Accepted
    /\ frozen' = Unfrozen /\ copies' = <<>> /\ journal' = Untouched /\ bucket' = {}
    /\ state' = [made |-> FALSE, pages |-> <<>>] /\ pages' = <<>>
    /\ files' = NoFiles /\ manifest' = NoManifest
    /\ UNCHANGED <<origin, run, pool, faults>>

Step ==
    \/ OpenQuery \/ WriteQuery \/ InspectArchive \/ CopyProof
    \/ OpenState \/ FetchPage \/ WritePage \/ CommitPage \/ Normalize
    \/ WriteCatalog \/ OpenPlan \/ WritePlan \/ OpenCheckpoint
    \/ WriteReferences \/ WriteManifest
Download(w) == Take(w) \/ Fetch(w) \/ Keep(w) \/ AppendRecord(w)
Disturb == Change \/ Repeat \/ Kill \/ \E w \in Workers : Break(w)

Finished == run = Idle /\ Accepted /\ UNCHANGED vars

Next == Enrich \/ Restart \/ Step \/ (\E w \in Workers : Download(w)) \/ Disturb \/ Finished

Spec == Init /\ [][Next]_vars
FairSpec ==
    /\ Spec /\ WF_vars(Enrich) /\ WF_vars(Step) /\ SF_vars(Restart)
    /\ \A w \in Workers : WF_vars(Download(w))

----------------------------------------------------------------------------
TypeOK ==
    /\ src \in [Drops -> 0..2] /\ source \in Answering
    /\ todo \subseteq Drops /\ changes \in 0..MaxChanges /\ faults \in 0..MaxFaults
    /\ frozen.query \in {"none", "torn", "whole"}
    /\ \A d \in Drops :
          Latest(d).status \in {"pending", "stored", "quarantined", "failed", "missing"}

(* Wherever runs were killed, the committed pages are on disk as they were *)
(* committed and hold the first Drops, each once; and the file a record of *)
(* the checkpoint speaks of is there.                                      *)
ProgressIsKept ==
    /\ PagesAreKept /\ Len(pages) <= Len(state.pages) + 1
    /\ \A k \in DOMAIN state.pages : DOMAIN state.pages[k] = PageOf(k)
    /\ \A d \in Drops : Evidenced(d, Latest(d))

(* What build-d1 accepts, even while a run goes on or after one was        *)
(* refused, was made of one input from the proofs to the references, and   *)
(* every Drop has the artwork of that input's archive, an image or a       *)
(* reason why it has none.                                                 *)
AcceptedIsOneInput ==
    Accepted =>
        LET e == manifest.archive
        IN /\ e.sound /\ journal.header = e /\ frozen.plan = PlanOf(e)
           /\ e.upload # "none" => copies = ProofsOf(e)
           /\ \A d \in Drops :
                 LET r == files.references[d]
                 IN IF d \in e.manifest THEN r = [status |-> "reused", upload |-> e.upload]
                    ELSE /\ r.status \in {"stored", "quarantined"}
                         /\ r.status = "stored" => <<"object", BytesOf[d]>> \in bucket

(* A manifest that says complete is accepted when it is written; and a run *)
(* with the same catalog takes that back at no point of its way.           *)
CompleteIsAccepted ==
    /\ At("manifest") /\ run' = Idle /\ faults' = faults /\ manifest'.complete => Accepted'
    /\ Accepted /\ ~Accepted' => run.archive.catalog # manifest.archive.catalog

(* Once the source stands still and kills cease the directory is accepted, *)
(* unless a Drop is gone from the API, or no URL of a Drop has anything to *)
(* keep.                                                                   *)
Unanswered ==
    \/ changes = MaxChanges /\ \E d \in Drops \ Asked : src[d] = 0
    \/ manifest.made /\ \E d \in Drops : \A i \in 1..Candidates[d] :
          Answer([d |-> d, i |-> i]) \in {"gone", "error", "barred"}
Settled == Accepted \/ Unanswered
=============================================================================
