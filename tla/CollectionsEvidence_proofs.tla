---------------------- MODULE CollectionsEvidence_proofs ----------------------
(***************************************************************************)
(* The evidence in a Collections directory for any references, sessions,   *)
(* order of commands and faults.  A command that has started holds a digest *)
(* that nothing else has, a digest that is gone never comes back, and a    *)
(* media record that is final stays: so what quotes the digests of the     *)
(* files quotes their contents, however the commands interleave.           *)
(***************************************************************************)
EXTENDS CollectionsEvidence, FiniteSetTheorems, TLAPS

-----------------------------------------------------------------------------
(* The shapes of files and of running commands.                              *)

Records == [Refs -> Statuses]
Manifests == [at : Nat \ {0}, fin : Nat, cons : Nat, stable : BOOLEAN,
              media : [at : Nat, rec : Records]]
Listings == [stability : Nat, media : Nat, checkpoint : Records, supplement : Nat, d1 : Nat]
InputSets == [manifest : Nat \ {0}, report : Nat, sidecar : Nat, checksums : Listings,
              stability : Nat, media : Nat, checkpoint : Records, supplement : Nat]

Digest == Nat \ {0}
Compares == [cmd : {"compare"}, step : {1, 2}, at : Digest, m : Manifests]
Captures == [cmd : {"media"}, step : {1, 2}, at : Digest, m : Manifests, todo : SUBSET Refs]
Enriches == [cmd : {"enrich"}, step : {1}, at : Digest, m : Manifests]
Checks == [cmd : {"verify"}, step : {1}, at : Digest, m : Manifests]
Reports == [cmd : {"verify"}, step : {2, 3, 4}, at : Digest, m : Manifests,
            ok : BOOLEAN, checked : BOOLEAN, saw : Records]
Builds == [cmd : {"build"}, step : {1, 2}, at : Digest, inputs : InputSets]
Packages == [cmd : {"package"}, step : {1, 2, 3}, at : Digest, inputs : InputSets, build : Nat]
Jobs == {Idle} \cup Compares \cup Captures \cup Enriches \cup Checks \cup Reports
        \cup Builds \cup Packages

FilesOK ==
    /\ manifest \in Manifests
    /\ stability \in [at : Nat, fin : Nat, stable : BOOLEAN]
    /\ checkpoint \in Records
    /\ media \in [at : Nat, rec : Records]
    /\ progress \in Nat
    /\ supplement \in [at : Nat, source : Nat, complete : BOOLEAN]
    /\ checksums \in Listings
    /\ report.at \in Nat /\ report.verified \in BOOLEAN /\ report.checked \in BOOLEAN
    /\ report.saw \in Records
    /\ sidecar \in Nat
    /\ litter \subseteq Litters

\* Records whose fields are not all of one type: their shape.
D1OK ==
    /\ d1 = [dir |-> d1.dir, at |-> d1.at, portable |-> d1.portable, inputs |-> d1.inputs,
             rec |-> d1.rec]
    /\ d1.dir \in BOOLEAN /\ d1.at \in Nat /\ d1.portable \in BOOLEAN /\ d1.rec \in Records
    /\ d1.at # 0 => d1.inputs \in InputSets

ArchiveOK ==
    /\ archive = [made |-> archive.made, sidecar |-> archive.sidecar, head |-> archive.head,
                  tail |-> archive.tail, inputs |-> archive.inputs, build |-> archive.build]
    /\ archive.sidecar \in BOOLEAN

JobsOK == job \in [Sessions -> Jobs]

CountersOK == accepted \subseteq Readers /\ faults \in 0..MaxFaults /\ fresh \in 0..MaxFresh

-----------------------------------------------------------------------------
(* The inductive invariant.                                                  *)

\* The files that a digest of their own names, by the name the inputs have for them.
Kinds == {"manifest", "stability", "media", "supplement", "report"}

\* Those that command j has still to write.
Pending(j) ==
    {k \in Kinds :
        \/ k = "stability" /\ j.cmd = "compare" /\ j.step = 1
        \/ k = "manifest" /\ j.cmd \in {"compare", "media"}
        \/ k = "media" /\ j.cmd = "media" /\ j.step = 1
        \/ k = "supplement" /\ j.cmd = "enrich"
        \/ k = "report" /\ j.cmd = "verify" /\ j.step \in {1, 2, 3}}

Binding(j) == j.cmd \in {"build", "package"}

\* Inputs that something is bound to: the database that was built, a running command.
Held(i) ==
    \/ d1.at # 0 /\ i = d1.inputs
    \/ \E s \in Sessions : Binding(job[s]) /\ i = job[s].inputs

Unwritten(n, k) == n # Inputs[k] /\ \A i \in InputSets : Held(i) => n # i[k]

\* The digest of a running command is nobody else's until its file is there.
StampsAreNew ==
    /\ \A s \in Sessions : \A k \in Pending(job[s]) : Unwritten(job[s].at, k)
    /\ \A s, o \in Sessions : s # o /\ job[s] # Idle /\ job[o] # Idle =>
          job[s].cmd # job[o].cmd /\ job[s].at # job[o].at

\* Whoever quotes the digest of a file that is still there knows what it says.
SoundInputs(i) ==
    /\ i.report = report.at => report.verified /\ report.checked
    /\ i.manifest = manifest.at /\ i.stability = stability.at =>
          stability.stable /\ stability.fin = manifest.fin
    /\ i.supplement = supplement.at => supplement.complete /\ supplement.source = i.manifest

InputsAreSound == \A i \in InputSets : Held(i) => SoundInputs(i)

\* What a verification went through, once it is complete, is the checkpoint for good.
RecordsAreFinal ==
    /\ report.verified /\ report.checked => Final(report.saw) /\ checkpoint = report.saw
    /\ \A s \in Sessions :
          /\ job[s].cmd = "verify" /\ job[s].step # 1 /\ job[s].ok /\ job[s].checked =>
                Final(job[s].saw) /\ checkpoint = job[s].saw
          /\ job[s].cmd = "media" =>
                \A r \in job[s].todo : checkpoint[r] \notin {"stored", "excluded"}
          /\ Binding(job[s]) => Final(checkpoint) /\ job[s].inputs.checkpoint = checkpoint
    /\ d1.at # 0 => Final(d1.rec) /\ checkpoint = d1.rec

\* The database: in the hands of one build, and its digest is newer than what it holds.
BuildsAreOwned ==
    /\ d1.portable => d1.dir /\ d1.at # 0
    /\ d1.at # 0 => d1.dir /\ d1.at # d1.inputs.checksums.d1
    /\ \A s \in Sessions : job[s].cmd = "build" =>
          /\ d1.dir /\ ~d1.portable /\ job[s].at # job[s].inputs.checksums.d1
          /\ job[s].step = 2 => d1.at # 0

HeadOf(i, build) == <<i.checksums, build>>
TailOf(i) == <<i.manifest, i.stability, i.media, i.checkpoint, i.supplement, i.report, i.sidecar>>

\* A package: as long as the inputs are those it is bound to, tar has read just them.
PackageFollows(j) ==
    /\ d1.portable /\ d1.at = j.build /\ j.inputs.checksums.d1 # d1.at
    /\ sidecar = j.inputs.sidecar \/ report.at # j.inputs.report
    /\ j.inputs.sidecar = j.inputs.report
    /\ j.step # 1 => ~archive.sidecar
    /\ j.step # 1 /\ Inputs = j.inputs => archive.head = HeadOf(j.inputs, j.build)
    /\ j.step = 3 /\ Inputs = j.inputs => archive.tail = TailOf(j.inputs)

PackagesFollow == \A s \in Sessions : job[s].cmd = "package" => PackageFollows(job[s])

TypesOK == FilesOK /\ D1OK /\ ArchiveOK /\ JobsOK /\ CountersOK

IInv ==
    /\ TypesOK
    /\ StampsAreNew /\ InputsAreSound /\ RecordsAreFinal /\ BuildsAreOwned /\ PackagesFollow
    /\ PackageIsOneBuild

-----------------------------------------------------------------------------
(* Counts, and digests that nobody has.                                      *)

\* Records with the counts of final ones are final.
LEMMA CountsAreFinal ==
    ASSUME NEW a \in Records, NEW b \in Records, Counts(a) = Counts(b), Final(b)
    PROVE  Final(a)
  <1>1. ASSUME NEW k \in {"none", "failed"}
        PROVE  {r \in Refs : a[r] = k} = {}
    <2> DEFINE A == {r \in Refs : a[r] = k}
               B == {r \in Refs : b[r] = k}
    <2>1. k \in Statuses
      BY DEF Statuses
    <2>2. Counts(a)[k] = Cardinality(A) /\ Counts(b)[k] = Cardinality(B)
      BY <2>1 DEF Counts
    <2>3. B = {}
      BY DEF Final
    <2>4. Cardinality(B) = 0
      BY <2>3, FS_EmptySet
    <2>5. IsFiniteSet(A)
      BY FS_Subset, CollectionsEvidenceAssumption
    <2>6. Cardinality(A) = 0
      BY <2>2, <2>4
    <2> QED
      BY <2>5, <2>6, FS_EmptySet
  <1>2. \A r \in Refs : a[r] \in Statuses /\ a[r] \notin {"none", "failed"}
    BY <1>1 DEF Records
  <1> QED
    BY <1>2 DEF Final, Statuses

LEMMA FoursAreFinite ==
    ASSUME NEW a, NEW b, NEW c, NEW d
    PROVE  IsFiniteSet({a, b, c, d})
  <1> DEFINE A == {a}
             B == {b}
             C == {c}
             D == {d}
  <1>1. IsFiniteSet(A) /\ IsFiniteSet(B) /\ IsFiniteSet(C) /\ IsFiniteSet(D)
    BY FS_Singleton
  <1>2. {a, b, c, d} = (A \cup B) \cup (C \cup D)
    OBVIOUS
  <1> HIDE DEF A, B, C, D
  <1>3. IsFiniteSet(A \cup B) /\ IsFiniteSet(C \cup D)
    BY <1>1, FS_Union
  <1>4. IsFiniteSet((A \cup B) \cup (C \cup D))
    BY <1>3, FS_Union
  <1> QED
    BY <1>2, <1>4

LEMMA InputsAreFinite ==
    ASSUME NEW i
    PROVE  IsFiniteSet(OfInputs(i)) /\ \A l : IsFiniteSet(OfListing(l))
  <1> DEFINE A == {i.manifest, i.report, i.sidecar, i.stability}
             B == {i.media, i.supplement, i.media, i.media}
             L == OfListing(i.checksums)
  <1>1. \A l : IsFiniteSet(OfListing(l))
    BY FoursAreFinite DEF OfListing
  <1>2. IsFiniteSet(A) /\ IsFiniteSet(B) /\ IsFiniteSet(L)
    BY <1>1, FoursAreFinite
  <1>3. {i.manifest, i.report, i.sidecar, i.stability, i.media, i.supplement} = A \cup B
    OBVIOUS
  <1> HIDE DEF A, B, L
  <1>4. IsFiniteSet(A \cup B)
    BY <1>2, FS_Union
  <1>5. IsFiniteSet((A \cup B) \cup L)
    BY <1>2, <1>4, FS_Union
  <1>6. IsFiniteSet({})
    BY FS_EmptySet
  <1>7. OfInputs(i) = {} \/ OfInputs(i) = (A \cup B) \cup L
    BY <1>3 DEF OfInputs, L
  <1> QED
    BY <1>1, <1>5, <1>6, <1>7

LEMMA JobsAreFinite ==
    ASSUME NEW j
    PROVE  IsFiniteSet(OfJob(j))
  <1>1. IsFiniteSet({}) /\ IsFiniteSet({j.at})
    BY FS_EmptySet, FS_Singleton
  <1>2. IsFiniteSet({j.m.at, j.m.fin, j.m.cons, j.m.media.at})
    BY FoursAreFinite
  <1>3. IsFiniteSet(OfInputs(j.inputs))
    BY InputsAreFinite
  <1> QED
    BY <1>1, <1>2, <1>3, FS_Union DEF OfJob

LEMMA SessionsAreFinite == IsFiniteSet(Sessions)
  BY CollectionsEvidenceAssumption, FS_Singleton, FS_Union DEF Sessions

LEMMA DigestsAreFinite == IsFiniteSet(Digests)
  <1> DEFINE Ours == {OfJob(job[s]) : s \in Sessions}
             f == [s \in Sessions |-> OfJob(job[s])]
             A == {manifest.at, manifest.fin, manifest.cons, manifest.media.at}
             B == {stability.at, stability.fin, media.at, progress}
             C == {supplement.at, supplement.source, report.at, report.manifest}
             D == {sidecar, d1.at, archive.build, sidecar}
  <1>1. f \in Surjection(Sessions, Ours)
    BY DEF Surjection
  <1>2. IsFiniteSet(Ours)
    BY <1>1, SessionsAreFinite, FS_Surjection
  <1>3. \A S \in Ours : IsFiniteSet(S)
    BY JobsAreFinite
  <1>4. IsFiniteSet(UNION Ours)
    <2> HIDE DEF Ours
    <2> QED
      BY <1>2, <1>3, FS_UNION
  <1>5. IsFiniteSet(A) /\ IsFiniteSet(B) /\ IsFiniteSet(C) /\ IsFiniteSet(D)
    BY FoursAreFinite
  <1>6. /\ IsFiniteSet(OfListing(checksums)) /\ IsFiniteSet(OfListing(report.checksums))
        /\ IsFiniteSet(OfInputs(d1.inputs)) /\ IsFiniteSet(OfInputs(archive.inputs))
    BY InputsAreFinite
  <1>7. Digests = ((((((((A \cup B) \cup C) \cup D) \cup OfListing(checksums))
                      \cup OfListing(report.checksums)) \cup OfInputs(d1.inputs))
                    \cup OfInputs(archive.inputs)) \cup UNION Ours)
    BY DEF Digests
  <1> HIDE DEF A, B, C, D, Ours
  <1>8. \A S, T : IsFiniteSet(S) /\ IsFiniteSet(T) => IsFiniteSet(S \cup T)
    BY FS_Union
  <1> QED
    BY <1>4, <1>5, <1>6, <1>7, <1>8

\* There is always a digest that nobody has.
LEMMA StampIsNobodys == Stamp \in Digest /\ Stamp \notin Digests
  <1> DEFINE n == Cardinality(Digests)
             I == 1 .. (n + 1)
  <1>1. n \in Nat
    BY DigestsAreFinite, FS_CardinalityType
  <1>2. IsFiniteSet(I) /\ Cardinality(I) = n + 1
    BY <1>1, FS_Interval
  <1>3. ~(I \subseteq Digests)
    <2> SUFFICES ASSUME I \subseteq Digests PROVE FALSE
      OBVIOUS
    <2>1. Cardinality(I) <= n
      BY DigestsAreFinite, FS_Subset
    <2> QED
      BY <1>1, <1>2, <2>1
  <1>4. \E x \in I : x \notin Digests
    BY <1>3
  <1>5. Stamp \in I /\ Stamp \notin Digests
    BY <1>4 DEF Stamp
  <1> QED
    BY <1>1, <1>5 DEF Digest

\* What kind of command a job is.
LEMMA JobShapes ==
    ASSUME NEW j \in Jobs
    PROVE  /\ j = Idle <=> j.cmd = "idle"
           /\ j.cmd \in Commands \cup {"idle"}
           /\ j # Idle => j.at \in Digest /\ "at" \in DOMAIN j
           /\ j.cmd = "compare" => j \in Compares
           /\ j.cmd = "media" => j \in Captures
           /\ j.cmd = "enrich" => j \in Enriches
           /\ j.cmd = "verify" => j \in Checks \/ j \in Reports
           /\ j.cmd = "build" => j \in Builds
           /\ j.cmd = "package" => j \in Packages
           /\ Binding(j) => j.inputs \in InputSets /\ "inputs" \in DOMAIN j
           /\ j.cmd \in {"compare", "media", "enrich", "verify"} => j.m \in Manifests
  <1>1. CASE j = Idle
    BY <1>1 DEF Idle, Commands, Binding
  <1>2. CASE j \in Compares
    BY <1>2 DEF Compares, Idle, Commands, Binding
  <1>3. CASE j \in Captures
    BY <1>3 DEF Captures, Idle, Commands, Binding
  <1>4. CASE j \in Enriches
    BY <1>4 DEF Enriches, Idle, Commands, Binding
  <1>5. CASE j \in Checks
    BY <1>5 DEF Checks, Idle, Commands, Binding
  <1>6. CASE j \in Reports
    BY <1>6 DEF Reports, Idle, Commands, Binding
  <1>7. CASE j \in Builds
    BY <1>7 DEF Builds, Idle, Commands, Binding
  <1>8. CASE j \in Packages
    BY <1>8 DEF Packages, Idle, Commands, Binding
  <1> QED
    BY <1>1, <1>2, <1>3, <1>4, <1>5, <1>6, <1>7, <1>8 DEF Jobs

LEMMA StampIsNew ==
    ASSUME IInv
    PROVE  /\ Stamp \in Digest /\ Stamp # checksums.d1
           /\ \A s \in Sessions : job[s] # Idle => job[s].at # Stamp
           /\ \A k \in Kinds : Unwritten(Stamp, k)
  <1>1. Stamp \in Digest /\ Stamp \notin Digests
    BY StampIsNobodys
  <1>2. \A s \in Sessions : OfJob(job[s]) \subseteq Digests
    BY DEF Digests
  <1>3. \A s \in Sessions : job[s] \in Jobs
    BY DEF IInv, TypesOK, JobsOK
  <1>4. \A s \in Sessions : job[s] # Idle => job[s].at # Stamp
    BY <1>1, <1>2, <1>3, JobShapes DEF OfJob
  <1>5. ASSUME NEW i \in InputSets, OfInputs(i) \subseteq Digests, NEW k \in Kinds
        PROVE  i[k] # Stamp
    <2>1. i.manifest # 0
      BY DEF InputSets
    <2>2. i # NoInputs
      BY <2>1 DEF NoInputs
    <2>3. i[k] \in OfInputs(i)
      BY <2>2 DEF OfInputs, Kinds
    <2> QED
      BY <1>1, <1>5, <2>3
  <1>6. \A i \in InputSets : Held(i) => OfInputs(i) \subseteq Digests
    <2>1. OfInputs(d1.inputs) \subseteq Digests
      BY DEF Digests
    <2>2. \A s \in Sessions : Binding(job[s]) => OfInputs(job[s].inputs) \subseteq Digests
      BY <1>2, <1>3, JobShapes DEF OfJob
    <2> QED
      BY <2>1, <2>2 DEF Held
  <1>7. \A k \in Kinds : Inputs[k] \in Digests
    BY DEF Inputs, Kinds, Digests
  <1>8. \A k \in Kinds : Unwritten(Stamp, k)
    BY <1>1, <1>5, <1>6, <1>7 DEF Unwritten
  <1>9. checksums.d1 \in Digests
    BY DEF Digests, OfListing
  <1> QED
    BY <1>1, <1>4, <1>8, <1>9

-----------------------------------------------------------------------------
(* What a step may do to the files that others quote.                        *)

\* Session s turns to command j: it starts it with a new digest, goes on with it, or
\* ends it; nobody runs the same command meanwhile.
Turns(s, j) ==
    /\ job' = [job EXCEPT ![s] = j]
    /\ \/ j = Idle
       \/ /\ job[s] # Idle /\ j.cmd = job[s].cmd /\ j.at = job[s].at
          /\ Pending(j) \subseteq Pending(job[s])
       \/ job[s] = Idle /\ j.at = Stamp /\ \A o \in Sessions : job[o].cmd # j.cmd

\* A file of kind k gets the digest that its command has held since it started, and
\* which it will not use again; or, without a command, a new one.
Restamped(s, j, k) ==
    \/ k \in Pending(job[s]) \ Pending(j) /\ Inputs'[k] = job[s].at
    \/ job[s] = Idle /\ j = Idle /\ Inputs'[k] = Stamp

Rewrites(s, j) ==
    /\ manifest' = manifest \/ Restamped(s, j, "manifest")
    /\ stability' = stability \/ Restamped(s, j, "stability")
    /\ media' = media \/ Restamped(s, j, "media")
    /\ supplement' = supplement \/ Restamped(s, j, "supplement")
    /\ report' = report \/ Restamped(s, j, "report")

LEMMA RestampedIsNew ==
    ASSUME IInv, NEW s \in Sessions, NEW j, NEW k \in Kinds, Restamped(s, j, k)
    PROVE  /\ Unwritten(Inputs'[k], k)
           /\ \A o \in Sessions : o # s /\ job[o] # Idle => job[o].at # Inputs'[k]
  <1>1. CASE k \in Pending(job[s]) \ Pending(j) /\ Inputs'[k] = job[s].at
    <2>1. job[s] # Idle
      BY <1>1 DEF Pending, Idle
    <2> QED
      BY <1>1, <2>1 DEF IInv, StampsAreNew
  <1>2. CASE job[s] = Idle /\ j = Idle /\ Inputs'[k] = Stamp
    BY <1>2, StampIsNew
  <1> QED
    BY <1>1, <1>2 DEF Restamped

\* The digest of a kind stays, or is restamped.
LEMMA RewritesKinds ==
    ASSUME NEW s, NEW j, Rewrites(s, j), NEW k \in Kinds
    PROVE  Inputs'[k] = Inputs[k] \/ Restamped(s, j, k)
  BY DEF Rewrites, Inputs, Kinds

LEMMA StampsKept ==
    ASSUME IInv, NEW s \in Sessions, NEW j \in Jobs, Turns(s, j), Rewrites(s, j),
           \A i \in InputSets : Held(i)' => Held(i) \/ i = Inputs
    PROVE  StampsAreNew'
  <1>1. job \in [Sessions -> Jobs]
    BY DEF IInv, TypesOK, JobsOK
  <1>2. job'[s] = j /\ \A o \in Sessions \ {s} : job'[o] = job[o]
    BY <1>1 DEF Turns
  <1>3. ASSUME NEW n, NEW k \in Kinds, Unwritten(n, k)
        PROVE  \A i \in InputSets : Held(i)' => n # i[k]
    BY <1>3 DEF Unwritten
  <1>4. ASSUME NEW o \in Sessions, NEW k \in Pending(job'[o])
        PROVE  Unwritten(job[o].at, k)'
    <2>1. k \in Kinds /\ job'[o] # Idle
      BY DEF Pending, Idle
    <2>2. CASE o # s
      <3>1. job'[o] = job[o] /\ Unwritten(job[o].at, k)
        BY <1>2, <2>2 DEF IInv, StampsAreNew
      <3>2. job[o].at # Inputs'[k]
        BY <2>1, <2>2, <3>1, RewritesKinds, RestampedIsNew DEF Unwritten
      <3> QED
        BY <1>3, <2>1, <3>1, <3>2 DEF Unwritten
    <2>3. CASE o = s
      <3>1. job'[o] = j /\ j # Idle /\ k \in Pending(j)
        BY <1>2, <2>1, <2>3
      <3>2. Inputs'[k] = Inputs[k]
        <4>1. ~Restamped(s, j, k)
          BY <3>1 DEF Restamped
        <4> QED
          BY <2>1, <4>1, RewritesKinds
      <3>3. CASE job[s] # Idle /\ j.at = job[s].at /\ Pending(j) \subseteq Pending(job[s])
        <4>1. Unwritten(job[s].at, k)
          BY <3>1, <3>3 DEF IInv, StampsAreNew
        <4> QED
          BY <1>3, <2>1, <3>1, <3>2, <3>3, <4>1 DEF Unwritten
      <3>4. CASE j.at = Stamp
        <4>1. Unwritten(Stamp, k)
          BY <2>1, StampIsNew
        <4> QED
          BY <1>3, <2>1, <3>1, <3>2, <3>4, <4>1 DEF Unwritten
      <3> QED
        BY <3>1, <3>3, <3>4 DEF Turns
    <2> QED
      BY <2>2, <2>3
  <1>5. ASSUME NEW o \in Sessions, o # s, job[o] # Idle, j # Idle
        PROVE  job[o].cmd # j.cmd /\ job[o].at # j.at
    <2>1. CASE job[s] # Idle /\ j.cmd = job[s].cmd /\ j.at = job[s].at
      BY <1>5, <2>1 DEF IInv, StampsAreNew
    <2>2. CASE j.at = Stamp /\ \A x \in Sessions : job[x].cmd # j.cmd
      BY <1>5, <2>2, StampIsNew
    <2> QED
      BY <1>5, <2>1, <2>2 DEF Turns
  <1>6. ASSUME NEW x \in Sessions, NEW o \in Sessions, x # o, job'[x] # Idle, job'[o] # Idle
        PROVE  job'[x].cmd # job'[o].cmd /\ job'[x].at # job'[o].at
    <2>1. CASE x # s /\ o # s
      BY <1>2, <1>6, <2>1 DEF IInv, StampsAreNew
    <2>2. CASE x = s
      BY <1>2, <1>5, <1>6, <2>2
    <2>3. CASE o = s
      BY <1>2, <1>5, <1>6, <2>3
    <2> QED
      BY <2>1, <2>2, <2>3
  <1>7. \A o \in Sessions : \A k \in Pending(job'[o]) : Unwritten(job[o].at, k)'
    BY <1>4
  <1>8. \A x, o \in Sessions : x # o /\ job'[x] # Idle /\ job'[o] # Idle =>
           job'[x].cmd # job'[o].cmd /\ job'[x].at # job'[o].at
    BY <1>6
  <1>9. \A o \in Sessions : Pending(job[o])' = Pending(job'[o])
    BY DEF Pending
  <1> QED
    BY <1>7, <1>8, <1>9 DEF StampsAreNew, Idle

\* What is held stays sound: a file that changes is no longer the one quoted.
LEMMA SoundKept ==
    ASSUME IInv, NEW s \in Sessions, NEW j, Rewrites(s, j),
           NEW i \in InputSets, Held(i) \/ (i = Inputs /\ SoundInputs(i))
    PROVE  SoundInputs(i)'
  <1>1. SoundInputs(i)
    BY DEF IInv, InputsAreSound
  <1>2. ASSUME NEW k \in Kinds, Restamped(s, j, k)
        PROVE  i[k] # Inputs'[k]
    BY <1>2, RestampedIsNew DEF Unwritten
  <1>3. report' = report \/ i.report # report'.at
    BY <1>2 DEF Rewrites, Kinds, Inputs
  <1>4. manifest' = manifest \/ i.manifest # manifest'.at
    BY <1>2 DEF Rewrites, Kinds, Inputs
  <1>5. stability' = stability \/ i.stability # stability'.at
    BY <1>2 DEF Rewrites, Kinds, Inputs
  <1>6. supplement' = supplement \/ i.supplement # supplement'.at
    BY <1>2 DEF Rewrites, Kinds, Inputs
  <1> QED
    BY <1>1, <1>3, <1>4, <1>5, <1>6 DEF SoundInputs

\* Media records that are final stay, and only the media command writes others.
Downloads(s) ==
    /\ checkpoint' = checkpoint \/ job[s].cmd = "media"
    /\ \A r \in Refs : checkpoint[r] \in {"stored", "excluded"} => checkpoint'[r] = checkpoint[r]

LEMMA FinalStays ==
    ASSUME IInv, TypesOK', NEW s, Downloads(s), Final(checkpoint)
    PROVE  checkpoint' = checkpoint
  BY DEF IInv, TypesOK, FilesOK, Downloads, Final, Records

LEMMA TurnsOne ==
    ASSUME IInv, NEW s \in Sessions, NEW j, Turns(s, j)
    PROVE  job'[s] = j /\ \A o \in Sessions \ {s} : job'[o] = job[o]
  BY DEF IInv, TypesOK, JobsOK, Turns

LEMMA RecordsKept ==
    ASSUME IInv, TypesOK', NEW s \in Sessions, NEW j \in Jobs, Turns(s, j), Downloads(s),
           \/ report' = report
           \/ report'.verified /\ report'.checked => Final(report'.saw) /\ checkpoint' = report'.saw,
           j.cmd = "verify" /\ j.step # 1 /\ j.ok /\ j.checked =>
              Final(j.saw) /\ checkpoint' = j.saw,
           j.cmd = "media" => \A r \in j.todo : checkpoint'[r] \notin {"stored", "excluded"},
           Binding(j) => Final(checkpoint) /\ j.inputs.checkpoint = checkpoint,
           d1'.at # 0 => Final(d1'.rec) /\ checkpoint = d1'.rec
    PROVE  RecordsAreFinal'
  <1>1. job'[s] = j /\ \A o \in Sessions \ {s} : job'[o] = job[o]
    BY TurnsOne
  <1>2. Final(checkpoint) => checkpoint' = checkpoint
    BY FinalStays
  <1>3. report'.verified /\ report'.checked => Final(report'.saw) /\ checkpoint' = report'.saw
    BY <1>2 DEF IInv, RecordsAreFinal
  <1>4. d1'.at # 0 => Final(d1'.rec) /\ checkpoint' = d1'.rec
    BY <1>2
  <1>5. ASSUME NEW o \in Sessions
        PROVE  /\ job'[o].cmd = "verify" /\ job'[o].step # 1 /\ job'[o].ok /\ job'[o].checked =>
                     Final(job'[o].saw) /\ checkpoint' = job'[o].saw
               /\ Binding(job'[o]) => Final(checkpoint') /\ job'[o].inputs.checkpoint = checkpoint'
    BY <1>1, <1>2 DEF IInv, RecordsAreFinal
  <1>6. ASSUME NEW o \in Sessions, job'[o].cmd = "media"
        PROVE  \A r \in job'[o].todo : checkpoint'[r] \notin {"stored", "excluded"}
    <2>1. CASE o = s
      BY <1>1, <1>6, <2>1
    <2>2. CASE o # s
      <3>1. job'[o] = job[o]
        BY <1>1, <2>2
      <3>2. job[s].cmd # "media"
        BY <1>6, <2>2, <3>1 DEF IInv, StampsAreNew, Idle
      <3> QED
        BY <1>6, <3>1, <3>2 DEF Downloads, IInv, RecordsAreFinal
    <2> QED
      BY <2>1, <2>2
  <1>7. \A o \in Sessions : Binding(job[o])' = Binding(job'[o])
    BY DEF Binding
  <1> QED
    BY <1>3, <1>4, <1>5, <1>6, <1>7 DEF RecordsAreFinal, Final

LEMMA BuildsKept ==
    ASSUME IInv, NEW s \in Sessions, NEW j, Turns(s, j), d1' = d1, j.cmd # "build"
    PROVE  BuildsAreOwned'
  <1>1. job'[s] = j /\ \A o \in Sessions \ {s} : job'[o] = job[o]
    BY TurnsOne
  <1> QED
    BY <1>1 DEF IInv, BuildsAreOwned

\* The other files that the inputs quote: the sidecar follows the report, and a new
\* listing has the database in it.
Relists ==
    /\ sidecar' = sidecar \/ (sidecar' = report.at /\ report' = report)
    /\ checksums' = checksums \/ checksums'.d1 = d1.at

\* Inputs that have changed do not come back.
LEMMA InputsDepart ==
    ASSUME IInv, TypesOK', NEW s \in Sessions, NEW j, Rewrites(s, j), Downloads(s), Relists,
           NEW o \in Sessions, job[o].cmd = "package"
    PROVE  /\ checkpoint' = job[o].inputs.checkpoint
           /\ sidecar' = job[o].inputs.sidecar \/ report'.at # job[o].inputs.report
           /\ Inputs' = job[o].inputs => Inputs = job[o].inputs
  <1> DEFINE i == job[o].inputs
  <1>1. i \in InputSets /\ Held(i) /\ Binding(job[o])
    BY JobShapes DEF IInv, TypesOK, JobsOK, Held, Binding
  <1>2. PackageFollows(job[o])
    BY DEF IInv, PackagesFollow
  <1>3. checkpoint = i.checkpoint /\ checkpoint' = checkpoint
    BY <1>1, FinalStays DEF IInv, RecordsAreFinal
  <1>4. \A k \in Kinds : Restamped(s, j, k) => i[k] # Inputs'[k]
    BY <1>1, RestampedIsNew DEF Unwritten
  <1>5. report' = report \/ report'.at # i.report
    BY <1>4 DEF Rewrites, Kinds, Inputs
  <1>6. sidecar' = i.sidecar \/ report'.at # i.report
    BY <1>2, <1>5 DEF Relists, PackageFollows
  <1>7. ASSUME Inputs' = i
        PROVE  Inputs = i
    <2>1. /\ manifest'.at = i.manifest /\ report'.at = i.report /\ sidecar' = i.sidecar
          /\ checksums' = i.checksums /\ stability'.at = i.stability /\ media'.at = i.media
          /\ checkpoint' = i.checkpoint /\ supplement'.at = i.supplement
      BY <1>7 DEF Inputs
    <2>2. \A k \in Kinds : ~Restamped(s, j, k)
      BY <1>4, <1>7
    <2>3. /\ manifest' = manifest /\ stability' = stability /\ media' = media
          /\ supplement' = supplement /\ report' = report
      BY <2>2 DEF Rewrites, Kinds
    <2>4. sidecar = i.sidecar
      BY <1>2, <2>1, <2>3 DEF PackageFollows
    <2>5. checksums = i.checksums
      BY <1>2, <2>1 DEF PackageFollows, Relists
    <2>6. Inputs = Inputs'
      BY <1>3, <2>1, <2>3, <2>4, <2>5 DEF Inputs
    <2> QED
      BY <1>7, <2>6
  <1> QED
    BY <1>3, <1>6, <1>7

LEMMA PackagesKept ==
    ASSUME IInv, TypesOK', NEW s \in Sessions, NEW j, Turns(s, j), Rewrites(s, j), Downloads(s),
           Relists, UNCHANGED <<d1, archive>>, j.cmd # "package"
    PROVE  PackagesFollow' /\ PackageIsOneBuild'
  <1>1. job'[s] = j /\ \A o \in Sessions \ {s} : job'[o] = job[o]
    BY TurnsOne
  <1>2. ASSUME NEW o \in Sessions, job'[o].cmd = "package"
        PROVE  PackageFollows(job[o])'
    <2>1. job'[o] = job[o] /\ PackageFollows(job[o])
      BY <1>1, <1>2 DEF IInv, PackagesFollow
    <2>2. /\ sidecar' = job[o].inputs.sidecar \/ report'.at # job[o].inputs.report
          /\ Inputs' = job[o].inputs => Inputs = job[o].inputs
      BY <1>2, <2>1, InputsDepart
    <2> QED
      BY <2>1, <2>2 DEF PackageFollows
  <1>3. PackageIsOneBuild'
    BY DEF IInv, PackageIsOneBuild
  <1> QED
    BY <1>2, <1>3 DEF PackagesFollow

\* A step of s that leaves the database and the package alone.
Plain(s, j) ==
    /\ Turns(s, j) /\ Rewrites(s, j) /\ Downloads(s) /\ Relists
    /\ UNCHANGED <<d1, archive>> /\ ~Binding(j)
    /\ \/ report' = report
       \/ report'.verified /\ report'.checked => Final(report'.saw) /\ checkpoint' = report'.saw
    /\ j.cmd = "verify" /\ j.step # 1 /\ j.ok /\ j.checked => Final(j.saw) /\ checkpoint' = j.saw
    /\ j.cmd = "media" => \A r \in j.todo : checkpoint'[r] \notin {"stored", "excluded"}

LEMMA PlainKeeps ==
    ASSUME IInv, TypesOK', NEW s \in Sessions, NEW j \in Jobs, Plain(s, j)
    PROVE  IInv'
  <1>1. job'[s] = j /\ \A o \in Sessions \ {s} : job'[o] = job[o]
    BY TurnsOne DEF Plain
  <1>2. \A i \in InputSets : Held(i)' => Held(i)
    BY <1>1 DEF Plain, Held, Binding
  <1>3. StampsAreNew'
    BY <1>2, StampsKept DEF Plain
  <1>4. InputsAreSound'
    BY <1>2, SoundKept DEF Plain, InputsAreSound
  <1>5. RecordsAreFinal'
    <2>1. d1'.at # 0 => Final(d1'.rec) /\ checkpoint = d1'.rec
      BY DEF Plain, IInv, RecordsAreFinal
    <2> QED
      BY <2>1, RecordsKept DEF Plain
  <1>6. BuildsAreOwned' /\ PackagesFollow' /\ PackageIsOneBuild'
    BY BuildsKept, PackagesKept DEF Plain, Binding
  <1> QED
    BY <1>3, <1>4, <1>5, <1>6 DEF IInv

LEMMA PlainStep ==
    ASSUME IInv, FilesOK', CountersOK', NEW s \in Sessions, NEW j \in Jobs, Plain(s, j)
    PROVE  IInv'
  <1>1. JobsOK'
    BY DEF Plain, Turns, IInv, TypesOK, JobsOK
  <1>2. D1OK' /\ ArchiveOK'
    BY DEF Plain, IInv, TypesOK, D1OK, ArchiveOK
  <1> QED
    BY <1>1, <1>2, PlainKeeps DEF TypesOK

-----------------------------------------------------------------------------
(* compare, media and enrich-drops.                                          *)

\* A command that starts with nothing but a look at the manifest.
LEMMA StartKeeps ==
    ASSUME IInv, CountersOK', NEW s \in Sessions, NEW j \in Jobs, ~Binding(j),
           Free(s, j.cmd), j.at = Stamp, Run(s, j), progress' \in Nat,
           UNCHANGED <<manifest, stability, checkpoint, media, supplement, checksums,
                       report, sidecar, d1, archive, litter>>,
           j.cmd = "verify" => j.step = 1,
           j.cmd = "media" => \A r \in j.todo : checkpoint[r] \notin {"stored", "excluded"}
    PROVE  IInv'
  <1>1. Turns(s, j)
    BY DEF Turns, Run, Free
  <1>2. Rewrites(s, j) /\ Downloads(s) /\ Relists
    BY DEF Rewrites, Downloads, Relists
  <1>3. FilesOK'
    BY DEF IInv, TypesOK, FilesOK
  <1>4. Plain(s, j)
    BY <1>1, <1>2 DEF Plain
  <1> QED
    BY <1>3, <1>4, PlainStep

LEMMA StartCompareKeeps ==
    ASSUME IInv, CountersOK', NEW s \in Sessions, StartCompare(s)
    PROVE  IInv'
  <1> DEFINE j == [cmd |-> "compare", step |-> 1, at |-> Stamp, m |-> manifest]
  <1>1. j \in Compares
    BY StampIsNobodys DEF Compares, IInv, TypesOK, FilesOK
  <1>2. j \in Jobs /\ j.cmd = "compare" /\ j.at = Stamp /\ ~Binding(j)
    BY <1>1 DEF Jobs, Binding
  <1>3. Free(s, "compare") /\ Run(s, j) /\ UNCHANGED files
    BY DEF StartCompare
  <1> HIDE DEF j
  <1> QED
    BY <1>2, <1>3, StartKeeps DEF files, IInv, TypesOK, FilesOK

LEMMA StartMediaKeeps ==
    ASSUME IInv, CountersOK', NEW s \in Sessions, NEW retry, StartMedia(s, retry)
    PROVE  IInv'
  <1> DEFINE todo == {r \in Refs : checkpoint[r] = "none" \/ (retry /\ checkpoint[r] = "failed")}
             j == [cmd |-> "media", step |-> 1, at |-> Stamp, m |-> manifest, todo |-> todo]
  <1>1. j \in Captures
    BY StampIsNobodys DEF Captures, IInv, TypesOK, FilesOK
  <1>2. /\ j \in Jobs /\ j.cmd = "media" /\ j.at = Stamp /\ ~Binding(j)
        /\ \A r \in j.todo : checkpoint[r] \notin {"stored", "excluded"}
    BY <1>1 DEF Jobs, Binding
  <1>3. Free(s, "media") /\ Run(s, j) /\ UNCHANGED files
    BY DEF StartMedia
  <1> HIDE DEF j
  <1> QED
    BY <1>2, <1>3, StartKeeps DEF files, IInv, TypesOK, FilesOK

LEMMA StartEnrichKeeps ==
    ASSUME IInv, CountersOK', NEW s \in Sessions, StartEnrich(s)
    PROVE  IInv'
  <1> DEFINE j == [cmd |-> "enrich", step |-> 1, at |-> Stamp, m |-> manifest]
  <1>1. j \in Enriches
    BY StampIsNobodys DEF Enriches, IInv, TypesOK, FilesOK
  <1>2. j \in Jobs /\ j.cmd = "enrich" /\ j.at = Stamp /\ ~Binding(j)
    BY <1>1 DEF Jobs, Binding
  <1>3. /\ Free(s, "enrich") /\ Run(s, j) /\ progress' \in Nat
        /\ UNCHANGED <<manifest, stability, checkpoint, media, supplement, checksums,
                       report, sidecar, d1, archive, litter>>
    BY DEF StartEnrich, IInv, TypesOK, FilesOK, Manifests
  <1> HIDE DEF j
  <1> QED
    BY <1>2, <1>3, StartKeeps

LEMMA StartVerifyKeeps ==
    ASSUME IInv, CountersOK', NEW s \in Sessions, StartVerify(s)
    PROVE  IInv'
  <1> DEFINE j == [cmd |-> "verify", step |-> 1, at |-> Stamp, m |-> manifest]
  <1>1. j \in Checks
    BY StampIsNobodys DEF Checks, IInv, TypesOK, FilesOK
  <1>2. j \in Jobs /\ j.cmd = "verify" /\ j.at = Stamp /\ j.step = 1 /\ ~Binding(j)
    BY <1>1 DEF Jobs, Binding
  <1>3. Free(s, "verify") /\ Run(s, j) /\ UNCHANGED files
    BY DEF StartVerify
  <1> HIDE DEF j
  <1> QED
    BY <1>2, <1>3, StartKeeps DEF files, IInv, TypesOK, FilesOK

\* A step that writes its file and ends the command, or goes on with it.
LEMMA EndKeeps ==
    ASSUME IInv, CountersOK', FilesOK', NEW s \in Sessions, Done(s), Rewrites(s, Idle),
           report' = report, Relists, UNCHANGED <<checkpoint, d1, archive>>
    PROVE  IInv'
  <1>1. Idle \in Jobs /\ Idle.cmd = "idle"
    BY DEF Jobs, Idle
  <1>2. Plain(s, Idle)
    BY <1>1 DEF Plain, Turns, Done, Downloads, Binding
  <1> QED
    BY <1>1, <1>2, PlainStep

LEMMA WriteStabilityKeeps ==
    ASSUME IInv, CountersOK', NEW s \in Sessions, NEW stable \in BOOLEAN,
           WriteStability(s, stable)
    PROVE  IInv'
  <1> DEFINE w == job[s]
             j == [w EXCEPT !.step = @ + 1]
  <1>1. w \in Compares /\ w.step = 1
    BY JobShapes DEF IInv, TypesOK, JobsOK, WriteStability, At
  <1>2. j \in Compares /\ j.cmd = "compare" /\ j.step = 2 /\ j.at = w.at /\ w # Idle
        /\ w.cmd = "compare"
    BY <1>1 DEF Compares, Idle
  <1>3. job' = [job EXCEPT ![s] = j] /\ j \in Jobs
    BY <1>2 DEF WriteStability, Advance, Jobs
  <1>4. /\ stability' = [at |-> w.at, fin |-> w.m.fin, stable |-> stable]
        /\ UNCHANGED <<manifest, checkpoint, media, progress, supplement, checksums, report,
                       sidecar, d1, archive, litter>>
    BY DEF WriteStability
  <1>5. Pending(w) = {"stability", "manifest"} /\ Pending(j) = {"manifest"}
    BY <1>1, <1>2 DEF Pending, Kinds
  <1>6. FilesOK'
    BY <1>1, <1>4 DEF IInv, TypesOK, FilesOK, Compares, Manifests, Digest
  <1> HIDE DEF j
  <1>7. Turns(s, j)
    BY <1>2, <1>3, <1>5 DEF Turns
  <1>8. Rewrites(s, j) /\ Downloads(s) /\ Relists
    BY <1>4, <1>5 DEF Rewrites, Restamped, Downloads, Relists, Inputs
  <1>9. Plain(s, j)
    BY <1>2, <1>4, <1>7, <1>8 DEF Plain, Binding
  <1> QED
    BY <1>3, <1>6, <1>9, PlainStep

LEMMA WriteConsistencyKeeps ==
    ASSUME IInv, CountersOK', NEW s \in Sessions, WriteConsistency(s)
    PROVE  IInv'
  <1> DEFINE w == job[s]
  <1>1. w \in Compares /\ w.step = 2
    BY JobShapes DEF IInv, TypesOK, JobsOK, WriteConsistency, At
  <1>2. w.m \in Manifests /\ w.at \in Digest /\ w.cmd = "compare"
    BY <1>1 DEF Compares
  <1>3. /\ manifest' = [w.m EXCEPT !.at = w.at, !.cons = w.at, !.stable = stability.stable]
        /\ UNCHANGED <<stability, checkpoint, media, progress, supplement, checksums, report,
                       sidecar, d1, archive, litter>>
        /\ Done(s)
    BY DEF WriteConsistency
  <1>4. manifest' \in Manifests /\ manifest'.at = w.at
    BY <1>2, <1>3 DEF Manifests, Digest, IInv, TypesOK, FilesOK
  <1>5. Pending(w) = {"manifest"} /\ Pending(Idle) = {}
    BY <1>1, <1>2 DEF Pending, Kinds, Idle
  <1>6. Rewrites(s, Idle) /\ Relists
    BY <1>3, <1>4, <1>5 DEF Rewrites, Restamped, Relists, Inputs
  <1>7. FilesOK'
    BY <1>3, <1>4 DEF IInv, TypesOK, FilesOK
  <1> QED
    BY <1>3, <1>6, <1>7, EndKeeps

LEMMA DownloadKeeps ==
    ASSUME IInv, CountersOK', NEW s \in Sessions, NEW r \in Refs,
           NEW outcome \in {"stored", "excluded", "failed"}, Download(s, r, outcome)
    PROVE  IInv'
  <1> DEFINE w == job[s]
             j == [w EXCEPT !.todo = @ \ {r}]
  <1>1. w \in Captures /\ w.step = 1 /\ r \in w.todo /\ w.cmd = "media"
    BY JobShapes DEF IInv, TypesOK, JobsOK, Download, At
  <1>2. j \in Captures /\ j.cmd = "media" /\ j.step = 1 /\ j.at = w.at /\ w # Idle
        /\ j.todo = w.todo \ {r}
    BY <1>1 DEF Captures, Idle
  <1>3. job' = [job EXCEPT ![s] = j] /\ j \in Jobs
    BY <1>2 DEF Download, Jobs
  <1>4. /\ checkpoint' = [checkpoint EXCEPT ![r] = outcome]
        /\ UNCHANGED <<manifest, stability, media, progress, supplement, checksums, report,
                       sidecar, d1, archive>>
        /\ litter \subseteq Litters => litter' \subseteq Litters
    BY DEF Download, Litters
  <1>5. Pending(j) = Pending(w)
    BY <1>1, <1>2 DEF Pending
  <1>6. \A x \in w.todo : checkpoint[x] \notin {"stored", "excluded"}
    BY <1>1 DEF IInv, RecordsAreFinal
  <1>7. checkpoint \in Records /\ checkpoint' \in Records
    BY <1>4 DEF IInv, TypesOK, FilesOK, Records, Statuses
  <1>8. FilesOK'
    BY <1>4, <1>7 DEF IInv, TypesOK, FilesOK
  <1> HIDE DEF j
  <1>9. Turns(s, j)
    BY <1>1, <1>2, <1>3, <1>5 DEF Turns
  <1>10. Rewrites(s, j) /\ Relists
    BY <1>4 DEF Rewrites, Relists
  <1>11. /\ Downloads(s)
         /\ \A x \in j.todo : checkpoint'[x] \notin {"stored", "excluded"}
    BY <1>1, <1>2, <1>4, <1>6, <1>7 DEF Downloads, Records
  <1>12. Plain(s, j)
    BY <1>2, <1>4, <1>9, <1>10, <1>11 DEF Plain, Binding
  <1> QED
    BY <1>3, <1>8, <1>12, PlainStep

LEMMA WriteMediaKeeps ==
    ASSUME IInv, CountersOK', NEW s \in Sessions, WriteMedia(s)
    PROVE  IInv'
  <1> DEFINE w == job[s]
             j == [w EXCEPT !.step = @ + 1]
  <1>1. w \in Captures /\ w.step = 1 /\ w.todo = {} /\ w.cmd = "media"
    BY JobShapes DEF IInv, TypesOK, JobsOK, WriteMedia, At
  <1>2. j \in Captures /\ j.cmd = "media" /\ j.step = 2 /\ j.at = w.at /\ w # Idle
        /\ j.todo = {}
    BY <1>1 DEF Captures, Idle
  <1>3. job' = [job EXCEPT ![s] = j] /\ j \in Jobs
    BY <1>2 DEF WriteMedia, Advance, Jobs
  <1>4. /\ media' = [at |-> w.at, rec |-> checkpoint]
        /\ UNCHANGED <<manifest, stability, checkpoint, progress, supplement, checksums,
                       report, sidecar, d1, archive, litter>>
    BY DEF WriteMedia
  <1>5. Pending(w) = {"media", "manifest"} /\ Pending(j) = {"manifest"}
    BY <1>1, <1>2 DEF Pending, Kinds
  <1>6. FilesOK'
    BY <1>1, <1>4 DEF IInv, TypesOK, FilesOK, Captures, Digest
  <1> HIDE DEF j
  <1>7. Turns(s, j)
    BY <1>1, <1>2, <1>3, <1>5 DEF Turns
  <1>8. Rewrites(s, j) /\ Downloads(s) /\ Relists
    BY <1>4, <1>5 DEF Rewrites, Restamped, Downloads, Relists, Inputs
  <1>9. Plain(s, j)
    BY <1>2, <1>4, <1>7, <1>8 DEF Plain, Binding
  <1> QED
    BY <1>3, <1>6, <1>9, PlainStep

LEMMA WriteMediaStatusKeeps ==
    ASSUME IInv, CountersOK', NEW s \in Sessions, WriteMediaStatus(s)
    PROVE  IInv'
  <1> DEFINE w == job[s]
  <1>1. w \in Captures /\ w.step = 2
    BY JobShapes DEF IInv, TypesOK, JobsOK, WriteMediaStatus, At
  <1>2. w.m \in Manifests /\ w.at \in Digest /\ w.cmd = "media"
    BY <1>1 DEF Captures
  <1>3. /\ manifest' = [w.m EXCEPT !.at = w.at, !.media = media]
        /\ UNCHANGED <<stability, checkpoint, media, progress, supplement, checksums, report,
                       sidecar, d1, archive, litter>>
        /\ Done(s)
    BY DEF WriteMediaStatus
  <1>4. manifest' \in Manifests /\ manifest'.at = w.at
    BY <1>2, <1>3 DEF Manifests, Digest, IInv, TypesOK, FilesOK
  <1>5. Pending(w) = {"manifest"} /\ Pending(Idle) = {}
    BY <1>1, <1>2 DEF Pending, Kinds, Idle
  <1>6. Rewrites(s, Idle) /\ Relists
    BY <1>3, <1>4, <1>5 DEF Rewrites, Restamped, Relists, Inputs
  <1>7. FilesOK'
    BY <1>3, <1>4 DEF IInv, TypesOK, FilesOK
  <1> QED
    BY <1>3, <1>6, <1>7, EndKeeps

LEMMA WriteSupplementKeeps ==
    ASSUME IInv, CountersOK', NEW s \in Sessions, NEW complete \in BOOLEAN,
           WriteSupplement(s, complete)
    PROVE  IInv'
  <1> DEFINE w == job[s]
  <1>1. w \in Enriches
    BY JobShapes DEF IInv, TypesOK, JobsOK, WriteSupplement, At
  <1>2. w.m \in Manifests /\ w.at \in Digest /\ w.cmd = "enrich"
    BY <1>1 DEF Enriches
  <1>3. /\ supplement' = [at |-> w.at, source |-> w.m.at, complete |-> complete]
        /\ UNCHANGED <<manifest, stability, checkpoint, media, progress, checksums, report,
                       sidecar, d1, archive, litter>>
        /\ Done(s)
    BY DEF WriteSupplement
  <1>4. Pending(w) = {"supplement"} /\ Pending(Idle) = {}
    BY <1>2 DEF Pending, Kinds, Idle
  <1>5. Rewrites(s, Idle) /\ Relists
    BY <1>3, <1>4 DEF Rewrites, Restamped, Relists, Inputs
  <1>6. FilesOK'
    BY <1>2, <1>3 DEF IInv, TypesOK, FilesOK, Manifests, Digest
  <1> QED
    BY <1>3, <1>5, <1>6, EndKeeps

-----------------------------------------------------------------------------
(* verify.                                                                   *)

LEMMA CheckSnapshotKeeps ==
    ASSUME IInv, CountersOK', NEW s \in Sessions, CheckSnapshot(s)
    PROVE  IInv'
  <1> DEFINE w == job[s]
             claimed == w.m.media.at # 0 /\ Final(w.m.media.rec)
             ok == claimed => MediaIsSound
             checked == claimed /\ Final(media.rec)
             j == [cmd |-> "verify", step |-> 2, at |-> w.at, m |-> manifest,
                   ok |-> ok, checked |-> checked, saw |-> checkpoint]
  <1>1. w.cmd = "verify" /\ w.step = 1 /\ w \in Jobs /\ w # Idle /\ w.at \in Digest
    BY JobShapes DEF IInv, TypesOK, JobsOK, CheckSnapshot, At, Idle
  <1>2. job' = [job EXCEPT ![s] = j] /\ UNCHANGED files
    BY DEF CheckSnapshot
  <1>3. checkpoint \in Records /\ media.rec \in Records /\ manifest \in Manifests
    BY DEF IInv, TypesOK, FilesOK
  <1>4. ok /\ checked => Final(checkpoint)
    BY <1>3, CountsAreFinal DEF MediaIsSound
  <1>5. ok \in BOOLEAN /\ checked \in BOOLEAN
    BY DEF Final, MediaIsSound
  <1> HIDE DEF ok, checked
  <1>6. j \in Reports
    BY <1>1, <1>3, <1>5 DEF Reports
  <1>7. /\ j \in Jobs /\ j.cmd = "verify" /\ j.at = w.at /\ j.step = 2 /\ j.saw = checkpoint
        /\ j.ok /\ j.checked => Final(checkpoint)
    BY <1>4, <1>6 DEF Jobs
  <1>8. Pending(w) = {"report"} /\ Pending(j) = {"report"}
    BY <1>1, <1>7 DEF Pending, Kinds
  <1> HIDE DEF j
  <1>9. Turns(s, j)
    BY <1>1, <1>2, <1>7, <1>8 DEF Turns
  <1>10. Rewrites(s, j) /\ Downloads(s) /\ Relists
    BY <1>2 DEF files, Rewrites, Downloads, Relists
  <1>11. Plain(s, j)
    BY <1>2, <1>7, <1>9, <1>10 DEF files, Plain, Binding
  <1>12. FilesOK'
    BY <1>2 DEF files, IInv, TypesOK, FilesOK
  <1> QED
    BY <1>7, <1>11, <1>12, PlainStep

LEMMA WriteChecksumsKeeps ==
    ASSUME IInv, CountersOK', NEW s \in Sessions, WriteChecksums(s)
    PROVE  IInv'
  <1> DEFINE w == job[s]
             ok == w.ok /\ "temporary" \notin litter
             j == [cmd |-> "verify", step |-> 3, at |-> w.at, m |-> w.m, ok |-> ok,
                   checked |-> w.checked, saw |-> w.saw]
             v == [cmd |-> "verify", step |-> 3, at |-> w.at, m |-> w.m, ok |-> w.ok,
                   checked |-> w.checked, saw |-> w.saw]
  <1>1. w.cmd = "verify" /\ w.step = 2 /\ w \in Jobs /\ w # Idle
    BY JobShapes DEF IInv, TypesOK, JobsOK, WriteChecksums, At, Idle
  <1>2. w \in Reports
    BY <1>1, JobShapes DEF Checks
  <1>3. [w EXCEPT !.step = 3] = v
    BY <1>2 DEF Reports
  <1>4. ok \in BOOLEAN /\ (ok => w.ok)
    OBVIOUS
  <1> HIDE DEF ok
  <1>5. [v EXCEPT !.ok = ok] = j
    OBVIOUS
  <1>6. [w EXCEPT !.step = 3, !.ok = ok] = j
    <2> HIDE DEF v, j
    <2> QED
      BY <1>3, <1>5, Zenon
  <1>7. job' = [job EXCEPT ![s].step = 3, ![s].ok = ok]
    BY DEF WriteChecksums, ok
  <1>8. job' = [job EXCEPT ![s] = j]
    <2> HIDE DEF v, j
    <2> QED
      BY <1>6, <1>7
  <1>9. j \in Reports
    BY <1>2, <1>4 DEF Reports
  <1>10. /\ j \in Jobs /\ j.cmd = "verify" /\ j.at = w.at /\ j.step = 3
         /\ j.ok /\ j.checked => Final(j.saw) /\ checkpoint = j.saw
    BY <1>1, <1>4, <1>9 DEF Jobs, IInv, RecordsAreFinal
  <1>11. Pending(w) = {"report"} /\ Pending(j) = {"report"}
    BY <1>1, <1>10 DEF Pending, Kinds
  <1>12. /\ checksums' = Listing
         /\ UNCHANGED <<manifest, stability, checkpoint, media, progress, supplement, report,
                        sidecar, d1, archive, litter>>
    BY DEF WriteChecksums
  <1> HIDE DEF j
  <1>13. Turns(s, j)
    BY <1>1, <1>8, <1>10, <1>11 DEF Turns
  <1>14. Rewrites(s, j) /\ Downloads(s) /\ Relists
    BY <1>12 DEF Rewrites, Downloads, Relists, Listing
  <1>15. Plain(s, j)
    BY <1>10, <1>12, <1>13, <1>14 DEF Plain, Binding
  <1>16. FilesOK'
    BY <1>12 DEF IInv, TypesOK, FilesOK, D1OK, Listing, Listings
  <1> QED
    BY <1>10, <1>15, <1>16, PlainStep

LEMMA WriteReportKeeps ==
    ASSUME IInv, CountersOK', NEW s \in Sessions, WriteReport(s)
    PROVE  IInv'
  <1> DEFINE w == job[s]
             j == [w EXCEPT !.step = @ + 1]
  <1>1. w.cmd = "verify" /\ w.step = 3 /\ w \in Jobs /\ w # Idle
    BY JobShapes DEF IInv, TypesOK, JobsOK, WriteReport, At, Idle
  <1>2. w \in Reports
    BY <1>1, JobShapes DEF Checks
  <1>3. /\ j \in Reports /\ j.cmd = "verify" /\ j.step = 4 /\ j.at = w.at
        /\ j.ok = w.ok /\ j.checked = w.checked /\ j.saw = w.saw
    BY <1>1, <1>2 DEF Reports
  <1>4. job' = [job EXCEPT ![s] = j] /\ j \in Jobs
    BY <1>1, <1>3 DEF WriteReport, Advance, Jobs
  <1>5. /\ report'.at = w.at /\ report'.verified = w.ok /\ report'.checked = w.checked
        /\ report'.saw = w.saw
        /\ UNCHANGED <<manifest, stability, checkpoint, media, progress, supplement,
                       checksums, sidecar, d1, archive, litter>>
    BY DEF WriteReport
  <1>6. Pending(w) = {"report"} /\ Pending(j) = {}
    BY <1>1, <1>3 DEF Pending, Kinds
  <1>7. w.ok /\ w.checked => Final(w.saw) /\ checkpoint = w.saw
    BY <1>1 DEF IInv, RecordsAreFinal
  <1>8. FilesOK'
    BY <1>2, <1>5 DEF IInv, TypesOK, FilesOK, Reports, Digest
  <1> HIDE DEF j
  <1>9. Turns(s, j)
    BY <1>1, <1>3, <1>4, <1>6 DEF Turns
  <1>10. Rewrites(s, j) /\ Downloads(s) /\ Relists
    BY <1>5, <1>6 DEF Rewrites, Restamped, Downloads, Relists, Inputs
  <1>11. Plain(s, j)
    BY <1>3, <1>5, <1>7, <1>9, <1>10 DEF Plain, Binding
  <1> QED
    BY <1>4, <1>8, <1>11, PlainStep

LEMMA WriteSidecarKeeps ==
    ASSUME IInv, CountersOK', NEW s \in Sessions, WriteSidecar(s)
    PROVE  IInv'
  <1>1. Rewrites(s, Idle) /\ Relists
    BY DEF WriteSidecar, Rewrites, Relists
  <1>2. FilesOK'
    BY DEF WriteSidecar, IInv, TypesOK, FilesOK
  <1> QED
    BY <1>1, <1>2, EndKeeps DEF WriteSidecar

-----------------------------------------------------------------------------
(* A resumed snapshot, and a command that is killed.                         *)

LEMMA ResumeKeeps ==
    ASSUME IInv, CountersOK', NEW s \in Sessions, Resume(s)
    PROVE  IInv'
  <1>1. /\ job[s] = Idle /\ manifest' = Captured(Stamp)
        /\ UNCHANGED <<stability, checkpoint, media, progress, supplement, checksums, report,
                       sidecar, d1, archive, litter, job>>
    BY DEF Resume
  <1>2. manifest' \in Manifests /\ manifest'.at = Stamp
    BY <1>1, StampIsNobodys DEF Captured, Manifests, Unmade, Records, Statuses, Digest
  <1>3. Rewrites(s, Idle) /\ Relists
    BY <1>1, <1>2 DEF Rewrites, Restamped, Relists, Inputs
  <1>4. Done(s)
    BY <1>1 DEF Done, IInv, TypesOK, JobsOK
  <1>5. FilesOK'
    BY <1>1, <1>2 DEF IInv, TypesOK, FilesOK
  <1> QED
    BY <1>1, <1>3, <1>4, <1>5, EndKeeps

LEMMA KillKeeps ==
    ASSUME IInv, CountersOK', NEW s \in Sessions, Kill(s)
    PROVE  IInv'
  <1>1. Rewrites(s, Idle) /\ Relists
    BY DEF Kill, Rewrites, Relists
  <1>2. litter \subseteq Litters => litter' \subseteq Litters
    BY DEF Kill, Leavings, Litters
  <1>3. FilesOK'
    BY <1>2 DEF Kill, IInv, TypesOK, FilesOK
  <1> QED
    BY <1>1, <1>3, EndKeeps DEF Kill

-----------------------------------------------------------------------------
(* build-d1 and package: the files they are bound to stay.                   *)

\* What is bound is sound, and its media records are final.
LEMMA BoundFacts ==
    ASSUME IInv, Bound
    PROVE  /\ Inputs \in InputSets /\ SoundInputs(Inputs)
           /\ Final(checkpoint) /\ Inputs.checkpoint = checkpoint
           /\ Inputs.sidecar = Inputs.report
  <1>1. report.verified /\ report.checked /\ sidecar = report.at
    BY DEF Bound, ReportIsCurrent, MediaIsPublishable
  <1>2. Final(checkpoint)
    BY <1>1 DEF IInv, RecordsAreFinal
  <1>3. SoundInputs(Inputs)
    BY <1>1 DEF Bound, StabilityIsBound, SupplementIsBound, SoundInputs, Inputs
  <1>4. Inputs \in InputSets
    BY DEF IInv, TypesOK, FilesOK, Inputs, InputSets, Manifests
  <1> QED
    BY <1>1, <1>2, <1>3, <1>4 DEF Inputs

evidence == <<manifest, stability, checkpoint, media, progress, supplement, checksums,
              report, sidecar, litter>>

\* A step of s that changes nothing but the database, the package and what s runs.
LEMMA BindingStep ==
    ASSUME IInv, CountersOK', NEW s \in Sessions, NEW j \in Jobs, Turns(s, j),
           UNCHANGED evidence, D1OK', ArchiveOK',
           \A i \in InputSets : Held(i)' => Held(i) \/ (i = Inputs /\ SoundInputs(i)),
           j.cmd \notin {"verify", "media"},
           Binding(j) => Final(checkpoint) /\ j.inputs.checkpoint = checkpoint,
           d1'.at # 0 => Final(d1'.rec) /\ checkpoint = d1'.rec,
           BuildsAreOwned', PackagesFollow', PackageIsOneBuild'
    PROVE  IInv'
  <1>1. TypesOK'
    <2>1. FilesOK'
      BY DEF evidence, IInv, TypesOK, FilesOK
    <2>2. JobsOK'
      BY DEF Turns, IInv, TypesOK, JobsOK
    <2> QED
      BY <2>1, <2>2 DEF TypesOK
  <1>2. Rewrites(s, j) /\ Downloads(s)
    BY DEF evidence, Rewrites, Downloads
  <1>3. StampsAreNew'
    BY <1>2, StampsKept
  <1>4. InputsAreSound'
    BY <1>2, SoundKept DEF InputsAreSound
  <1>5. RecordsAreFinal'
    BY <1>1, <1>2, RecordsKept DEF evidence
  <1> QED
    BY <1>1, <1>3, <1>4, <1>5 DEF IInv

\* While a build runs there is no other, and nobody packages.
LEMMA BuildsAlone ==
    ASSUME IInv, NEW s \in Sessions, job[s].cmd = "build"
    PROVE  /\ job[s] \in Builds /\ job[s] # Idle
           /\ \A o \in Sessions : job[o].cmd # "package" /\ (o # s => job[o].cmd # "build")
           /\ Final(checkpoint) /\ job[s].inputs.checkpoint = checkpoint
           /\ \A i : i = job[s].inputs => Held(i)
  <1>1. job[s] \in Builds /\ job[s] # Idle
    BY JobShapes DEF IInv, TypesOK, JobsOK, Idle
  <1>2. ~d1.portable
    BY DEF IInv, BuildsAreOwned
  <1>3. \A o \in Sessions : job[o].cmd # "package"
    BY <1>2 DEF IInv, PackagesFollow, PackageFollows
  <1>4. \A o \in Sessions : o # s => job[o].cmd # "build"
    BY <1>1 DEF IInv, StampsAreNew, Idle
  <1>5. Final(checkpoint) /\ job[s].inputs.checkpoint = checkpoint
    BY DEF Binding, IInv, RecordsAreFinal
  <1>6. \A i : i = job[s].inputs => Held(i)
    BY DEF Held, Binding
  <1> QED
    BY <1>1, <1>3, <1>4, <1>5, <1>6

LEMMA StartBuildKeeps ==
    ASSUME IInv, CountersOK', NEW s \in Sessions, StartBuild(s)
    PROVE  IInv'
  <1> DEFINE j == [cmd |-> "build", step |-> 1, at |-> Stamp, inputs |-> Inputs]
  <1>1. /\ Free(s, "build") /\ Bound /\ ~d1.dir /\ Run(s, j) /\ UNCHANGED <<evidence, archive>>
        /\ d1' = [NoBuild EXCEPT !.dir = TRUE]
    BY DEF StartBuild, evidence
  <1>2. /\ Inputs \in InputSets /\ SoundInputs(Inputs)
        /\ Final(checkpoint) /\ Inputs.checkpoint = checkpoint
    BY <1>1, BoundFacts
  <1>3. j \in Builds
    BY <1>2, StampIsNobodys DEF Builds
  <1>4. /\ j \in Jobs /\ j.cmd = "build" /\ j.step = 1 /\ j.at = Stamp /\ j.inputs = Inputs
        /\ Inputs.checksums = checksums
    BY <1>3 DEF Jobs, Inputs
  <1> HIDE DEF j
  <1>5. Turns(s, j)
    BY <1>1, <1>4 DEF Turns, Run, Free
  <1>6. job'[s] = j /\ \A o \in Sessions \ {s} : job'[o] = job[o]
    BY <1>5, TurnsOne
  <1>7. /\ d1'.dir = TRUE /\ d1'.at = 0 /\ d1'.portable = FALSE /\ d1'.rec = Unmade
        /\ D1OK'
    BY <1>1 DEF NoBuild, D1OK, Unmade, Records, Statuses
  <1>8. ArchiveOK' /\ PackageIsOneBuild'
    BY <1>1 DEF IInv, TypesOK, ArchiveOK, PackageIsOneBuild
  <1>9. \A i \in InputSets : Held(i)' => Held(i) \/ (i = Inputs /\ SoundInputs(i))
    BY <1>2, <1>4, <1>6, <1>7 DEF Held, Binding
  <1>10. \A o \in Sessions : job[o].cmd # "build" /\ job[o].cmd # "package"
    BY <1>1 DEF Free, IInv, BuildsAreOwned, PackagesFollow, PackageFollows
  <1>11. BuildsAreOwned'
    BY <1>4, <1>6, <1>7, <1>10, StampIsNew DEF BuildsAreOwned
  <1>12. PackagesFollow'
    BY <1>4, <1>6, <1>10 DEF PackagesFollow
  <1> QED
    BY <1>1, <1>2, <1>4, <1>5, <1>7, <1>8, <1>9, <1>11, <1>12, BindingStep

\* The database is given up, and the build with it.
LEMMA DropBuildKeeps ==
    ASSUME IInv, CountersOK', NEW s \in Sessions, job[s].cmd = "build", Done(s),
           d1' = NoBuild, UNCHANGED <<evidence, archive>>
    PROVE  IInv'
  <1>1. Idle \in Jobs /\ Idle.cmd = "idle" /\ ~Binding(Idle)
    BY DEF Jobs, Idle, Binding
  <1>2. Turns(s, Idle)
    BY DEF Turns, Done
  <1>3. job'[s] = Idle /\ \A o \in Sessions \ {s} : job'[o] = job[o]
    BY <1>2, TurnsOne
  <1>4. d1'.dir = FALSE /\ d1'.at = 0 /\ d1'.portable = FALSE /\ D1OK'
    BY DEF NoBuild, D1OK, Unmade, Records, Statuses
  <1>5. ArchiveOK' /\ PackageIsOneBuild'
    BY DEF IInv, TypesOK, ArchiveOK, PackageIsOneBuild
  <1>6. \A i \in InputSets : Held(i)' => Held(i)
    BY <1>1, <1>3, <1>4 DEF Held, Binding
  <1>7. \A o \in Sessions : job'[o].cmd # "build" /\ job'[o].cmd # "package"
    BY <1>1, <1>3, BuildsAlone
  <1>8. BuildsAreOwned' /\ PackagesFollow'
    BY <1>4, <1>7 DEF BuildsAreOwned, PackagesFollow
  <1> QED
    BY <1>1, <1>2, <1>4, <1>5, <1>6, <1>8, BindingStep

LEMMA WriteBuildKeeps ==
    ASSUME IInv, CountersOK', NEW s \in Sessions, WriteBuild(s)
    PROVE  IInv'
  <1> DEFINE w == job[s]
             j == [w EXCEPT !.step = @ + 1]
  <1>1. w.cmd = "build" /\ w.step = 1 /\ UNCHANGED <<evidence, archive>>
    BY DEF WriteBuild, At, evidence
  <1>2. CASE d1' = NoBuild /\ Done(s)
    BY <1>1, <1>2, DropBuildKeeps
  <1>3. CASE /\ d1' = [d1 EXCEPT !.at = w.at, !.inputs = w.inputs, !.rec = checkpoint]
             /\ Advance(s)
    <2>1. /\ w \in Builds /\ w # Idle
          /\ \A o \in Sessions : job[o].cmd # "package" /\ (o # s => job[o].cmd # "build")
          /\ Final(checkpoint) /\ w.inputs.checkpoint = checkpoint
          /\ \A i : i = w.inputs => Held(i)
      BY <1>1, BuildsAlone
    <2>2. /\ j \in Builds /\ j.cmd = "build" /\ j.at = w.at /\ j.inputs = w.inputs
          /\ w.at \in Digest /\ w.inputs \in InputSets
      BY <1>1, <2>1 DEF Builds
    <2>3. job' = [job EXCEPT ![s] = j] /\ j \in Jobs
      BY <1>3, <2>2 DEF Advance, Jobs
    <2> HIDE DEF j
    <2>4. Turns(s, j)
      BY <1>1, <2>1, <2>2, <2>3 DEF Turns, Pending
    <2>5. job'[s] = j /\ \A o \in Sessions \ {s} : job'[o] = job[o]
      BY <2>4, TurnsOne
    <2>6. d1.dir = TRUE /\ d1.portable = FALSE /\ w.at # w.inputs.checksums.d1
      BY <1>1 DEF IInv, BuildsAreOwned, TypesOK, D1OK
    <2>7. d1' = [dir |-> d1.dir, at |-> w.at, portable |-> d1.portable, inputs |-> w.inputs,
                 rec |-> checkpoint]
      <3> DEFINE i == w.inputs
                 n == w.at
      <3>1. d1 = [dir |-> d1.dir, at |-> d1.at, portable |-> d1.portable,
                  inputs |-> d1.inputs, rec |-> d1.rec]
        BY DEF IInv, TypesOK, D1OK
      <3>2. d1' = [d1 EXCEPT !.at = n, !.inputs = i, !.rec = checkpoint]
        BY <1>3
      <3> HIDE DEF i, n
      <3>3. d1' = [dir |-> d1.dir, at |-> n, portable |-> d1.portable, inputs |-> i,
                   rec |-> checkpoint]
        BY <3>1, <3>2
      <3> QED
        BY <3>3 DEF i, n
    <2>8. /\ d1'.dir = TRUE /\ d1'.at = w.at /\ d1'.portable = FALSE /\ d1'.inputs = w.inputs
          /\ d1'.rec = checkpoint
      BY <2>6, <2>7
    <2>9. D1OK'
      BY <2>2, <2>7, <2>8 DEF D1OK, Digest, IInv, TypesOK, FilesOK
    <2>10. ArchiveOK' /\ PackageIsOneBuild'
      BY <1>1 DEF IInv, TypesOK, ArchiveOK, PackageIsOneBuild
    <2>11. \A i \in InputSets : Held(i)' => Held(i)
      BY <2>1, <2>2, <2>5, <2>8 DEF Held, Binding
    <2>12. BuildsAreOwned'
      BY <2>1, <2>2, <2>5, <2>6, <2>8 DEF BuildsAreOwned, Digest
    <2>13. PackagesFollow'
      BY <2>1, <2>2, <2>5 DEF PackagesFollow
    <2> QED
      BY <1>1, <2>1, <2>2, <2>3, <2>4, <2>8, <2>9, <2>10, <2>11, <2>12, <2>13, BindingStep
  <1> QED
    BY <1>2, <1>3 DEF WriteBuild

LEMMA FinishBuildKeeps ==
    ASSUME IInv, CountersOK', NEW s \in Sessions, FinishBuild(s)
    PROVE  IInv'
  <1> DEFINE w == job[s]
  <1>1. w.cmd = "build" /\ w.step = 2 /\ Done(s) /\ UNCHANGED <<evidence, archive>>
    BY DEF FinishBuild, At, evidence
  <1>2. CASE d1' = NoBuild
    BY <1>1, <1>2, DropBuildKeeps
  <1>3. CASE d1' = [d1 EXCEPT !.portable = TRUE]
    <2>1. Idle \in Jobs /\ Idle.cmd = "idle" /\ ~Binding(Idle)
      BY DEF Jobs, Idle, Binding
    <2>2. Turns(s, Idle)
      BY <1>1 DEF Turns, Done
    <2>3. job'[s] = Idle /\ \A o \in Sessions \ {s} : job'[o] = job[o]
      BY <2>2, TurnsOne
    <2>4. \A o \in Sessions : job'[o].cmd # "build" /\ job'[o].cmd # "package"
      BY <1>1, <2>1, <2>3, BuildsAlone
    <2>5. d1.dir = TRUE /\ d1.at # 0
      BY <1>1 DEF IInv, BuildsAreOwned, TypesOK, D1OK
    <2>6. d1' = [dir |-> d1.dir, at |-> d1.at, portable |-> TRUE, inputs |-> d1.inputs,
                 rec |-> d1.rec]
      BY <1>3 DEF IInv, TypesOK, D1OK
    <2>7. /\ d1'.dir = d1.dir /\ d1'.at = d1.at /\ d1'.portable = TRUE
          /\ d1'.inputs = d1.inputs /\ d1'.rec = d1.rec
      BY <2>6
    <2>8. D1OK'
      BY <2>6, <2>7 DEF D1OK, IInv, TypesOK
    <2>9. ArchiveOK' /\ PackageIsOneBuild'
      BY <1>1 DEF IInv, TypesOK, ArchiveOK, PackageIsOneBuild
    <2>10. \A i \in InputSets : Held(i)' => Held(i)
      BY <2>1, <2>3, <2>7 DEF Held, Binding
    <2>11. BuildsAreOwned' /\ PackagesFollow'
      BY <2>4, <2>5, <2>7 DEF BuildsAreOwned, PackagesFollow, IInv
    <2>12. d1'.at # 0 => Final(d1'.rec) /\ checkpoint = d1'.rec
      BY <2>7 DEF IInv, RecordsAreFinal
    <2> QED
      BY <1>1, <2>1, <2>2, <2>8, <2>9, <2>10, <2>11, <2>12, BindingStep
  <1> QED
    BY <1>2, <1>3 DEF FinishBuild

\* While a package is made there is no other, and nobody builds.
LEMMA PackagesAlone ==
    ASSUME IInv, NEW s \in Sessions, job[s].cmd = "package"
    PROVE  /\ job[s] \in Packages /\ job[s] # Idle /\ PackageFollows(job[s])
           /\ \A o \in Sessions : job[o].cmd # "build" /\ (o # s => job[o].cmd # "package")
           /\ Final(checkpoint) /\ job[s].inputs.checkpoint = checkpoint
           /\ \A i : i = job[s].inputs => Held(i)
  <1>1. job[s] \in Packages /\ job[s] # Idle
    BY JobShapes DEF IInv, TypesOK, JobsOK, Idle
  <1>2. PackageFollows(job[s])
    BY DEF IInv, PackagesFollow
  <1>3. \A o \in Sessions : job[o].cmd # "build"
    BY <1>2 DEF PackageFollows, IInv, BuildsAreOwned
  <1>4. \A o \in Sessions : o # s => job[o].cmd # "package"
    BY <1>1 DEF IInv, StampsAreNew, Idle
  <1>5. Final(checkpoint) /\ job[s].inputs.checkpoint = checkpoint
    BY DEF Binding, IInv, RecordsAreFinal
  <1>6. \A i : i = job[s].inputs => Held(i)
    BY DEF Held, Binding
  <1> QED
    BY <1>1, <1>2, <1>3, <1>4, <1>5, <1>6

\* A step of the command that packages.
LEMMA PackageStep ==
    ASSUME IInv, CountersOK', NEW s \in Sessions, NEW j \in Jobs, Turns(s, j),
           UNCHANGED <<evidence, d1>>, ArchiveOK',
           \A o \in Sessions \ {s} : job[o].cmd # "package",
           \/ j = Idle
           \/ /\ j.cmd = "package"
              /\ Final(checkpoint) /\ j.inputs.checkpoint = checkpoint
              /\ Held(j.inputs) \/ (j.inputs = Inputs /\ SoundInputs(j.inputs))
              /\ PackageFollows(j)',
           PackageIsOneBuild'
    PROVE  IInv'
  <1>1. job'[s] = j /\ \A o \in Sessions \ {s} : job'[o] = job[o]
    BY TurnsOne
  <1>2. j.cmd \in {"idle", "package"} /\ (j.cmd = "idle" => j = Idle)
    BY DEF Idle
  <1>3. ASSUME NEW i \in InputSets, Held(i)'
        PROVE  Held(i) \/ (i = Inputs /\ SoundInputs(i))
    <2>1. CASE \E o \in Sessions \ {s} : Binding(job[o]) /\ i = job[o].inputs
      BY <2>1 DEF Held
    <2>2. CASE j.cmd = "package" /\ i = j.inputs
      BY <2>2 DEF Idle
    <2>3. CASE d1.at # 0 /\ i = d1.inputs
      BY <2>3 DEF Held
    <2> QED
      BY <1>1, <1>2, <1>3, <2>1, <2>2, <2>3 DEF Held, Binding
  <1>4. D1OK'
    BY DEF D1OK, IInv, TypesOK
  <1>5. BuildsAreOwned'
    BY <1>2, BuildsKept
  <1>6. PackagesFollow'
    <2>1. ASSUME NEW o \in Sessions, job'[o].cmd = "package"
          PROVE  PackageFollows(job[o])'
      <3>1. o = s /\ j.cmd = "package"
        BY <1>1, <2>1
      <3>2. PackageFollows(j)' /\ job'[o] = j
        BY <1>1, <1>2, <3>1 DEF Idle
      <3> QED
        BY <3>2 DEF PackageFollows
    <2> QED
      BY <2>1 DEF PackagesFollow
  <1>7. d1'.at # 0 => Final(d1'.rec) /\ checkpoint = d1'.rec
    BY DEF IInv, RecordsAreFinal
  <1>8. Binding(j) => Final(checkpoint) /\ j.inputs.checkpoint = checkpoint
    BY <1>2 DEF Binding, Idle
  <1> QED
    BY <1>2, <1>3, <1>4, <1>5, <1>6, <1>7, <1>8, BindingStep

LEMMA StartPackageKeeps ==
    ASSUME IInv, CountersOK', NEW s \in Sessions, StartPackage(s)
    PROVE  IInv'
  <1> DEFINE j == [cmd |-> "package", step |-> 1, at |-> Stamp, inputs |-> Inputs,
                   build |-> d1.at]
  <1>1. /\ Free(s, "package") /\ Bound /\ BuildIsBound /\ d1.portable /\ Run(s, j)
        /\ UNCHANGED <<evidence, d1, archive>>
    BY DEF StartPackage, evidence, files
  <1>2. /\ Inputs \in InputSets /\ SoundInputs(Inputs) /\ Inputs.sidecar = Inputs.report
        /\ Final(checkpoint) /\ Inputs.checkpoint = checkpoint
    BY <1>1, BoundFacts
  <1>3. j \in Packages
    BY <1>2, StampIsNobodys DEF Packages, IInv, TypesOK, D1OK
  <1>4. /\ j \in Jobs /\ j.cmd = "package" /\ j.step = 1 /\ j.at = Stamp /\ j.inputs = Inputs
        /\ j.build = d1.at
    BY <1>3 DEF Jobs
  <1>5. PICK q \in Jobs : q = j
    BY <1>4
  <1>6. Turns(s, q)
    BY <1>1, <1>4, <1>5 DEF Turns, Run, Free
  <1>7. ArchiveOK' /\ PackageIsOneBuild'
    BY <1>1 DEF IInv, TypesOK, ArchiveOK, PackageIsOneBuild
  <1>8. Inputs.checksums.d1 # d1.at
    BY <1>1 DEF BuildIsBound, IInv, BuildsAreOwned
  <1>9. sidecar = Inputs.sidecar
    BY DEF Inputs
  <1>10. PackageFollows(q)'
    BY <1>1, <1>2, <1>4, <1>8, <1>9, <1>5 DEF PackageFollows, evidence
  <1> QED
    BY <1>1, <1>2, <1>4, <1>6, <1>7, <1>10, <1>5, PackageStep DEF Free

\* The command that packages goes on.
LEMMA PackageGoesOn ==
    ASSUME IInv, CountersOK', NEW s \in Sessions, job[s].cmd = "package", job[s].step \in {1, 2},
           Advance(s), UNCHANGED <<evidence, d1>>, ArchiveOK', ~archive'.sidecar,
           Inputs = job[s].inputs => archive'.head = HeadOf(job[s].inputs, job[s].build),
           job[s].step = 2 /\ Inputs = job[s].inputs => archive'.tail = TailOf(job[s].inputs)
    PROVE  IInv'
  <1> DEFINE w == job[s]
             j == [w EXCEPT !.step = @ + 1]
  <1>1. /\ w \in Packages /\ w # Idle /\ PackageFollows(w)
        /\ \A o \in Sessions : o # s => job[o].cmd # "package"
        /\ Final(checkpoint) /\ w.inputs.checkpoint = checkpoint
        /\ \A i : i = w.inputs => Held(i)
    BY PackagesAlone
  <1>2. /\ j \in Packages /\ j.cmd = "package" /\ j.at = w.at /\ j.inputs = w.inputs
        /\ j.build = w.build /\ j.step = w.step + 1
    BY <1>1 DEF Packages
  <1>3. job' = [job EXCEPT ![s] = j] /\ j \in Jobs
    BY <1>2 DEF Advance, Jobs
  <1>4. Inputs' = Inputs
    BY DEF Inputs, evidence
  <1>5. PICK q \in Jobs : q = j
    BY <1>3
  <1> HIDE DEF j
  <1>6. Turns(s, q)
    BY <1>1, <1>2, <1>3, <1>5 DEF Turns, Pending
  <1>7. PackageFollows(q)'
    <2>1. /\ d1.portable /\ d1.at = w.build /\ w.inputs.checksums.d1 # d1.at
          /\ sidecar = w.inputs.sidecar \/ report.at # w.inputs.report
          /\ w.inputs.sidecar = w.inputs.report
      BY <1>1 DEF PackageFollows
    <2>2. j.step = 3 => w.step = 2
      BY <1>2
    <2> QED
      BY <1>2, <1>4, <1>5, <2>1, <2>2 DEF PackageFollows, evidence
  <1>8. PackageIsOneBuild'
    BY DEF PackageIsOneBuild
  <1> QED
    BY <1>1, <1>2, <1>3, <1>5, <1>6, <1>7, <1>8, PackageStep

LEMMA TarHeadKeeps ==
    ASSUME IInv, CountersOK', NEW s \in Sessions, TarHead(s)
    PROVE  IInv'
  <1>1. /\ job[s].cmd = "package" /\ job[s].step = 1 /\ Advance(s)
        /\ UNCHANGED <<evidence, d1>>
        /\ archive' = [NoArchive EXCEPT !.made = TRUE, !.head = HeadFiles]
    BY DEF TarHead, At, evidence
  <1>2. archive' = [made |-> TRUE, sidecar |-> FALSE, head |-> HeadFiles, tail |-> <<>>,
                    inputs |-> NoInputs, build |-> 0]
    <2> DEFINE h == HeadFiles
               e == <<>>
    <2>1. NoArchive = [made |-> FALSE, sidecar |-> FALSE, head |-> e, tail |-> e,
                       inputs |-> NoInputs, build |-> 0]
      BY DEF NoArchive
    <2>2. archive' = [NoArchive EXCEPT !.made = TRUE, !.head = h]
      BY <1>1
    <2> HIDE DEF h, e
    <2>3. archive' = [made |-> TRUE, sidecar |-> FALSE, head |-> h, tail |-> e,
                      inputs |-> NoInputs, build |-> 0]
      BY <2>1, <2>2
    <2> QED
      BY <2>3 DEF h, e
  <1>3. archive'.sidecar = FALSE /\ archive'.head = HeadFiles
    BY <1>2
  <1>4. ArchiveOK'
    BY <1>2 DEF ArchiveOK
  <1>5. Inputs = job[s].inputs => archive'.head = HeadOf(job[s].inputs, job[s].build)
    <2>1. d1.at = job[s].build
      BY <1>1 DEF IInv, PackagesFollow, PackageFollows
    <2>2. Inputs.checksums = checksums
      BY DEF Inputs
    <2> QED
      BY <1>3, <2>1, <2>2 DEF HeadFiles, HeadOf
  <1> QED
    BY <1>1, <1>3, <1>4, <1>5, PackageGoesOn

LEMMA TarTailKeeps ==
    ASSUME IInv, CountersOK', NEW s \in Sessions, TarTail(s)
    PROVE  IInv'
  <1>1. /\ job[s].cmd = "package" /\ job[s].step = 2 /\ Advance(s)
        /\ UNCHANGED <<evidence, d1>>
        /\ archive' = [archive EXCEPT !.tail = TailFiles]
    BY DEF TarTail, At, evidence
  <1>2. PackageFollows(job[s])
    BY <1>1 DEF IInv, PackagesFollow
  <1>3. archive' = [made |-> archive.made, sidecar |-> archive.sidecar, head |-> archive.head,
                    tail |-> TailFiles, inputs |-> archive.inputs, build |-> archive.build]
    <2> DEFINE t == TailFiles
    <2> HIDE DEF t
    <2>1. archive' = [archive EXCEPT !.tail = t]
      BY <1>1 DEF t
    <2>2. archive' = [made |-> archive.made, sidecar |-> archive.sidecar,
                      head |-> archive.head, tail |-> t, inputs |-> archive.inputs,
                      build |-> archive.build]
      BY <2>1 DEF IInv, TypesOK, ArchiveOK
    <2> QED
      BY <2>2 DEF t
  <1>4. archive'.sidecar = archive.sidecar /\ archive'.head = archive.head
        /\ archive'.tail = TailFiles
    BY <1>3
  <1>5. ArchiveOK'
    <2>1. archive'.sidecar \in BOOLEAN
      BY <1>4 DEF IInv, TypesOK, ArchiveOK
    <2> QED
      BY <1>3, <2>1 DEF ArchiveOK
  <1>6. ~archive'.sidecar
    BY <1>1, <1>2, <1>4 DEF PackageFollows
  <1>7. Inputs = job[s].inputs => archive'.head = HeadOf(job[s].inputs, job[s].build)
    BY <1>1, <1>2, <1>4 DEF PackageFollows
  <1>8. Inputs = job[s].inputs => archive'.tail = TailOf(job[s].inputs)
    BY <1>4 DEF TailFiles, TailOf, Inputs
  <1> QED
    BY <1>1, <1>5, <1>6, <1>7, <1>8, PackageGoesOn

LEMMA FinishPackageKeeps ==
    ASSUME IInv, CountersOK', NEW s \in Sessions, FinishPackage(s)
    PROVE  IInv'
  <1> DEFINE w == job[s]
  <1>1. w.cmd = "package" /\ w.step = 3 /\ Done(s) /\ UNCHANGED <<evidence, d1>>
    BY DEF FinishPackage, At, evidence
  <1>2. /\ PackageFollows(w)
        /\ \A o \in Sessions : o # s => job[o].cmd # "package"
    BY <1>1, PackagesAlone
  <1>3. Idle \in Jobs /\ Turns(s, Idle)
    BY <1>1 DEF Jobs, Turns, Done
  <1>4. ArchiveOK' /\ PackageIsOneBuild'
    <2>1. CASE archive' = NoArchive
      <3>1. archive'.sidecar = FALSE
        BY <2>1 DEF NoArchive
      <3>2. ArchiveOK'
        BY <2>1, <3>1 DEF NoArchive, ArchiveOK
      <3> QED
        BY <3>1, <3>2 DEF PackageIsOneBuild
    <2>2. CASE /\ Rebound(w.inputs)
               /\ archive' = [archive EXCEPT !.sidecar = TRUE, !.inputs = w.inputs,
                                             !.build = w.build]
      <3> DEFINE i == w.inputs
                 b == w.build
      <3>1. archive.head = HeadOf(i, b) /\ archive.tail = TailOf(i)
        BY <1>1, <1>2, <2>2 DEF PackageFollows, Rebound
      <3>2. archive = [made |-> archive.made, sidecar |-> archive.sidecar,
                       head |-> archive.head, tail |-> archive.tail,
                       inputs |-> archive.inputs, build |-> archive.build]
        BY DEF IInv, TypesOK, ArchiveOK
      <3>3. archive' = [archive EXCEPT !.sidecar = TRUE, !.inputs = i, !.build = b]
        BY <2>2
      <3> HIDE DEF i, b
      <3>4. archive' = [made |-> archive.made, sidecar |-> TRUE, head |-> archive.head,
                        tail |-> archive.tail, inputs |-> i, build |-> b]
        BY <3>2, <3>3
      <3>5. /\ archive'.sidecar = TRUE /\ archive'.head = archive.head
            /\ archive'.tail = archive.tail /\ archive'.inputs = i /\ archive'.build = b
        BY <3>4
      <3>6. ArchiveOK'
        BY <3>4, <3>5 DEF ArchiveOK
      <3> QED
        BY <3>1, <3>5, <3>6 DEF PackageIsOneBuild, HeadOf, TailOf
    <2> QED
      BY <2>1, <2>2 DEF FinishPackage
  <1> QED
    BY <1>1, <1>2, <1>3, <1>4, PackageStep

-----------------------------------------------------------------------------
(* The readers, the operator's hand, and the commands together.              *)

LEMMA ReadKeeps ==
    ASSUME IInv, Read
    PROVE  IInv'
  <1>1. UNCHANGED <<files, job, faults, fresh>> /\ accepted' \in SUBSET Readers
    BY DEF Read, Plan, Load, Readers, IInv, TypesOK, CountersOK
  <1>2. TypesOK'
    BY <1>1 DEF files, IInv, TypesOK, FilesOK, D1OK, ArchiveOK, JobsOK, CountersOK
  <1>3. \A i : Held(i)' <=> Held(i)
    BY <1>1 DEF files, Held
  <1>4. Inputs' = Inputs
    BY <1>1 DEF files, Inputs
  <1>5. StampsAreNew' /\ InputsAreSound'
    BY <1>1, <1>3, <1>4
       DEF files, IInv, StampsAreNew, Unwritten, InputsAreSound, SoundInputs
  <1>6. RecordsAreFinal' /\ BuildsAreOwned'
    BY <1>1 DEF files, IInv, RecordsAreFinal, BuildsAreOwned
  <1>7. PackagesFollow' /\ PackageIsOneBuild'
    BY <1>1, <1>4 DEF files, IInv, PackagesFollow, PackageFollows, PackageIsOneBuild
  <1> QED
    BY <1>2, <1>5, <1>6, <1>7 DEF IInv

\* Nothing runs: what is held is what the database holds.
LEMMA QuietFacts ==
    ASSUME IInv, Quiet, job' = job
    PROVE  /\ JobsOK' /\ StampsAreNew'
           /\ \A s \in Sessions : job'[s].cmd = "idle"
           /\ \A i : Held(i)' => d1'.at # 0 /\ i = d1'.inputs
  <1>1. \A s \in Sessions : job'[s] = Idle /\ Idle.cmd = "idle"
    BY DEF Quiet, Idle
  <1>2. Pending(Idle) = {} /\ ~Binding(Idle)
    BY DEF Pending, Idle, Binding
  <1>3. JobsOK'
    BY DEF IInv, TypesOK, JobsOK
  <1>4. StampsAreNew'
    BY <1>1, <1>2 DEF StampsAreNew, Pending
  <1>5. \A i : Held(i)' => d1'.at # 0 /\ i = d1'.inputs
    BY <1>1, <1>2 DEF Held, Binding
  <1> QED
    BY <1>1, <1>3, <1>4, <1>5

LEMMA TidyKeeps ==
    ASSUME IInv, Tidy
    PROVE  IInv'
  <1>1. /\ Quiet /\ job' = job /\ litter' \subseteq Litters
        /\ d1' = d1 \/ d1' = NoBuild
        /\ archive' = archive \/ archive' = NoArchive
        /\ UNCHANGED <<manifest, stability, checkpoint, media, progress, supplement, checksums,
                       report, sidecar, accepted, faults, fresh>>
    BY DEF Tidy, IInv, TypesOK, FilesOK, Litters
  <1>2. /\ JobsOK' /\ StampsAreNew'
        /\ \A s \in Sessions : job'[s].cmd = "idle"
        /\ \A i : Held(i)' => d1'.at # 0 /\ i = d1'.inputs
    BY <1>1, QuietFacts
  <1>3. FilesOK' /\ CountersOK'
    BY <1>1 DEF IInv, TypesOK, FilesOK, CountersOK
  <1>4. D1OK' /\ (d1'.at # 0 => d1' = d1)
    <2>1. CASE d1' = d1
      BY <2>1 DEF D1OK, IInv, TypesOK
    <2>2. CASE d1' = NoBuild
      BY <2>2 DEF D1OK, NoBuild, Unmade, Records, Statuses
    <2> QED
      BY <1>1, <2>1, <2>2
  <1>5. ArchiveOK' /\ PackageIsOneBuild'
    <2>1. CASE archive' = archive
      BY <2>1 DEF IInv, TypesOK, ArchiveOK, PackageIsOneBuild
    <2>2. CASE archive' = NoArchive
      BY <2>2 DEF NoArchive, ArchiveOK, PackageIsOneBuild
    <2> QED
      BY <1>1, <2>1, <2>2
  <1>6. InputsAreSound'
    BY <1>1, <1>2, <1>4 DEF InputsAreSound, SoundInputs, IInv, Held
  <1>7. RecordsAreFinal'
    BY <1>1, <1>2, <1>4 DEF RecordsAreFinal, IInv, Binding
  <1>8. d1'.portable => d1'.at # 0
    BY <1>1 DEF NoBuild, IInv, BuildsAreOwned
  <1>9. BuildsAreOwned' /\ PackagesFollow'
    BY <1>2, <1>4, <1>8 DEF BuildsAreOwned, PackagesFollow, IInv
  <1> QED
    BY <1>2, <1>3, <1>4, <1>5, <1>6, <1>7, <1>9 DEF IInv, TypesOK

LEMMA EmptyDirectory ==
    /\ NoListing \in Listings /\ Unmade \in Records
    /\ \A t \in Digest : /\ Emptied(t).manifest \in Manifests
                         /\ Emptied(t).stability \in [at : Nat, fin : Nat, stable : BOOLEAN]
                         /\ Emptied(t).media \in [at : Nat, rec : Records]
                         /\ Emptied(t).supplement
                               \in [at : Nat, source : Nat, complete : BOOLEAN]
    /\ NoReport.at = 0 /\ NoReport.verified = FALSE /\ NoReport.checked = FALSE
    /\ NoReport.saw = Unmade
    /\ NoReport.verified \in BOOLEAN /\ NoReport.checked \in BOOLEAN
    /\ NoBuild = [dir |-> FALSE, at |-> 0, portable |-> FALSE, inputs |-> NoInputs,
                  rec |-> Unmade]
    /\ NoBuild.dir = FALSE /\ NoBuild.at = 0 /\ NoBuild.portable = FALSE /\ NoBuild.rec = Unmade
    /\ NoArchive.sidecar = FALSE
  <1>1. Unmade \in Records
    BY DEF Unmade, Records, Statuses
  <1>2. NoListing \in Listings
    BY <1>1 DEF NoListing, Listings
  <1>3. ASSUME NEW t \in Digest
        PROVE  /\ Emptied(t).manifest \in Manifests
               /\ Emptied(t).stability \in [at : Nat, fin : Nat, stable : BOOLEAN]
               /\ Emptied(t).media \in [at : Nat, rec : Records]
               /\ Emptied(t).supplement \in [at : Nat, source : Nat, complete : BOOLEAN]
    BY <1>1 DEF Emptied, Captured, Manifests, Digest
  <1> QED
    BY <1>1, <1>2, <1>3 DEF NoReport, NoBuild, NoArchive

\* An empty directory and nobody at work.
LEMMA EmptyIsSound ==
    ASSUME CountersOK', FilesOK', JobsOK', StampsAreNew',
           \A s \in Sessions : job'[s].cmd = "idle",
           d1' = NoBuild, archive' = NoArchive, report' = NoReport
    PROVE  IInv'
  <1>1. D1OK'
    BY EmptyDirectory DEF D1OK
  <1>2. ArchiveOK' /\ PackageIsOneBuild'
    BY DEF ArchiveOK, NoArchive, PackageIsOneBuild
  <1>3. InputsAreSound'
    BY EmptyDirectory DEF InputsAreSound, Held, Binding
  <1>4. RecordsAreFinal' /\ BuildsAreOwned' /\ PackagesFollow'
    BY EmptyDirectory DEF RecordsAreFinal, BuildsAreOwned, PackagesFollow, Binding
  <1> QED
    BY <1>1, <1>2, <1>3, <1>4 DEF IInv, TypesOK

LEMMA FreshKeeps ==
    ASSUME IInv, Fresh
    PROVE  IInv'
  <1>1. Quiet /\ UNCHANGED <<job, accepted, faults>>
    BY DEF Fresh
  <1>2. JobsOK' /\ StampsAreNew' /\ \A s \in Sessions : job'[s].cmd = "idle"
    BY <1>1, QuietFacts
  <1>3. CountersOK'
    BY CollectionsEvidenceAssumption DEF Fresh, IInv, TypesOK, CountersOK
  <1>4. FilesOK'
    <2> DEFINE e == Emptied(Stamp)
    <2>1. /\ e.manifest \in Manifests
          /\ e.stability \in [at : Nat, fin : Nat, stable : BOOLEAN]
          /\ e.media \in [at : Nat, rec : Records]
          /\ e.supplement \in [at : Nat, source : Nat, complete : BOOLEAN]
      BY EmptyDirectory, StampIsNobodys
    <2>2. /\ manifest' = e.manifest /\ stability' = e.stability /\ media' = e.media
          /\ supplement' = e.supplement /\ checkpoint' = Unmade /\ progress' = 0
          /\ checksums' = NoListing /\ report' = NoReport /\ sidecar' = 0 /\ litter' = {}
      BY DEF Fresh
    <2> HIDE DEF e
    <2>3. /\ report'.at \in Nat /\ report'.verified \in BOOLEAN /\ report'.checked \in BOOLEAN
          /\ report'.saw \in Records
      BY <2>2, EmptyDirectory
    <2>4. checkpoint' \in Records /\ checksums' \in Listings
      BY <2>2, EmptyDirectory
    <2> QED
      BY <2>1, <2>2, <2>3, <2>4 DEF FilesOK
  <1> QED
    BY <1>2, <1>3, <1>4, EmptyIsSound DEF Fresh

LEMMA FaultCounts ==
    ASSUME IInv, Fault
    PROVE  CountersOK'
  BY CollectionsEvidenceAssumption DEF Fault, IInv, TypesOK, CountersOK

LEMMA StartsKeeps ==
    ASSUME IInv, CountersOK', NEW s \in Sessions, NEW c, NEW retry, Starts(s, c, retry)
    PROVE  IInv'
  BY StartCompareKeeps, StartMediaKeeps, StartEnrichKeeps, StartVerifyKeeps, StartBuildKeeps,
     StartPackageKeeps DEF Starts

LEMMA WorkKeeps ==
    ASSUME IInv, NEW s \in Sessions, Work(s)
    PROVE  IInv'
  <1>1. CountersOK'
    BY DEF Work, IInv, TypesOK, CountersOK
  <1>2. CASE WriteStability(s, TRUE)
    BY <1>1, <1>2, WriteStabilityKeeps
  <1>3. CASE \E r \in Refs, o \in {"stored", "excluded"} : Download(s, r, o)
    BY <1>1, <1>3, DownloadKeeps
  <1>4. CASE WriteSupplement(s, TRUE)
    BY <1>1, <1>4, WriteSupplementKeeps
  <1>5. CASE WriteConsistency(s) \/ WriteMedia(s) \/ WriteMediaStatus(s)
    BY <1>1, <1>5, WriteConsistencyKeeps, WriteMediaKeeps, WriteMediaStatusKeeps
  <1>6. CASE CheckSnapshot(s) \/ WriteChecksums(s) \/ WriteReport(s) \/ WriteSidecar(s)
    BY <1>1, <1>6, CheckSnapshotKeeps, WriteChecksumsKeeps, WriteReportKeeps, WriteSidecarKeeps
  <1>7. CASE WriteBuild(s) \/ FinishBuild(s)
    BY <1>1, <1>7, WriteBuildKeeps, FinishBuildKeeps
  <1>8. CASE TarHead(s) \/ TarTail(s) \/ FinishPackage(s)
    BY <1>1, <1>8, TarHeadKeeps, TarTailKeeps, FinishPackageKeeps
  <1> QED
    BY <1>2, <1>3, <1>4, <1>5, <1>6, <1>7, <1>8 DEF Work, Continue

LEMMA DisturbKeeps ==
    ASSUME IInv, NEW s \in Sessions, Falter(s) \/ Repeat(s) \/ Kill(s)
    PROVE  IInv'
  <1>1. CountersOK'
    BY FaultCounts DEF Falter, Repeat, Kill
  <1>2. CASE Falter(s)
    BY <1>1, <1>2, WriteStabilityKeeps, WriteSupplementKeeps, DownloadKeeps DEF Falter
  <1>3. CASE Repeat(s)
    BY <1>1, <1>3, ResumeKeeps, StartsKeeps DEF Repeat
  <1>4. CASE Kill(s)
    BY <1>1, <1>4, KillKeeps
  <1> QED
    BY <1>2, <1>3, <1>4

LEMMA StutterKeeps ==
    ASSUME IInv, UNCHANGED vars
    PROVE  IInv'
  <1>1. TypesOK'
    BY DEF vars, files, IInv, TypesOK, FilesOK, D1OK, ArchiveOK, JobsOK, CountersOK
  <1>2. (\A i : Held(i)' <=> Held(i)) /\ Inputs' = Inputs
    BY DEF vars, files, Held, Inputs
  <1>3. StampsAreNew' /\ InputsAreSound'
    BY <1>2 DEF vars, files, IInv, StampsAreNew, Unwritten, InputsAreSound, SoundInputs
  <1>4. RecordsAreFinal' /\ BuildsAreOwned'
    BY DEF vars, files, IInv, RecordsAreFinal, BuildsAreOwned
  <1>5. PackagesFollow' /\ PackageIsOneBuild'
    BY <1>2 DEF vars, files, IInv, PackagesFollow, PackageFollows, PackageIsOneBuild
  <1> QED
    BY <1>1, <1>3, <1>4, <1>5 DEF IInv

LEMMA NextKeeps == IInv /\ [Next]_vars => IInv'
  <1> SUFFICES ASSUME IInv, [Next]_vars PROVE IInv'
    OBVIOUS
  <1>1. CASE Operate
    <2>1. CountersOK'
      BY <1>1 DEF Operate, IInv, TypesOK, CountersOK
    <2>2. PICK c \in Commands : Starts(Operator, c, TRUE)
      BY <1>1 DEF Operate
    <2>3. Operator \in Sessions
      BY DEF Sessions
    <2> QED
      BY <2>1, <2>2, <2>3, StartsKeeps
  <1>2. CASE Read
    BY <1>2, ReadKeeps
  <1>3. CASE SessionStep
    BY <1>3, WorkKeeps DEF SessionStep
  <1>4. CASE Disturb
    BY <1>4, DisturbKeeps DEF Disturb
  <1>5. CASE Tidy
    BY <1>5, TidyKeeps
  <1>6. CASE Fresh
    BY <1>6, FreshKeeps
  <1>7. CASE UNCHANGED vars
    BY <1>7, StutterKeeps
  <1> QED
    BY <1>1, <1>2, <1>3, <1>4, <1>5, <1>6, <1>7 DEF Next, Finished

LEMMA InitHolds == Init => IInv
  <1> SUFFICES ASSUME Init PROVE IInv
    OBVIOUS
  <1>1. FilesOK
    <2> DEFINE e == Emptied(1)
    <2>1. /\ e.manifest \in Manifests
          /\ e.stability \in [at : Nat, fin : Nat, stable : BOOLEAN]
          /\ e.media \in [at : Nat, rec : Records]
          /\ e.supplement \in [at : Nat, source : Nat, complete : BOOLEAN]
      BY EmptyDirectory DEF Digest
    <2> HIDE DEF e
    <2>2. /\ manifest = e.manifest /\ stability = e.stability /\ media = e.media
          /\ supplement = e.supplement /\ checkpoint = Unmade /\ progress = 0
          /\ checksums = NoListing /\ report = NoReport /\ sidecar = 0 /\ litter = {}
      BY DEF Init, e
    <2>3. /\ report.at \in Nat /\ report.verified \in BOOLEAN /\ report.checked \in BOOLEAN
          /\ report.saw \in Records
      BY <2>2, EmptyDirectory
    <2>4. checkpoint \in Records /\ checksums \in Listings
      BY <2>2, EmptyDirectory
    <2> QED
      BY <2>1, <2>2, <2>3, <2>4 DEF FilesOK
  <1>2. \A s \in Sessions : job[s] = Idle /\ job[s].cmd = "idle"
    BY DEF Init, Idle
  <1>3. JobsOK /\ CountersOK
    BY CollectionsEvidenceAssumption DEF Init, JobsOK, Jobs, CountersOK
  <1>4. StampsAreNew
    BY <1>2 DEF StampsAreNew, Pending
  <1>5. D1OK
    BY EmptyDirectory DEF Init, D1OK
  <1>6. ArchiveOK /\ PackageIsOneBuild
    BY DEF Init, ArchiveOK, NoArchive, PackageIsOneBuild
  <1>7. InputsAreSound
    BY <1>2, EmptyDirectory DEF Init, InputsAreSound, Held, Binding
  <1>8. RecordsAreFinal /\ BuildsAreOwned /\ PackagesFollow
    BY <1>2, EmptyDirectory
       DEF Init, RecordsAreFinal, BuildsAreOwned, PackagesFollow, Binding
  <1> QED
    BY <1>1, <1>3, <1>4, <1>5, <1>6, <1>7, <1>8 DEF IInv, TypesOK

-----------------------------------------------------------------------------
(* What follows.                                                             *)

\* The inductive invariant holds throughout, for any references, sessions, order of
\* commands and number of faults.
THEOREM Invariance == Spec => []IInv
  BY InitHolds, NextKeeps, PTL DEF Spec

\* A database that was built and is bound to what the directory says now holds the media
\* rows that the verification went through, its snapshot was found stable, and its Drops
\* are those of the same manifest (build-d1, bindCollectionsSnapshotInputs).
THEOREM BuildsAreVerified == Spec => []BuiltIsVerified
  <1>1. ASSUME IInv
        PROVE  BuiltIsVerified
    <2>1. TypeOK
      BY <1>1 DEF IInv, TypesOK, FilesOK, D1OK, CountersOK, TypeOK, Records, Manifests
    <2>2. ASSUME d1.portable, d1.inputs = Inputs
          PROVE  /\ report.saw = d1.rec
                 /\ stability.stable /\ stability.fin = manifest.fin
                 /\ supplement.source = manifest.at
      <3>1. d1.at # 0 /\ Inputs \in InputSets
        BY <1>1, <2>2 DEF IInv, TypesOK, D1OK, BuildsAreOwned
      <3>2. SoundInputs(Inputs)
        BY <1>1, <2>2, <3>1 DEF IInv, InputsAreSound, Held
      <3>3. report.verified /\ report.checked
        BY <3>2 DEF SoundInputs, Inputs
      <3>4. report.saw = d1.rec
        BY <1>1, <3>1, <3>3 DEF IInv, RecordsAreFinal
      <3> QED
        BY <3>2, <3>4 DEF SoundInputs, Inputs
    <2> QED
      BY <2>1, <2>2 DEF BuiltIsVerified
  <1> QED
    BY <1>1, Invariance, PTL

\* A package with its sidecar holds the files that one D1 build was bound to, whatever
\* ran while tar read them (package: the inputs are bound again after tar).
THEOREM PackagesHoldOneBuild == Spec => []PackageIsOneBuild
  BY Invariance, PTL DEF IInv

\* The plan and the loader accept only a database whose stored media are those that were
\* verified, with the complete supplement that it was built from: a step that adds to
\* "accepted" finds them so, and leaves them so.
THEOREM ReadersAcceptVerified == Spec => AcceptedIsVerified
  <1>1. ASSUME IInv, [Next]_vars
        PROVE  [AcceptsVerified]_vars
    <2> SUFFICES ASSUME Next, accepted' # accepted PROVE AcceptsVerified
      BY <1>1 DEF AcceptsVerified, vars
    <2>1. Read
      BY DEF Next, Operate, SessionStep, Work, Disturb, Falter, Repeat, Kill, Fault, Tidy, Fresh,
             Finished, vars
    <2>2. CASE PlanAccepts
      <3>1. /\ d1.at # 0 /\ supplement.complete /\ d1.inputs.supplement = supplement.at
            /\ report.verified /\ report.checked
        BY <2>2 DEF PlanAccepts, UnifiedD1PlanHolds, SnapshotIsValidated, MediaIsPublishable
      <3>2. d1.rec = report.saw
        BY <1>1, <3>1 DEF IInv, RecordsAreFinal
      <3> QED
        BY <3>1, <3>2 DEF AcceptsVerified
    <2>3. CASE LoadAccepts
      <3>1. /\ d1.at # 0 /\ d1.inputs = Inputs /\ supplement.complete
            /\ report.verified /\ report.checked
        BY <2>3 DEF LoadAccepts, Bound, BuildIsBound, ReportIsCurrent, MediaIsPublishable,
                    SupplementIsBound
      <3>2. d1.rec = report.saw
        BY <1>1, <3>1 DEF IInv, RecordsAreFinal
      <3>3. d1.inputs.supplement = supplement.at
        BY <3>1 DEF Inputs
      <3> QED
        BY <3>1, <3>2, <3>3 DEF AcceptsVerified
    <2> QED
      BY <2>1, <2>2, <2>3 DEF Read, Plan, Load
  <1> QED
    BY <1>1, Invariance, PTL DEF Spec, AcceptedIsVerified
===============================================================================
