------------------------- MODULE StagedRelease_proofs -------------------------
(***************************************************************************)
(* The staged loaders for any packages, loaders, files, faults and outside *)
(* statements.  A process reaches the places behind a check only when the  *)
(* check held, markers and metadata are never taken back, and so a request *)
(* may rely on what its sender saw, however late it arrives.               *)
(***************************************************************************)
EXTENDS StagedRelease, FiniteSetTheorems, TLAPS

-----------------------------------------------------------------------------
(* The inductive invariant.                                                  *)

Packages == scene.packages

\* The places a process reaches only after it saw the journals of its build
\* complete, and those where the archive's catalog waits for its Holdings.
JournalsSeen == {"totals", "presence", "gate", "finalize", "readback"}
Activating == {"gate", "finalize", "readback"}
Importing == {"import", "marker", "count"}
Schemas == {"prepare", "prepared"}

\* What a process, or the request it left behind, may rely on in databases of
\* tool t with packages P on the disks, journals J and metadata M.
MayRely(o, t, P, J, M) ==
    /\ o.pc # "idle" => o.role \in Roles(t) /\ o.build \in P
    /\ o.pc \in Schemas => t = "compass"
    /\ o.pc = "prepare" => o.at \in 1 .. PrepareFiles
    /\ o.pc \in Importing => o.at \in 1 .. ShardCount
    /\ o.pc \in JournalsSeen => \A r \in Roles(t) : Shards(o.build) \subseteq J[r]
    /\ o.pc \in {"inspect", "journal"} /\ o.role = "holdings" /\ o.phase # "load" =>
          Shards(o.build) \subseteq J["catalog"]
    /\ o.pc \in Activating /\ o.role = "catalog" => M["holdings"] = o.build

Relies(o) == MayRely(o, tool, Packages, journal, meta)

\* Only a load imports data files.
InLoad(o) == o.pc \in Importing => o.phase = "load"

ProcessesOK ==
    /\ \A p \in Operators : Relies(op[p]) /\ InLoad(op[p])
    /\ \A q \in orphans : Relies(q)

\* The databases: journals of the packages, metadata of a build that is whole, and
\* Holdings before the catalog.
TargetOK ==
    /\ \A r \in AllRoles : journal[r] \subseteq UNION {Shards(b) : b \in Packages}
    /\ \A r \in AllRoles : meta[r] # NoBuild =>
          r \in Roles(tool) /\ meta[r] \in Packages /\ Shards(meta[r]) \subseteq journal[r]
    /\ CatalogHasItsHoldings
    /\ tool # "compass" => schema = PrepareFiles

\* The rows are those of the journal, but for what outside statements did; two of
\* them may cancel out.
RowsFollow(r) ==
    \/ rows[r] = journal[r]
    \/ strays > 0 /\ \E s \in journal[r] : rows[r] = journal[r] \ {s}
    \/ strays > 0 /\ rows[r] = journal[r] \cup {Stray}
    \/ strays > 1

RowsOK == \A r \in AllRoles : RowsFollow(r)

\* p applied the last schema file that is there, or sends the next one.
Prepares(p) ==
    \/ op[p].pc = "prepared" /\ op[p].at = schema
    \/ op[p].pc = "prepare" /\ op[p].at = schema + 1

SomeonePrepares ==
    faults = 0 => /\ orphans = {}
                  /\ schema \in {0, PrepareFiles} \/ \E p \in Operators : Prepares(p)

IInv == TypeOK /\ ProcessesOK /\ TargetOK /\ RowsOK /\ SomeonePrepares

-----------------------------------------------------------------------------
(* Facts about packages.                                                     *)

LEMMA SceneFacts ==
    ASSUME TypeOK
    PROVE  /\ Packages \subseteq Builds /\ NoBuild \notin Builds
           /\ scene.faults \in Nat /\ scene.strays \in Nat
           /\ tool \in {"archive", "compass", "collections"}
           /\ Roles(tool) \subseteq AllRoles
           /\ faults \in Nat /\ strays \in Nat
  <1>1. scene \in [packages : SUBSET Builds, faults : Nat, strays : Nat]
    BY StagedReleaseAssumption DEF TypeOK
  <1>2. tool \in {"archive", "compass", "collections"}
    BY StagedReleaseAssumption DEF TypeOK
  <1> QED
    BY <1>1, <1>2, StagedReleaseAssumption DEF TypeOK, Packages, Roles, AllRoles

LEMMA ShardFacts ==
    ASSUME NEW b \in Builds
    PROVE  /\ IsFiniteSet(Shards(b)) /\ Cardinality(Shards(b)) = ShardCount
           /\ Shards(b) \subseteq AllShards
           /\ \A i \in 1 .. ShardCount : <<b, i>> \in Shards(b)
  <1> DEFINE I == 1 .. ShardCount
             f == [i \in I |-> <<b, i>>]
  <1>1. ShardCount \in Nat
    BY StagedReleaseAssumption
  <1>2. IsFiniteSet(I) /\ Cardinality(I) = ShardCount
    BY <1>1, FS_Interval
  <1>3. f \in Bijection(I, Shards(b))
    BY DEF Bijection, Injection, Surjection, IsInjective, Shards
  <1>4. ExistsBijection(I, Shards(b))
    BY <1>3 DEF ExistsBijection
  <1>5. IsFiniteSet(Shards(b)) /\ Cardinality(Shards(b)) = ShardCount
    BY <1>2, <1>4, FS_Bijection
  <1> QED
    BY <1>5 DEF Shards, AllShards

LEMMA StrayIsForeign == Stray \notin AllShards
  BY StagedReleaseAssumption DEF Stray, AllShards, Shards

LEMMA AllShardsFinite == IsFiniteSet(AllShards)
  <1> DEFINE Sets == {Shards(b) : b \in Builds}
             f == [b \in Builds |-> Shards(b)]
  <1>1. f \in Surjection(Builds, Sets)
    BY DEF Surjection
  <1>2. IsFiniteSet(Sets)
    BY <1>1, FS_Surjection, StagedReleaseAssumption
  <1>3. \A S \in Sets : IsFiniteSet(S)
    BY ShardFacts
  <1> HIDE DEF Sets
  <1>4. IsFiniteSet(UNION Sets)
    BY <1>2, <1>3, FS_UNION
  <1> QED
    BY <1>4 DEF AllShards, Sets

LEMMA RowsAreCounted ==
    ASSUME NEW S, S \subseteq AllShards \cup {Stray}
    PROVE  IsFiniteSet(S) /\ Cardinality(S) \in 0 .. Cardinality(AllShards) + 1
  <1>1. /\ IsFiniteSet(AllShards \cup {Stray})
        /\ Cardinality(AllShards \cup {Stray}) = Cardinality(AllShards) + 1
    BY AllShardsFinite, StrayIsForeign, FS_AddElement
  <1>2. IsFiniteSet(S) /\ Cardinality(S) <= Cardinality(AllShards \cup {Stray})
    BY <1>1, FS_Subset
  <1>3. Cardinality(S) \in Nat /\ Cardinality(AllShards) \in Nat
    BY <1>2, AllShardsFinite, FS_CardinalityType
  <1> QED
    BY <1>1, <1>2, <1>3

-----------------------------------------------------------------------------
(* How a process moves.                                                      *)

\* p goes on at place pc; its phase and its build stay.
To(p, pc, role, at) ==
    \E o \in Processes : /\ op' = [op EXCEPT ![p] = o]
                         /\ o.pc = pc /\ o.phase = op[p].phase /\ o.build = op[p].build
                         /\ o.role = role /\ o.at = at

\* p goes on to a place where it relies only on what is there; it prepares a schema
\* only where there is none, or goes on with its own.
Advance(p) ==
    \E o \in Processes : /\ op' = [op EXCEPT ![p] = o]
                         /\ MayRely(o, tool, Packages, journal', meta') /\ InLoad(o)
                         /\ o.pc \in Schemas => schema = 0 \/ op[p].pc \in Schemas

LEMMA ProcessFields ==
    ASSUME NEW o \in Processes
    PROVE  /\ o.phase \in {"none", "load", "verify", "activate"} /\ o.pc \in PCs
           /\ o.build \in Builds \cup {NoBuild} /\ o.role \in AllRoles \cup {"none"}
           /\ o.seen \in SUBSET AllShards
           /\ o.count \in 0 .. Cardinality(AllShards) + 1
           /\ o.at \in 0 .. ShardCount + PrepareFiles
           /\ o = [phase |-> o.phase, pc |-> o.pc, build |-> o.build, role |-> o.role,
                   seen |-> o.seen, count |-> o.count, at |-> o.at]
  BY DEF Processes

LEMMA IdleIsProcess == Idle \in Processes /\ Idle.pc = "idle"
  <1>1. Cardinality(AllShards) \in Nat
    BY AllShardsFinite, FS_CardinalityType
  <1>2. ShardCount + PrepareFiles \in Nat
    BY StagedReleaseAssumption
  <1> QED
    BY <1>1, <1>2 DEF Idle, Processes, PCs

LEMMA GotoMoves ==
    ASSUME op \in [Operators -> Processes], NEW p \in Operators, NEW pc \in PCs, Goto(p, pc)
    PROVE  To(p, pc, op[p].role, op[p].at)
  <1> DEFINE o == [phase |-> op[p].phase, pc |-> pc, build |-> op[p].build,
                   role |-> op[p].role, seen |-> op[p].seen, count |-> op[p].count,
                   at |-> op[p].at]
  <1>1. op[p] \in Processes
    OBVIOUS
  <1>2. [op[p] EXCEPT !.pc = pc] = o
    BY <1>1, ProcessFields
  <1>3. o \in Processes
    BY <1>1, ProcessFields DEF Processes
  <1>4. op' = [op EXCEPT ![p] = o]
    BY <1>2 DEF Goto
  <1> QED
    BY <1>3, <1>4 DEF To

\* The records that the actions with several updates make.
LEMMA TurnRecord ==
    ASSUME NEW w \in Processes, NEW pc, NEW role, NEW seen
    PROVE  [w EXCEPT !.pc = pc, !.role = role, !.seen = seen] =
              [phase |-> w.phase, pc |-> pc, build |-> w.build, role |-> role,
               seen |-> seen, count |-> w.count, at |-> w.at]
  <1> DEFINE x == [phase |-> w.phase, pc |-> pc, build |-> w.build, role |-> w.role,
                   seen |-> w.seen, count |-> w.count, at |-> w.at]
             y == [phase |-> w.phase, pc |-> pc, build |-> w.build, role |-> role,
                   seen |-> w.seen, count |-> w.count, at |-> w.at]
  <1>1. [w EXCEPT !.pc = pc] = x
    BY ProcessFields
  <1>2. [x EXCEPT !.role = role] = y
    OBVIOUS
  <1>3. [y EXCEPT !.seen = seen] =
           [phase |-> w.phase, pc |-> pc, build |-> w.build, role |-> role,
            seen |-> seen, count |-> w.count, at |-> w.at]
    OBVIOUS
  <1> HIDE DEF x, y
  <1> QED
    BY <1>1, <1>2, <1>3, Zenon

LEMMA AtRecord ==
    ASSUME NEW w \in Processes, NEW pc, NEW at
    PROVE  [w EXCEPT !.pc = pc, !.at = at] =
              [phase |-> w.phase, pc |-> pc, build |-> w.build, role |-> w.role,
               seen |-> w.seen, count |-> w.count, at |-> at]
  <1> DEFINE x == [phase |-> w.phase, pc |-> pc, build |-> w.build, role |-> w.role,
                   seen |-> w.seen, count |-> w.count, at |-> w.at]
  <1>1. [w EXCEPT !.pc = pc] = x
    BY ProcessFields
  <1>2. [x EXCEPT !.at = at] =
           [phase |-> w.phase, pc |-> pc, build |-> w.build, role |-> w.role,
            seen |-> w.seen, count |-> w.count, at |-> at]
    OBVIOUS
  <1> HIDE DEF x
  <1> QED
    BY <1>1, <1>2, Zenon

LEMMA ImportRecord ==
    ASSUME NEW w \in Processes, NEW pc, NEW at, NEW seen
    PROVE  [w EXCEPT !.pc = pc, !.at = at, !.seen = seen] =
              [phase |-> w.phase, pc |-> pc, build |-> w.build, role |-> w.role,
               seen |-> seen, count |-> w.count, at |-> at]
  <1> DEFINE x == [phase |-> w.phase, pc |-> pc, build |-> w.build, role |-> w.role,
                   seen |-> w.seen, count |-> w.count, at |-> at]
  <1>1. [w EXCEPT !.pc = pc, !.at = at] = x
    BY AtRecord
  <1>2. [x EXCEPT !.seen = seen] =
           [phase |-> w.phase, pc |-> pc, build |-> w.build, role |-> w.role,
            seen |-> seen, count |-> w.count, at |-> at]
    OBVIOUS
  <1> HIDE DEF x
  <1> QED
    BY <1>1, <1>2, Zenon

LEMMA CountRecord ==
    ASSUME NEW w \in Processes, NEW pc, NEW count
    PROVE  [w EXCEPT !.pc = pc, !.count = count] =
              [phase |-> w.phase, pc |-> pc, build |-> w.build, role |-> w.role,
               seen |-> w.seen, count |-> count, at |-> w.at]
  <1> DEFINE x == [phase |-> w.phase, pc |-> pc, build |-> w.build, role |-> w.role,
                   seen |-> w.seen, count |-> w.count, at |-> w.at]
  <1>1. [w EXCEPT !.pc = pc] = x
    BY ProcessFields
  <1>2. [x EXCEPT !.count = count] =
           [phase |-> w.phase, pc |-> pc, build |-> w.build, role |-> w.role,
            seen |-> w.seen, count |-> count, at |-> w.at]
    OBVIOUS
  <1> HIDE DEF x
  <1> QED
    BY <1>1, <1>2, Zenon

LEMMA TurnMoves ==
    ASSUME op \in [Operators -> Processes], NEW p \in Operators, NEW pc \in PCs,
           NEW role \in AllRoles, Turn(p, role, pc)
    PROVE  To(p, pc, role, op[p].at)
  <1> DEFINE o == [phase |-> op[p].phase, pc |-> pc, build |-> op[p].build,
                   role |-> role, seen |-> {}, count |-> op[p].count, at |-> op[p].at]
  <1>1. op[p] \in Processes
    OBVIOUS
  <1>2. [op[p] EXCEPT !.pc = pc, !.role = role, !.seen = {}] = o
    BY <1>1, TurnRecord, Zenon
  <1>3. o \in Processes
    BY <1>1, ProcessFields DEF Processes
  <1>4. op' = [op EXCEPT ![p] = o]
    BY <1>2 DEF Turn
  <1> QED
    BY <1>3, <1>4 DEF To

\* Places with a position: the next schema file.
LEMMA PrepareMoves ==
    ASSUME op \in [Operators -> Processes], NEW p \in Operators, NEW i \in 1 .. PrepareFiles,
           op' = [op EXCEPT ![p].pc = "prepare", ![p].at = i]
    PROVE  To(p, "prepare", op[p].role, i)
  <1> DEFINE o == [phase |-> op[p].phase, pc |-> "prepare", build |-> op[p].build,
                   role |-> op[p].role, seen |-> op[p].seen, count |-> op[p].count,
                   at |-> i]
  <1>1. op[p] \in Processes
    OBVIOUS
  <1>2. [op[p] EXCEPT !.pc = "prepare", !.at = i] = o
    BY <1>1, AtRecord, Zenon
  <1>3. i \in 0 .. ShardCount + PrepareFiles
    BY StagedReleaseAssumption
  <1>4. o \in Processes
    BY <1>1, <1>3, ProcessFields DEF Processes, PCs
  <1>5. op' = [op EXCEPT ![p] = o]
    BY <1>2
  <1> QED
    BY <1>4, <1>5 DEF To

\* ... and the next data file without a marker.
LEMMA ResumeMoves ==
    ASSUME op \in [Operators -> Processes], NEW p \in Operators, NEW seen \in SUBSET AllShards,
           NEW done, Resume(p, seen, done)
    PROVE  \/ Missing(op[p].build, seen) = {} /\ done
           \/ \E i \in 1 .. ShardCount : To(p, "import", op[p].role, i)
  <1>1. CASE Missing(op[p].build, seen) = {}
    BY <1>1 DEF Resume
  <1>2. CASE Missing(op[p].build, seen) # {}
    <2>1. PICK i \in Missing(op[p].build, seen) :
             op' = [op EXCEPT ![p].pc = "import", ![p].at = i, ![p].seen = seen]
      BY <1>2 DEF Resume
    <2> DEFINE o == [phase |-> op[p].phase, pc |-> "import", build |-> op[p].build,
                     role |-> op[p].role, seen |-> seen, count |-> op[p].count, at |-> i]
    <2>2. op[p] \in Processes
      OBVIOUS
    <2>3. [op[p] EXCEPT !.pc = "import", !.at = i, !.seen = seen] = o
      BY <2>2, ImportRecord, Zenon
    <2>4. i \in 1 .. ShardCount /\ i \in 0 .. ShardCount + PrepareFiles
      BY <2>1, StagedReleaseAssumption DEF Missing
    <2>5. o \in Processes
      BY <2>2, <2>4, ProcessFields DEF Processes, PCs
    <2>6. op' = [op EXCEPT ![p] = o]
      BY <2>1, <2>3
    <2> QED
      BY <2>4, <2>5, <2>6 DEF To
  <1> QED
    BY <1>1, <1>2

\* A process that ends relies on nothing.
LEMMA ExitAdvances ==
    ASSUME NEW p \in Operators, Exit(p)
    PROVE  Advance(p)
  BY IdleIsProcess DEF Exit, Advance, MayRely, InLoad, Schemas, Importing, JournalsSeen, Activating

\* What p relies on at the place it goes to.
LEMMA ToAdvances ==
    ASSUME NEW p \in Operators, NEW pc, NEW role, NEW at, To(p, pc, role, at),
           role \in Roles(tool), op[p].build \in Packages,
           pc \in Schemas => tool = "compass" /\ (schema = 0 \/ op[p].pc \in Schemas),
           pc = "prepare" => at \in 1 .. PrepareFiles,
           pc \in Importing => at \in 1 .. ShardCount /\ op[p].phase = "load",
           pc \in JournalsSeen => \A r \in Roles(tool) : Shards(op[p].build) \subseteq journal'[r],
           pc \in {"inspect", "journal"} /\ role = "holdings" /\ op[p].phase # "load" =>
              Shards(op[p].build) \subseteq journal'["catalog"],
           pc \in Activating /\ role = "catalog" => meta'["holdings"] = op[p].build
    PROVE  Advance(p)
  BY DEF To, Advance, MayRely, InLoad, Importing

\* The usual places of a load, where nothing but the role matters.
Plain == {"schema", "meta", "recount"}

LEMMA PlainAdvances ==
    ASSUME NEW p \in Operators, NEW pc \in Plain, NEW role, NEW at, To(p, pc, role, at),
           role \in Roles(tool), op[p].build \in Packages
    PROVE  Advance(p)
  BY ToAdvances DEF Plain, Schemas, Importing, JournalsSeen, Activating

LEMMA ImportAdvances ==
    ASSUME NEW p \in Operators, NEW i \in 1 .. ShardCount,
           To(p, "import", op[p].role, i),
           op[p].role \in Roles(tool), op[p].build \in Packages, op[p].phase = "load"
    PROVE  Advance(p)
  BY ToAdvances DEF Schemas, Importing, JournalsSeen, Activating

LEMMA CountMoves ==
    ASSUME op \in [Operators -> Processes], NEW p \in Operators,
           NEW count \in 0 .. Cardinality(AllShards) + 1,
           op' = [op EXCEPT ![p].pc = "journal", ![p].count = count]
    PROVE  To(p, "journal", op[p].role, op[p].at)
  <1> DEFINE o == [phase |-> op[p].phase, pc |-> "journal", build |-> op[p].build,
                   role |-> op[p].role, seen |-> op[p].seen, count |-> count,
                   at |-> op[p].at]
  <1>1. op[p] \in Processes
    OBVIOUS
  <1>2. [op[p] EXCEPT !.pc = "journal", !.count = count] = o
    BY <1>1, CountRecord, Zenon
  <1>3. o \in Processes
    BY <1>1, ProcessFields DEF Processes, PCs
  <1>4. op' = [op EXCEPT ![p] = o]
    BY <1>2
  <1> QED
    BY <1>3, <1>4 DEF To

-----------------------------------------------------------------------------
(* The steps of the loaders that only read.                                  *)

Untouched == UNCHANGED databases

\* A step of p that reads the databases, and perhaps ends it with success.
Reads(p) == Untouched /\ Advance(p) /\ Quietly /\ confirmed' \subseteq Builds

\* What is known of a process that is at work.
LEMMA AtWork ==
    ASSUME IInv, NEW p \in Operators, op[p].pc # "idle"
    PROVE  /\ op \in [Operators -> Processes] /\ op[p] \in Processes
           /\ Relies(op[p]) /\ InLoad(op[p])
           /\ op[p].role \in Roles(tool) /\ op[p].role \in AllRoles
           /\ op[p].build \in Packages /\ op[p].build \in Builds
           /\ confirmed \subseteq Builds
           /\ journal[op[p].role] \in SUBSET AllShards
  BY SceneFacts DEF IInv, TypeOK, ProcessesOK, Relies, MayRely

LEMMA SuccessReads ==
    ASSUME IInv, NEW p \in Operators, op[p].pc # "idle", Success(p)
    PROVE  Reads(p)
  BY AtWork, ExitAdvances DEF Success, Reads, Untouched

LEMMA ExitReads ==
    ASSUME IInv, NEW p \in Operators, Exit(p), ReadOnly
    PROVE  Reads(p)
  BY ExitAdvances DEF ReadOnly, Reads, Untouched, IInv, TypeOK

LEMMA AdvanceReads ==
    ASSUME IInv, NEW p \in Operators, Advance(p), ReadOnly
    PROVE  Reads(p)
  BY DEF ReadOnly, Reads, Untouched, IInv, TypeOK

\* To the next data file.
LEMMA ResumeReads ==
    ASSUME IInv, NEW p \in Operators, op[p].pc # "idle", NEW seen \in SUBSET AllShards,
           op[p].phase = "load",
           ReadOnly, Resume(p, seen, Goto(p, "recount")) \/ Resume(p, seen, FALSE)
    PROVE  Reads(p)
  <1>1. \/ Goto(p, "recount")
        \/ \E i \in 1 .. ShardCount : To(p, "import", op[p].role, i)
    BY AtWork, ResumeMoves
  <1>2. CASE Goto(p, "recount")
    <2>1. To(p, "recount", op[p].role, op[p].at)
      BY <1>2, AtWork, GotoMoves DEF PCs
    <2> QED
      BY <2>1, AtWork, PlainAdvances, AdvanceReads DEF Plain
  <1>3. CASE \E i \in 1 .. ShardCount : To(p, "import", op[p].role, i)
    BY <1>3, AtWork, ImportAdvances, AdvanceReads
  <1> QED
    BY <1>1, <1>2, <1>3

LEMMA CollectionsReads ==
    ASSUME IInv, NEW p \in Operators, Collections(p)
    PROVE  Reads(p)
  <1>1. op[p].pc # "idle" /\ tool = "collections"
    BY DEF Collections, CollectionsInspect, CollectionsResume, CollectionsMarker,
       CollectionsCount, CollectionsVerify, CollectionsReadBack, CollectionsRecount,
       ReadsMarker, At
  <1>2. /\ op \in [Operators -> Processes] /\ op[p] \in Processes
        /\ Relies(op[p]) /\ InLoad(op[p])
        /\ op[p].role = "collections" /\ op[p].role \in Roles(tool)
        /\ op[p].build \in Packages
        /\ journal["collections"] \in SUBSET AllShards /\ op[p].seen \in SUBSET AllShards
    BY <1>1, AtWork, ProcessFields DEF Roles
  <1>3. CASE CollectionsInspect(p)
    <2>1. CASE Exit(p)
      BY <1>3, <2>1, ExitReads DEF CollectionsInspect
    <2>2. CASE ~Exit(p)
      <3>1. Cardinality(rows["collections"]) \in 0 .. Cardinality(AllShards) + 1
        BY RowsAreCounted DEF IInv, TypeOK, AllRoles
      <3>2. To(p, "journal", op[p].role, op[p].at)
        BY <1>2, <1>3, <2>2, <3>1, CountMoves DEF CollectionsInspect
      <3>3. Advance(p)
        BY <1>2, <3>2, ToAdvances DEF Schemas, Importing, JournalsSeen, Activating
      <3> QED
        BY <1>3, <3>3, AdvanceReads DEF CollectionsInspect
    <2> QED
      BY <2>1, <2>2
  <1>4. CASE CollectionsResume(p)
    BY <1>1, <1>2, <1>4, ResumeReads, ExitReads DEF CollectionsResume
  <1>5. CASE CollectionsMarker(p)
    <2>1. CASE Exit(p)
      BY <1>5, <2>1, ExitReads DEF CollectionsMarker, ReadsMarker
    <2>2. CASE Goto(p, "count")
      <3>1. To(p, "count", op[p].role, op[p].at)
        BY <1>2, <2>2, GotoMoves DEF PCs
      <3>2. op[p].at \in 1 .. ShardCount
        BY <1>2, <1>5 DEF CollectionsMarker, ReadsMarker, At, Relies, MayRely, Importing
      <3>3. Advance(p)
        BY <1>2, <1>5, <3>1, <3>2, ToAdvances
           DEF CollectionsMarker, ReadsMarker, At, InLoad, Schemas, Importing, JournalsSeen,
               Activating
      <3> QED
        BY <1>5, <3>3, AdvanceReads DEF CollectionsMarker, ReadsMarker
    <2> QED
      BY <1>5, <2>1, <2>2 DEF CollectionsMarker
  <1>6. CASE CollectionsCount(p)
    <2>1. op[p].at \in 1 .. ShardCount /\ op[p].build \in Builds
      BY <1>1, <1>2, <1>6, AtWork DEF CollectionsCount, At, Relies, MayRely, Importing
    <2>2. SeenNow(p) \in SUBSET AllShards
      BY <1>2, <2>1, ShardFacts DEF SeenNow
    <2>3. op[p].phase = "load"
      BY <1>2, <1>6 DEF CollectionsCount, At, InLoad, Importing
    <2> QED
      BY <1>1, <1>6, <2>2, <2>3, ResumeReads, ExitReads DEF CollectionsCount
  <1>7. CASE CollectionsVerify(p)
    <2>1. CASE Success(p)
      BY <1>1, <2>1, SuccessReads
    <2>2. CASE Exit(p) /\ ReadOnly
      BY <2>2, ExitReads
    <2>3. CASE Complete(p) /\ Goto(p, "finalize") /\ ReadOnly
      <3>1. To(p, "finalize", op[p].role, op[p].at)
        BY <1>2, <2>3, GotoMoves DEF PCs
      <3>2. \A r \in Roles(tool) : Shards(op[p].build) \subseteq journal'[r]
        BY <1>1, <1>2, <2>3 DEF Complete, ReadOnly, databases, Roles
      <3>3. Advance(p)
        BY <1>2, <3>1, <3>2, ToAdvances DEF Schemas, Importing, JournalsSeen, Activating
      <3> QED
        BY <2>3, <3>3, AdvanceReads
    <2> QED
      BY <1>7, <2>1, <2>2, <2>3 DEF CollectionsVerify
  <1>8. CASE CollectionsReadBack(p)
    <2>1. CASE Exit(p)
      BY <1>8, <2>1, ExitReads DEF CollectionsReadBack
    <2>2. CASE Goto(p, "recount")
      <3>1. To(p, "recount", op[p].role, op[p].at)
        BY <1>2, <2>2, GotoMoves DEF PCs
      <3> QED
        BY <1>2, <1>8, <3>1, PlainAdvances, AdvanceReads DEF Plain, CollectionsReadBack
    <2> QED
      BY <1>8, <2>1, <2>2 DEF CollectionsReadBack, Check
  <1>9. CASE CollectionsRecount(p)
    BY <1>1, <1>9, SuccessReads, ExitReads DEF CollectionsRecount
  <1> QED
    BY <1>3, <1>4, <1>5, <1>6, <1>7, <1>8, <1>9 DEF Collections

LEMMA CompassReads ==
    ASSUME IInv, NEW p \in Operators, Compass(p)
    PROVE  Reads(p)
  <1>1. op[p].pc # "idle" /\ tool = "compass"
    BY DEF Compass, CompassSchema, CompassPrepared, CompassMeta, CompassResume,
       CompassMarker, CompassVerify, CompassTotals, CompassPresence, CompassActivate, At
  <1>2. /\ op \in [Operators -> Processes] /\ op[p] \in Processes
        /\ Relies(op[p]) /\ InLoad(op[p]) /\ op[p].role = "compass" /\ op[p].role \in Roles(tool)
        /\ op[p].build \in Packages
        /\ journal["compass"] \in SUBSET AllShards /\ op[p].seen \in SUBSET AllShards
    BY <1>1, AtWork, ProcessFields DEF Roles
  <1>3. ASSUME NEW pc \in {"schema", "meta", "recount", "inspect", "journal"},
               Goto(p, pc), ReadOnly
        PROVE  Reads(p)
    <2>1. To(p, pc, op[p].role, op[p].at)
      BY <1>2, <1>3, GotoMoves DEF PCs
    <2>2. Advance(p)
      BY <1>2, <2>1, ToAdvances DEF Schemas, Importing, JournalsSeen, Activating
    <2> QED
      BY <1>3, <2>2, AdvanceReads
  <1>4. ASSUME NEW pc \in JournalsSeen, Goto(p, pc), ReadOnly,
               \A r \in Roles(tool) : Shards(op[p].build) \subseteq journal[r]
        PROVE  Reads(p)
    <2>1. To(p, pc, op[p].role, op[p].at)
      BY <1>2, <1>4, GotoMoves DEF PCs, JournalsSeen
    <2>2. \A r \in Roles(tool) : Shards(op[p].build) \subseteq journal'[r]
      BY <1>4 DEF ReadOnly, databases
    <2>3. Advance(p)
      BY <1>2, <2>1, <2>2, ToAdvances DEF Schemas, Importing, JournalsSeen
    <2> QED
      BY <1>4, <2>3, AdvanceReads
  <1>5. ASSUME NEW i \in 1 .. PrepareFiles, ReadOnly, schema = 0 \/ At(p, "prepared"),
               op' = [op EXCEPT ![p].pc = "prepare", ![p].at = i]
        PROVE  Reads(p)
    <2>1. To(p, "prepare", op[p].role, i)
      BY <1>2, <1>5, PrepareMoves
    <2>2. Advance(p)
      BY <1>1, <1>2, <1>5, <2>1, ToAdvances
         DEF At, Schemas, Importing, JournalsSeen, Activating
    <2> QED
      BY <1>5, <2>2, AdvanceReads
  <1>6. CASE CompassSchema(p)
    <2>1. 1 \in 1 .. PrepareFiles
      BY StagedReleaseAssumption
    <2> QED
      BY <1>3, <1>5, <1>6, <2>1, ExitReads DEF CompassSchema
  <1>7. CASE CompassPrepared(p)
    <2>1. CASE op[p].at < PrepareFiles
      <3>1. op[p].at + 1 \in 1 .. PrepareFiles
        BY <1>2, <2>1, ProcessFields, StagedReleaseAssumption
      <3>2. op' = [op EXCEPT ![p].pc = "prepare", ![p].at = op[p].at + 1]
        BY <1>2, <1>7, <2>1 DEF CompassPrepared
      <3> QED
        BY <1>5, <1>7, <3>1, <3>2 DEF CompassPrepared
    <2>2. CASE ~(op[p].at < PrepareFiles)
      BY <1>3, <1>7, <2>2, ExitReads DEF CompassPrepared, Check
    <2> QED
      BY <2>1, <2>2
  <1>8. CASE CompassMeta(p)
    BY <1>3, <1>8, ExitReads DEF CompassMeta, Check
  <1>9. CASE CompassResume(p)
    BY <1>1, <1>2, <1>9, ResumeReads, SuccessReads, ExitReads DEF CompassResume
  <1>10. CASE CompassMarker(p)
    <2>1. MarkerThere(p) => SeenNow(p) \in SUBSET AllShards
      BY <1>2 DEF MarkerThere, SeenNow
    <2>2. op[p].phase = "load"
      BY <1>2, <1>10 DEF CompassMarker, At, InLoad, Importing
    <2> QED
      BY <1>1, <1>10, <2>1, <2>2, ResumeReads, SuccessReads, ExitReads DEF CompassMarker
  <1>11. CASE CompassVerify(p)
    <2>1. Complete(p) => \A r \in Roles(tool) : Shards(op[p].build) \subseteq journal[r]
      BY <1>1, <1>2 DEF Complete, Roles
    <2> QED
      BY <1>4, <1>11, <2>1, ExitReads DEF CompassVerify, Check, JournalsSeen
  <1>12. CASE CompassTotals(p)
    <2>1. \A r \in Roles(tool) : Shards(op[p].build) \subseteq journal[r]
      BY <1>2, <1>12 DEF CompassTotals, At, Relies, MayRely, JournalsSeen
    <2> QED
      BY <1>4, <1>12, <2>1, ExitReads DEF CompassTotals, Check, JournalsSeen
  <1>13. CASE CompassPresence(p)
    <2>1. \A r \in Roles(tool) : Shards(op[p].build) \subseteq journal[r]
      BY <1>2, <1>13 DEF CompassPresence, At, Relies, MayRely, JournalsSeen
    <2> QED
      BY <1>1, <1>4, <1>13, <2>1, ExitReads, SuccessReads DEF CompassPresence, JournalsSeen
  <1>14. CASE CompassActivate(p)
    <2>1. \A r \in Roles(tool) : Shards(op[p].build) \subseteq journal[r]
      BY <1>2, <1>14 DEF CompassActivate, At, Relies, MayRely, JournalsSeen
    <2> QED
      BY <1>1, <1>4, <1>14, <2>1, ExitReads, SuccessReads
         DEF CompassActivate, Check, JournalsSeen
  <1> QED
    BY <1>6, <1>7, <1>8, <1>9, <1>10, <1>11, <1>12, <1>13, <1>14 DEF Compass

LEMMA ArchiveReads ==
    ASSUME IInv, NEW p \in Operators, Archive(p)
    PROVE  Reads(p)
  <1> DEFINE b == op[p].build
  <1>1. op[p].pc # "idle" /\ tool = "archive"
    BY DEF Archive, ArchiveInspect, ArchiveResume, ArchiveMarker, ArchiveVerify,
       ArchiveActivate, At
  <1>2. /\ op \in [Operators -> Processes] /\ op[p] \in Processes
        /\ Relies(op[p]) /\ InLoad(op[p])
        /\ op[p].role \in {"catalog", "holdings"} /\ op[p].role \in Roles(tool)
        /\ b \in Packages /\ Roles(tool) = {"catalog", "holdings"}
        /\ journal[op[p].role] \in SUBSET AllShards /\ op[p].seen \in SUBSET AllShards
    BY <1>1, AtWork, ProcessFields DEF Roles
  <1>3. ASSUME ArchiveLoaded(p), op[p].phase = "load"
        PROVE  Reads(p)
    <2>1. CASE op[p].role = "catalog"
      <3>1. To(p, "inspect", "holdings", op[p].at) /\ ReadOnly
        BY <1>2, <1>3, <2>1, TurnMoves DEF ArchiveLoaded, PCs, AllRoles
      <3>2. Advance(p)
        BY <1>2, <1>3, <3>1, ToAdvances DEF Schemas, Importing, JournalsSeen, Activating
      <3> QED
        BY <3>1, <3>2, AdvanceReads
    <2>2. CASE op[p].role # "catalog"
      BY <1>1, <1>3, <2>2, SuccessReads DEF ArchiveLoaded
    <2> QED
      BY <2>1, <2>2
  <1>4. ASSUME NEW pc \in Activating, NEW role \in {"catalog", "holdings"}, ReadOnly,
               To(p, pc, role, op[p].at),
               \A r \in Roles(tool) : Shards(b) \subseteq journal[r],
               role = "catalog" => meta["holdings"] = b
        PROVE  Reads(p)
    <2>1. journal' = journal /\ meta' = meta
      BY <1>4 DEF ReadOnly, databases
    <2>2. Advance(p)
      BY <1>2, <1>4, <2>1, ToAdvances DEF Schemas, Importing, JournalsSeen, Activating
    <2> QED
      BY <1>4, <2>2, AdvanceReads
  <1>5. CASE ArchiveInspect(p)
    <2>1. CASE Exit(p)
      BY <1>5, <2>1, ExitReads DEF ArchiveInspect
    <2>2. CASE Goto(p, "journal")
      <3>1. To(p, "journal", op[p].role, op[p].at)
        BY <1>2, <2>2, GotoMoves DEF PCs
      <3>2. op[p].role = "holdings" /\ op[p].phase # "load" =>
               Shards(b) \subseteq journal'["catalog"]
        BY <1>2, <1>5 DEF ArchiveInspect, At, Relies, MayRely, ReadOnly, databases
      <3>3. Advance(p)
        BY <1>2, <3>1, <3>2, ToAdvances DEF Schemas, Importing, JournalsSeen, Activating
      <3> QED
        BY <1>5, <3>3, AdvanceReads DEF ArchiveInspect
    <2> QED
      BY <1>5, <2>1, <2>2 DEF ArchiveInspect, Check
  <1>6. CASE ArchiveResume(p)
    BY <1>1, <1>2, <1>3, <1>6, ExitReads, ResumeReads DEF ArchiveResume
  <1>7. CASE ArchiveMarker(p)
    <2>1. MarkerThere(p) => SeenNow(p) \in SUBSET AllShards
      BY <1>2 DEF MarkerThere, SeenNow
    <2>2. op[p].phase = "load"
      BY <1>2, <1>7 DEF ArchiveMarker, At, InLoad, Importing
    <2> QED
      BY <1>1, <1>3, <1>7, <2>1, <2>2, ExitReads, ResumeReads DEF ArchiveMarker
  <1>8. CASE ArchiveVerify(p)
    <2>1. CASE Exit(p) /\ ReadOnly
      BY <2>1, ExitReads
    <2>2. CASE Success(p)
      BY <1>1, <2>2, SuccessReads
    <2>3. CASE Complete(p) /\ op[p].role = "catalog" /\ Turn(p, "holdings", "inspect")
               /\ ReadOnly
      <3>1. To(p, "inspect", "holdings", op[p].at)
        BY <1>2, <2>3, TurnMoves DEF PCs, AllRoles
      <3>2. Shards(b) \subseteq journal'["catalog"]
        BY <2>3 DEF Complete, ReadOnly, databases
      <3>3. Advance(p)
        BY <1>2, <3>1, <3>2, ToAdvances DEF Schemas, Importing, JournalsSeen, Activating
      <3> QED
        BY <2>3, <3>3, AdvanceReads
    <2>4. CASE Complete(p) /\ op[p].role # "catalog" /\ Turn(p, "holdings", "gate") /\ ReadOnly
      <3>1. To(p, "gate", "holdings", op[p].at)
        BY <1>2, <2>4, TurnMoves DEF PCs, AllRoles
      <3>2. Shards(b) \subseteq journal["holdings"] /\ Shards(b) \subseteq journal["catalog"]
        BY <1>2, <1>8, <2>4 DEF Complete, ArchiveVerify, At, Relies, MayRely
      <3> QED
        BY <1>2, <1>4, <2>4, <3>1, <3>2 DEF Activating
    <2> QED
      BY <1>8, <2>1, <2>2, <2>3, <2>4 DEF ArchiveVerify, ActivateOrder
  <1>9. CASE ArchiveActivate(p)
    <2>1. \A r \in Roles(tool) : Shards(b) \subseteq journal[r]
      BY <1>2, <1>9 DEF ArchiveActivate, At, Relies, MayRely, JournalsSeen
    <2>2. op[p].role = "catalog" => meta["holdings"] = b
      BY <1>2, <1>9 DEF ArchiveActivate, At, Relies, MayRely, Activating
    <2>3. CASE Exit(p) /\ ReadOnly
      BY <2>3, ExitReads
    <2>4. CASE Success(p)
      BY <1>1, <2>4, SuccessReads
    <2>5. CASE meta[op[p].role] = b /\ op[p].role = "holdings" /\ Turn(p, "catalog", "gate")
               /\ ReadOnly
      <3>1. To(p, "gate", "catalog", op[p].at)
        BY <1>2, <2>5, TurnMoves DEF PCs, AllRoles
      <3> QED
        BY <1>4, <2>1, <2>5, <3>1 DEF Activating
    <2>6. CASE Goto(p, "finalize") /\ ReadOnly
      <3>1. To(p, "finalize", op[p].role, op[p].at)
        BY <1>2, <2>6, GotoMoves DEF PCs
      <3> QED
        BY <1>2, <1>4, <2>1, <2>2, <2>6, <3>1 DEF Activating
    <2> QED
      BY <1>9, <2>3, <2>4, <2>5, <2>6 DEF ArchiveActivate, ActivateOrder, Check
  <1> QED
    BY <1>5, <1>6, <1>7, <1>8, <1>9 DEF Archive

LEMMA StartReads ==
    ASSUME IInv, NEW p \in Operators, NEW phase \in {"load", "verify", "activate"}, NEW b,
           Start(p, phase, b)
    PROVE  Reads(p)
  <1> DEFINE o == [phase |-> phase, pc |-> FirstPC, build |-> b, role |-> LoadOrder[1],
                   seen |-> {}, count |-> 0, at |-> 0]
             w == [Idle EXCEPT !.phase = phase, !.pc = FirstPC, !.build = b,
                               !.role = LoadOrder[1]]
  <1>1. b \in Packages /\ b \in Builds /\ tool \in {"archive", "compass", "collections"}
    BY SceneFacts DEF Start, Packages, IInv
  <1>2. /\ LoadOrder[1] \in Roles(tool) /\ LoadOrder[1] \in AllRoles
        /\ LoadOrder[1] # "holdings"
    BY <1>1 DEF LoadOrder, Roles, AllRoles
  <1>3. FirstPC \in {"schema", "inspect"}
    BY DEF FirstPC
  <1>4. w = o
    <2> DEFINE x == [phase |-> phase, pc |-> "idle", build |-> NoBuild, role |-> "none",
                     seen |-> {}, count |-> 0, at |-> 0]
               y == [phase |-> phase, pc |-> FirstPC, build |-> NoBuild, role |-> "none",
                     seen |-> {}, count |-> 0, at |-> 0]
               z == [phase |-> phase, pc |-> FirstPC, build |-> b, role |-> "none",
                     seen |-> {}, count |-> 0, at |-> 0]
               first == LoadOrder[1]
               place == FirstPC
    <2>1. [Idle EXCEPT !.phase = phase] = x
      BY DEF Idle
    <2> HIDE DEF first, place
    <2>2. [x EXCEPT !.pc = place] = [x EXCEPT !.pc = place]
      OBVIOUS
    <2>3. [x EXCEPT !.pc = place] = y
      BY DEF place
    <2>4. [y EXCEPT !.build = b] = z
      OBVIOUS
    <2>5. [z EXCEPT !.role = first] = o
      BY DEF first
    <2> HIDE DEF x, y, z, o
    <2> QED
      BY <2>1, <2>3, <2>4, <2>5, Zenon DEF first, place
  <1>5. o \in Processes
    <2>1. Cardinality(AllShards) \in Nat
      BY AllShardsFinite, FS_CardinalityType
    <2>2. ShardCount + PrepareFiles \in Nat
      BY StagedReleaseAssumption
    <2> QED
      BY <1>1, <1>2, <1>3, <2>1, <2>2 DEF Processes, PCs
  <1>6. op' = [op EXCEPT ![p] = o]
    <2>1. op' = [op EXCEPT ![p] = w]
      BY DEF Start
    <2> QED
      BY <1>4, <2>1
  <1>7. MayRely(o, tool, Packages, journal', meta') /\ InLoad(o)
    BY <1>1, <1>2, <1>3 DEF MayRely, InLoad, Schemas, Importing, JournalsSeen, Activating
  <1>8. Advance(p)
    BY <1>3, <1>5, <1>6, <1>7 DEF Advance, Schemas
  <1> QED
    BY <1>8, AdvanceReads DEF Start

-----------------------------------------------------------------------------
(* What a step leaves to everybody else.                                     *)

DatabasesOK ==
    /\ schema \in 0 .. PrepareFiles
    /\ journal \in [AllRoles -> SUBSET AllShards]
    /\ rows \in [AllRoles -> SUBSET (AllShards \cup {Stray})]
    /\ meta \in [AllRoles -> Builds \cup {NoBuild}]
    /\ TargetOK /\ RowsOK

\* Markers and metadata stay.
Onward ==
    /\ tool' = tool /\ scene' = scene
    /\ \A r \in AllRoles : journal[r] \subseteq journal'[r]
    /\ \A r \in AllRoles : meta[r] # NoBuild => meta'[r] = meta[r]

\* What somebody relies on stays when others go on.
LEMMA RelyPersists ==
    ASSUME NEW o, NEW t \in {"archive", "compass", "collections"}, NEW P \in SUBSET Builds,
           NEW J, NEW K, NEW M, NEW N, MayRely(o, t, P, J, M),
           \A r \in AllRoles : J[r] \subseteq K[r],
           \A r \in AllRoles : M[r] # NoBuild => N[r] = M[r]
    PROVE  MayRely(o, t, P, K, N)
  <1>1. Roles(t) \subseteq AllRoles /\ "catalog" \in AllRoles /\ "holdings" \in AllRoles
    BY DEF Roles, AllRoles
  <1>2. o.pc \in JournalsSeen => \A r \in Roles(t) : Shards(o.build) \subseteq K[r]
    BY <1>1 DEF MayRely
  <1>3. o.pc \in {"inspect", "journal"} /\ o.role = "holdings" /\ o.phase # "load" =>
           Shards(o.build) \subseteq K["catalog"]
    BY <1>1 DEF MayRely
  <1>4. o.pc \in Activating /\ o.role = "catalog" => N["holdings"] = o.build
    BY <1>1, StagedReleaseAssumption DEF MayRely, Activating
  <1> QED
    BY <1>2, <1>3, <1>4 DEF MayRely

\* A request in flight is one of its sender.
LEMMA RequestRelies ==
    ASSUME IInv, NEW p \in Operators, op[p].pc \in {"prepare", "import", "finalize"}
    PROVE  Request(p) \in Requests /\ Relies(Request(p))
  <1>1. op[p].pc # "idle"
    OBVIOUS
  <1>2. op[p].at \in 0 .. ShardCount + PrepareFiles
    BY <1>1, AtWork, ProcessFields
  <1>3. Request(p) \in Requests
    BY <1>1, <1>2, AtWork DEF Request, Requests
  <1>4. Relies(Request(p))
    BY <1>1, AtWork DEF Request, Relies, MayRely
  <1> QED
    BY <1>3, <1>4

LEMMA UntouchedKeeps ==
    ASSUME IInv, Untouched, UNCHANGED <<tool, scene, strays>>
    PROVE  DatabasesOK' /\ Onward
  <1>1. TargetOK' /\ RowsOK'
    BY DEF IInv, TargetOK, CatalogHasItsHoldings, RowsOK, RowsFollow, Untouched, databases,
           Packages
  <1> QED
    BY <1>1 DEF IInv, TypeOK, DatabasesOK, Onward, Untouched, databases

\* What the three kinds of files do to the databases.
LEMMA SchemaKeeps ==
    ASSUME IInv, NEW q, q.pc = "prepare", Relies(q), ImportSchema(q.at),
           UNCHANGED <<tool, scene, strays>>
    PROVE  DatabasesOK' /\ Onward
  <1>1. q.at \in 1 .. PrepareFiles /\ tool = "compass"
    BY DEF Relies, MayRely, Schemas
  <1>2. schema' \in 0 .. PrepareFiles
    BY <1>1, StagedReleaseAssumption DEF ImportSchema
  <1>3. TargetOK' /\ RowsOK'
    BY <1>1 DEF IInv, TargetOK, CatalogHasItsHoldings, RowsOK, RowsFollow, ImportSchema,
           Packages
  <1> QED
    BY <1>2, <1>3 DEF IInv, TypeOK, DatabasesOK, Onward, ImportSchema

LEMMA ShardKeeps ==
    ASSUME IInv, NEW q, q.pc = "import", Relies(q), ImportShard(q.role, q.build, q.at),
           UNCHANGED <<tool, scene, strays>>
    PROVE  DatabasesOK' /\ Onward
  <1> DEFINE r == q.role
             s == <<q.build, q.at>>
  <1>1. /\ r \in AllRoles /\ q.build \in Packages /\ q.build \in Builds
        /\ q.at \in 1 .. ShardCount
    BY SceneFacts DEF IInv, Relies, MayRely, Importing
  <1>2. s \in Shards(q.build) /\ s \in AllShards
    BY <1>1, ShardFacts
  <1> HIDE DEF s
  <1>3. /\ s \notin journal[r] /\ s \notin rows[r]
        /\ journal' = [journal EXCEPT ![r] = @ \cup {s}]
        /\ rows' = [rows EXCEPT ![r] = @ \cup {s}]
        /\ schema' = schema /\ meta' = meta
    BY DEF ImportShard, s
  <1>4. /\ journal \in [AllRoles -> SUBSET AllShards]
        /\ rows \in [AllRoles -> SUBSET (AllShards \cup {Stray})]
    BY DEF IInv, TypeOK
  <1>5. /\ journal'[r] = journal[r] \cup {s} /\ rows'[r] = rows[r] \cup {s}
        /\ \A x \in AllRoles \ {r} : journal'[x] = journal[x] /\ rows'[x] = rows[x]
    BY <1>1, <1>3, <1>4
  <1>6. \A x \in AllRoles : journal[x] \subseteq journal'[x]
    BY <1>5
  <1>7. TargetOK'
    <2>1. \A x \in AllRoles : journal'[x] \subseteq UNION {Shards(b) : b \in Packages'}
      BY <1>1, <1>2, <1>5 DEF IInv, TargetOK, Packages
    <2>2. \A x \in AllRoles : meta'[x] # NoBuild =>
             x \in Roles(tool) /\ meta'[x] \in Packages /\ Shards(meta'[x]) \subseteq journal'[x]
      BY <1>3, <1>6 DEF IInv, TargetOK
    <2> QED
      BY <1>3, <2>1, <2>2 DEF IInv, TargetOK, CatalogHasItsHoldings, Packages
  <1>8. \A x \in AllRoles : RowsFollow(x)'
    <2> TAKE x \in AllRoles
    <2>1. RowsFollow(x)
      BY DEF IInv, RowsOK
    <2>2. CASE x # r
      BY <1>5, <2>1, <2>2 DEF RowsFollow
    <2>3. CASE x = r
      <3>1. CASE \E y \in journal[r] : rows[r] = journal[r] \ {y}
        <4>1. PICK y \in journal[r] : rows[r] = journal[r] \ {y}
          BY <3>1
        <4>2. rows'[r] = journal'[r] \ {y} /\ y \in journal'[r]
          BY <1>3, <1>5, <4>1
        <4>3. rows[r] # journal[r]
          BY <4>1
        <4>4. strays > 0
          BY <2>1, <2>3, <4>3, SceneFacts DEF RowsFollow, IInv
        <4> QED
          BY <2>3, <4>2, <4>4 DEF RowsFollow
      <3>2. CASE rows[r] = journal[r] \/ rows[r] = journal[r] \cup {Stray}
        BY <1>5, <2>1, <2>3, <3>2 DEF RowsFollow
      <3> QED
        BY <2>1, <2>3, <3>1, <3>2 DEF RowsFollow
    <2> QED
      BY <2>2, <2>3
  <1>9. /\ journal' \in [AllRoles -> SUBSET AllShards]
        /\ rows' \in [AllRoles -> SUBSET (AllShards \cup {Stray})]
    BY <1>1, <1>2, <1>3, <1>4
  <1> QED
    BY <1>3, <1>6, <1>7, <1>8, <1>9 DEF IInv, TypeOK, DatabasesOK, RowsOK, Onward

LEMMA FinalizeKeeps ==
    ASSUME IInv, NEW q, q.pc = "finalize", Relies(q), Finalize(q.role, q.build),
           UNCHANGED <<tool, scene, strays>>
    PROVE  DatabasesOK' /\ Onward
  <1> DEFINE r == q.role
             b == q.build
  <1>1. r \in Roles(tool) /\ r \in AllRoles /\ b \in Packages /\ b \in Builds /\ b # NoBuild
    BY SceneFacts DEF IInv, Relies, MayRely
  <1>2. UNCHANGED databases \/ (meta[r] = NoBuild /\ Publish(r, b))
    BY DEF Finalize, PlainFinalizer, CollectionsFinalizer
  <1>3. CASE UNCHANGED databases
    BY <1>3, UntouchedKeeps DEF Untouched
  <1>4. CASE meta[r] = NoBuild /\ Publish(r, b)
    <2>1. /\ schema' = schema /\ journal' = journal /\ rows' = rows
          /\ meta' = [meta EXCEPT ![r] = b]
          /\ meta \in [AllRoles -> Builds \cup {NoBuild}]
      BY <1>4 DEF Publish, IInv, TypeOK
    <2>2. /\ meta'[r] = b /\ \A x \in AllRoles \ {r} : meta'[x] = meta[x]
          /\ meta' \in [AllRoles -> Builds \cup {NoBuild}]
      BY <1>1, <2>1
    <2>3. Shards(b) \subseteq journal[r]
      BY <1>1 DEF Relies, MayRely, JournalsSeen
    <2>4. CatalogHasItsHoldings'
      <3>1. "catalog" \in AllRoles /\ "holdings" \in AllRoles
        BY DEF AllRoles
      <3>2. r = "catalog" => meta["holdings"] = b
        BY DEF Relies, MayRely, Activating
      <3>3. CatalogHasItsHoldings
        BY DEF IInv, TargetOK
      <3> QED
        BY <1>4, <2>2, <3>1, <3>2, <3>3 DEF CatalogHasItsHoldings
    <2>5. TargetOK'
      BY <1>1, <2>1, <2>2, <2>3, <2>4 DEF IInv, TargetOK, Packages
    <2>6. RowsOK'
      BY <2>1 DEF IInv, RowsOK, RowsFollow
    <2> QED
      BY <1>4, <2>1, <2>2, <2>5, <2>6 DEF IInv, TypeOK, DatabasesOK, Onward
  <1> QED
    BY <1>2, <1>3, <1>4

LEMMA ApplyKeeps ==
    ASSUME IInv, NEW q, Relies(q), Apply(q), UNCHANGED <<tool, scene, strays>>
    PROVE  DatabasesOK' /\ Onward
  BY SchemaKeeps, ShardKeeps, FinalizeKeeps DEF Apply

\* A step that keeps the databases and moves one process keeps everybody's grounds.
LEMMA MovesKeep ==
    ASSUME IInv, DatabasesOK', Onward,
           op' = op \/ \E p \in Operators : Advance(p),
           \A q \in orphans' : q \in orphans \/ (q \in Requests /\ Relies(q)),
           proven' \subseteq Builds, confirmed' \subseteq Builds,
           faults' \in 0 .. scene.faults, strays' \in 0 .. scene.strays
    PROVE  TypeOK' /\ ProcessesOK'
  <1>1. Packages' = Packages /\ Packages \in SUBSET Builds /\ tool' = tool
        /\ tool \in {"archive", "compass", "collections"}
    BY SceneFacts DEF Onward, Packages, IInv
  <1>2. ASSUME NEW o, Relies(o)
        PROVE  MayRely(o, tool, Packages, journal', meta')
    BY <1>1, <1>2, RelyPersists DEF Relies, Onward
  <1>3. \A q \in orphans' : q \in Requests /\ MayRely(q, tool, Packages, journal', meta')
    BY <1>2 DEF IInv, ProcessesOK, TypeOK
  <1>4. /\ op' \in [Operators -> Processes]
        /\ \A p \in Operators : MayRely(op'[p], tool, Packages, journal', meta') /\ InLoad(op'[p])
    <2>1. op \in [Operators -> Processes]
      BY DEF IInv, TypeOK
    <2>2. \A p \in Operators : MayRely(op[p], tool, Packages, journal', meta') /\ InLoad(op[p])
      BY <1>2 DEF IInv, ProcessesOK
    <2>3. CASE op' = op
      BY <2>1, <2>2, <2>3
    <2>4. CASE \E p \in Operators : Advance(p)
      <3>1. PICK p \in Operators, o \in Processes :
               /\ op' = [op EXCEPT ![p] = o]
               /\ MayRely(o, tool, Packages, journal', meta') /\ InLoad(o)
        BY <2>4 DEF Advance
      <3>2. op'[p] = o /\ \A x \in Operators \ {p} : op'[x] = op[x]
        BY <2>1, <3>1
      <3> QED
        BY <2>1, <2>2, <3>1, <3>2
    <2> QED
      BY <2>3, <2>4
  <1>5. ProcessesOK'
    BY <1>1, <1>3, <1>4 DEF ProcessesOK, Relies, InLoad
  <1>6. \A p \in Operators : /\ op'[p].pc = "prepare" => op'[p].at \in 1 .. PrepareFiles
                             /\ op'[p].pc = "import" => op'[p].at \in 1 .. ShardCount
    BY <1>4 DEF MayRely, Importing
  <1>7. TypeOK'
    BY <1>3, <1>4, <1>6 DEF IInv, TypeOK, DatabasesOK, Onward
  <1> QED
    BY <1>5, <1>7

-----------------------------------------------------------------------------
(* The steps that send a file, kill a process, or come from outside.         *)

\* A step of p that leaves the databases sound, whatever it sends.
Works(p) ==
    /\ DatabasesOK' /\ Onward /\ Advance(p)
    /\ UNCHANGED <<proven, orphans, faults, strays>> /\ confirmed' \subseteq Builds

LEMMA ReadsWorks ==
    ASSUME IInv, NEW p \in Operators, Reads(p)
    PROVE  Works(p)
  BY UntouchedKeeps DEF Reads, Works, Quietly

LEMMA SendWorks ==
    ASSUME IInv, NEW p \in Operators, NEW pc \in {"prepare", "import", "finalize"}, Send(p, pc)
    PROVE  Works(p)
  <1>1. /\ op[p].pc = pc /\ op[p].pc # "idle" /\ Relies(op[p]) /\ InLoad(op[p])
        /\ op \in [Operators -> Processes]
        /\ op[p].role \in Roles(tool) /\ op[p].build \in Packages
    BY AtWork DEF Send, At
  <1>2. /\ Relies(Request(p)) /\ UNCHANGED <<proven, orphans, faults, strays>>
        /\ UNCHANGED <<tool, scene, strays>> /\ confirmed' \subseteq Builds
    BY <1>1, RequestRelies DEF Send, Quietly, IInv, TypeOK
  <1>3. CASE Exit(p) /\ UNCHANGED databases
    BY <1>2, <1>3, ExitAdvances, UntouchedKeeps DEF Works, Untouched
  <1>4. CASE /\ Apply(Request(p))
             /\ Goto(p, CASE pc = "prepare"  -> "prepared"
                          [] pc = "import"   -> "marker"
                          [] pc = "finalize" -> "readback")
    <2>1. DatabasesOK' /\ Onward
      BY <1>2, <1>4, ApplyKeeps
    <2>2. CASE pc = "prepare"
      <3>1. To(p, "prepared", op[p].role, op[p].at)
        BY <1>1, <1>4, <2>2, GotoMoves DEF PCs
      <3>2. tool = "compass"
        BY <1>1, <2>2 DEF Relies, MayRely, Schemas
      <3>3. Advance(p)
        BY <1>1, <2>2, <3>1, <3>2, ToAdvances DEF Schemas, Importing, JournalsSeen, Activating
      <3> QED
        BY <1>2, <2>1, <3>3 DEF Works
    <2>3. CASE pc = "import"
      <3>1. To(p, "marker", op[p].role, op[p].at)
        BY <1>1, <1>4, <2>3, GotoMoves DEF PCs
      <3>2. op[p].at \in 1 .. ShardCount /\ op[p].phase = "load"
        BY <1>1, <2>3 DEF Relies, MayRely, InLoad, Importing
      <3>3. Advance(p)
        BY <1>1, <3>1, <3>2, ToAdvances DEF Schemas, Importing, JournalsSeen, Activating
      <3> QED
        BY <1>2, <2>1, <3>3 DEF Works
    <2>4. CASE pc = "finalize"
      <3>1. To(p, "readback", op[p].role, op[p].at)
        BY <1>1, <1>4, <2>4, GotoMoves DEF PCs
      <3>2. MayRely(op[p], tool, Packages, journal', meta')
        BY <1>1, <2>1, SceneFacts, RelyPersists DEF Relies, Onward, IInv
      <3>3. /\ \A r \in Roles(tool) : Shards(op[p].build) \subseteq journal'[r]
            /\ op[p].role = "catalog" => meta'["holdings"] = op[p].build
        BY <1>1, <2>4, <3>2 DEF MayRely, JournalsSeen, Activating
      <3>4. Advance(p)
        BY <1>1, <3>1, <3>3, ToAdvances DEF Schemas, Importing, JournalsSeen, Activating
      <3> QED
        BY <1>2, <2>1, <3>4 DEF Works
    <2> QED
      BY <2>2, <2>3, <2>4
  <1> QED
    BY <1>3, <1>4 DEF Send

LEMMA WorksKeeps ==
    ASSUME IInv, NEW p \in Operators, Works(p)
    PROVE  TypeOK' /\ ProcessesOK' /\ TargetOK' /\ RowsOK'
  BY MovesKeep DEF Works, DatabasesOK, IInv, TypeOK

LEMMA LoaderReads ==
    ASSUME IInv, NEW p \in Operators, Collections(p) \/ Compass(p) \/ Archive(p)
    PROVE  Reads(p)
  BY CollectionsReads, CompassReads, ArchiveReads

LEMMA StepWorks ==
    ASSUME IInv, NEW p \in Operators, Step(p)
    PROVE  Works(p)
  BY SendWorks, LoaderReads, ReadsWorks DEF Step

\* While nothing was killed, a schema that is half there is in somebody's hands.
\* A step of somebody else leaves it there.
LEMMA OthersPrepare ==
    ASSUME IInv, NEW p \in Operators, Advance(p), schema' = schema, ~Prepares(p),
           UNCHANGED <<faults, orphans>>
    PROVE  SomeonePrepares'
  <1>1. op \in [Operators -> Processes]
    BY DEF IInv, TypeOK
  <1>2. PICK o \in Processes : op' = [op EXCEPT ![p] = o]
    BY DEF Advance
  <1>3. \A x \in Operators \ {p} : op'[x] = op[x]
    BY <1>1, <1>2
  <1>4. \A x \in Operators : Prepares(x) => Prepares(x)'
    BY <1>3 DEF Prepares
  <1> QED
    BY <1>4 DEF IInv, SomeonePrepares

LEMMA SendPrepares ==
    ASSUME IInv, NEW p \in Operators, NEW pc \in {"prepare", "import", "finalize"}, Send(p, pc)
    PROVE  SomeonePrepares'
  <1>1. Advance(p) /\ UNCHANGED <<faults, orphans>> /\ op[p].pc = pc
    BY SendWorks DEF Works, Send, At
  <1>2. Request(p).pc = pc /\ Request(p).at = op[p].at
    BY <1>1 DEF Request
  <1>3. op \in [Operators -> Processes]
    BY DEF IInv, TypeOK
  <1>4. CASE pc # "prepare"
    <2>1. schema' = schema
      BY <1>2, <1>4 DEF Send, Apply, ImportShard, Finalize, PlainFinalizer,
         CollectionsFinalizer, Publish, databases
    <2>2. ~Prepares(p)
      <3>1. pc # "prepared"
        OBVIOUS
      <3> QED
        BY <1>1, <1>4, <3>1 DEF Prepares
    <2> QED
      BY <1>1, <2>1, <2>2, OthersPrepare
  <1>5. CASE pc = "prepare" /\ Rejects(Request(p)) /\ UNCHANGED databases
    <2>1. schema' = schema /\ schema # op[p].at - 1
      BY <1>2, <1>5 DEF Rejects, databases
    <2>2. schema \in Nat /\ op[p].at \in Nat
      BY <1>3, ProcessFields, StagedReleaseAssumption DEF IInv, TypeOK
    <2>3. ~Prepares(p)
      BY <1>1, <1>5, <2>1, <2>2 DEF Prepares
    <2> QED
      BY <1>1, <2>1, <2>3, OthersPrepare
  <1>6. CASE pc = "prepare" /\ Apply(Request(p)) /\ Goto(p, "prepared")
    <2>1. schema' = op[p].at
      BY <1>2, <1>6 DEF Apply, ImportSchema
    <2>2. To(p, "prepared", op[p].role, op[p].at)
      BY <1>3, <1>6, GotoMoves DEF PCs
    <2>3. op'[p].pc = "prepared" /\ op'[p].at = op[p].at
      BY <1>3, <2>2 DEF To
    <2> QED
      BY <1>1, <2>1, <2>3 DEF SomeonePrepares, Prepares, IInv
  <1> QED
    BY <1>4, <1>5, <1>6 DEF Send

LEMMA PreparedPrepares ==
    ASSUME IInv, NEW p \in Operators, CompassPrepared(p)
    PROVE  SomeonePrepares'
  <1>1. Advance(p) /\ schema' = schema /\ UNCHANGED <<faults, orphans>> /\ op[p].pc = "prepared"
    BY LoaderReads DEF Compass, CompassPrepared, At, Reads, Untouched, databases, Quietly
  <1>2. op \in [Operators -> Processes] /\ op[p].at \in Nat /\ schema \in 0 .. PrepareFiles
        /\ PrepareFiles \in Nat
    BY ProcessFields, StagedReleaseAssumption DEF IInv, TypeOK
  <1>3. CASE ~Prepares(p)
    BY <1>1, <1>3, OthersPrepare
  <1>4. CASE Prepares(p) /\ op[p].at < PrepareFiles
    <2>1. op[p].at + 1 \in 1 .. PrepareFiles
      BY <1>2, <1>4
    <2>2. op' = [op EXCEPT ![p].pc = "prepare", ![p].at = op[p].at + 1]
      BY <1>2, <1>4 DEF CompassPrepared
    <2>3. To(p, "prepare", op[p].role, op[p].at + 1)
      BY <1>2, <2>1, <2>2, PrepareMoves
    <2>4. op'[p].pc = "prepare" /\ op'[p].at = op[p].at + 1
      BY <1>2, <2>3 DEF To
    <2> QED
      BY <1>1, <1>4, <2>4 DEF SomeonePrepares, Prepares, IInv
  <1>5. CASE Prepares(p) /\ ~(op[p].at < PrepareFiles)
    BY <1>1, <1>2, <1>5 DEF SomeonePrepares, Prepares, IInv
  <1> QED
    BY <1>3, <1>4, <1>5

LEMMA LoaderPrepares ==
    ASSUME IInv, NEW p \in Operators, Collections(p) \/ Compass(p) \/ Archive(p)
    PROVE  SomeonePrepares'
  <1>1. Advance(p) /\ schema' = schema /\ UNCHANGED <<faults, orphans>>
    BY LoaderReads DEF Reads, Untouched, databases, Quietly
  <1>2. CASE tool # "compass"
    <2>1. schema \in {0, PrepareFiles}
      BY <1>2 DEF IInv, TargetOK
    <2> QED
      BY <1>1, <2>1 DEF IInv, SomeonePrepares
  <1>3. CASE CompassPrepared(p)
    BY <1>3, PreparedPrepares
  <1>4. CASE op[p].pc \notin Schemas
    BY <1>1, <1>4, OthersPrepare DEF Prepares, Schemas
  <1>5. tool = "compass" => CompassPrepared(p) \/ op[p].pc \notin Schemas
    BY DEF Collections, CollectionsInspect, CollectionsResume, CollectionsMarker,
       CollectionsCount, CollectionsVerify, CollectionsReadBack, CollectionsRecount,
       Archive, ArchiveInspect, ArchiveResume, ArchiveMarker, ArchiveVerify, ArchiveActivate,
       Compass, CompassSchema, CompassMeta, CompassResume, CompassMarker, CompassVerify,
       CompassTotals, CompassPresence, CompassActivate, At, Schemas
  <1> QED
    BY <1>2, <1>3, <1>4, <1>5

-----------------------------------------------------------------------------
(* The invariant.                                                            *)

LEMMA InitIInv == Init => IInv
  <1> SUFFICES ASSUME Init PROVE IInv
    OBVIOUS
  <1>1. TypeOK
    <2>1. schema \in 0 .. PrepareFiles
      BY StagedReleaseAssumption DEF Init
    <2>2. scene.faults \in Nat /\ scene.strays \in Nat
      BY StagedReleaseAssumption DEF Init
    <2>3. op \in [Operators -> Processes] /\ \A p \in Operators : op[p] = Idle
      BY IdleIsProcess DEF Init
    <2> QED
      BY <2>1, <2>2, <2>3, IdleIsProcess DEF Init, TypeOK
  <1>2. ProcessesOK
    BY IdleIsProcess
       DEF Init, ProcessesOK, Relies, MayRely, InLoad, Schemas, Importing, JournalsSeen, Activating
  <1>3. TargetOK
    BY DEF Init, TargetOK, CatalogHasItsHoldings, AllRoles
  <1>4. RowsOK
    BY DEF Init, RowsOK, RowsFollow
  <1>5. SomeonePrepares
    BY DEF Init, SomeonePrepares
  <1> QED
    BY <1>1, <1>2, <1>3, <1>4, <1>5 DEF IInv

LEMMA StartKeeps ==
    ASSUME IInv, NEW p \in Operators, NEW b \in Builds,
           StartLoad(p, b) \/ StartVerify(p, b) \/ StartActivate(p, b)
    PROVE  IInv'
  <1>1. Reads(p) /\ op[p].pc = "idle"
    BY StartReads DEF StartLoad, StartVerify, StartActivate, Start, At
  <1>2. SomeonePrepares'
    BY <1>1, OthersPrepare DEF Reads, Untouched, databases, Quietly, Prepares
  <1> QED
    BY <1>1, <1>2, ReadsWorks, WorksKeeps DEF IInv

LEMMA StepKeeps ==
    ASSUME IInv, NEW p \in Operators, Step(p)
    PROVE  IInv'
  <1>1. SomeonePrepares'
    BY SendPrepares, LoaderPrepares DEF Step
  <1> QED
    BY <1>1, StepWorks, WorksKeeps DEF IInv

LEMMA CrashKeeps ==
    ASSUME IInv, NEW p \in Operators, Crash(p)
    PROVE  IInv'
  <1>1. /\ Advance(p) /\ UNCHANGED <<tool, scene, strays, proven, confirmed>>
        /\ faults' = faults + 1 /\ faults' \in 0 .. scene.faults
    BY ExitAdvances, SceneFacts DEF Crash, IInv, TypeOK
  <1>2. /\ DatabasesOK' /\ Onward
        /\ \A q \in orphans' : q \in orphans \/ (q \in Requests /\ Relies(q))
    <2>1. CASE UNCHANGED databases /\ UNCHANGED orphans
      BY <1>1, <2>1, UntouchedKeeps DEF Untouched
    <2>2. CASE op[p].pc \in {"prepare", "import", "finalize"} /\ Apply(Request(p))
               /\ UNCHANGED orphans
      BY <1>1, <2>2, RequestRelies, ApplyKeeps
    <2>3. CASE op[p].pc \in {"prepare", "import", "finalize"} /\ UNCHANGED databases
               /\ orphans' = orphans \cup {Request(p)}
      BY <1>1, <2>3, RequestRelies, UntouchedKeeps DEF Untouched
    <2> QED
      BY <2>1, <2>2, <2>3 DEF Crash
  <1>3. TypeOK' /\ ProcessesOK'
    BY <1>1, <1>2, MovesKeep DEF IInv, TypeOK
  <1>4. SomeonePrepares'
    BY <1>1, SceneFacts DEF SomeonePrepares, IInv
  <1> QED
    BY <1>2, <1>3, <1>4 DEF IInv, DatabasesOK

LEMMA ArriveKeeps ==
    ASSUME IInv, NEW q \in orphans, Arrive(q)
    PROVE  IInv'
  <1>1. /\ op' = op /\ UNCHANGED <<tool, scene, strays, proven, confirmed, faults>>
        /\ orphans' \subseteq orphans /\ Relies(q)
    BY DEF Arrive, IInv, ProcessesOK
  <1>2. DatabasesOK' /\ Onward
    BY <1>1, ApplyKeeps, UntouchedKeeps DEF Arrive, Untouched
  <1>3. TypeOK' /\ ProcessesOK'
    BY <1>1, <1>2, MovesKeep DEF IInv, TypeOK
  <1>4. SomeonePrepares'
    BY <1>1 DEF SomeonePrepares, IInv
  <1> QED
    BY <1>2, <1>3, <1>4 DEF IInv, DatabasesOK

LEMMA ProveKeeps ==
    ASSUME IInv, NEW b \in Builds, Prove(b)
    PROVE  IInv'
  <1>1. /\ op' = op /\ UNCHANGED <<tool, scene, strays, confirmed, faults, orphans>>
        /\ proven' \subseteq Builds /\ Untouched
    BY DEF Prove, IInv, TypeOK, Untouched
  <1>2. DatabasesOK' /\ Onward
    BY <1>1, UntouchedKeeps
  <1>3. TypeOK' /\ ProcessesOK'
    BY <1>1, <1>2, MovesKeep DEF IInv, TypeOK
  <1>4. SomeonePrepares'
    BY <1>1 DEF SomeonePrepares, IInv, Prepares, Untouched, databases
  <1> QED
    BY <1>2, <1>3, <1>4 DEF IInv, DatabasesOK

LEMMA OutsideKeeps ==
    ASSUME IInv, NEW r \in Roles(tool), Outside(r)
    PROVE  IInv'
  <1>1. /\ op' = op /\ UNCHANGED <<tool, scene, schema, journal, meta, proven, orphans>>
        /\ UNCHANGED <<faults, confirmed>> /\ strays' = strays + 1
        /\ strays' \in 1 .. scene.strays /\ strays \in Nat /\ r \in AllRoles
    BY SceneFacts DEF Outside, IInv, TypeOK
  <1>2. \/ rows' = [rows EXCEPT ![r] = @ \cup {Stray}]
        \/ \E s \in rows[r] : rows' = [rows EXCEPT ![r] = @ \ {s}]
    BY DEF Outside
  <1>3. rows \in [AllRoles -> SUBSET (AllShards \cup {Stray})]
    BY DEF IInv, TypeOK
  <1>4. /\ rows' \in [AllRoles -> SUBSET (AllShards \cup {Stray})]
        /\ \A x \in AllRoles \ {r} : rows'[x] = rows[x]
        /\ \/ rows'[r] = rows[r] \cup {Stray}
           \/ \E s \in rows[r] : rows'[r] = rows[r] \ {s}
    BY <1>1, <1>2, <1>3
  <1>5. TargetOK'
    BY <1>1 DEF IInv, TargetOK, CatalogHasItsHoldings, Packages
  <1>6. \A x \in AllRoles : RowsFollow(x)'
    <2> TAKE x \in AllRoles
    <2>1. RowsFollow(x)
      BY DEF IInv, RowsOK
    <2>2. CASE strays > 0
      BY <1>1, <2>2 DEF RowsFollow
    <2>3. CASE ~(strays > 0)
      <3>1. rows[x] = journal[x]
        BY <1>1, <2>1, <2>3 DEF RowsFollow
      <3> QED
        BY <1>1, <1>4, <3>1 DEF RowsFollow
    <2> QED
      BY <2>2, <2>3
  <1>7. DatabasesOK' /\ Onward
    BY <1>1, <1>4, <1>5, <1>6 DEF IInv, TypeOK, DatabasesOK, Onward, RowsOK
  <1>8. TypeOK' /\ ProcessesOK'
    BY <1>1, <1>7, MovesKeep DEF IInv, TypeOK
  <1>9. SomeonePrepares'
    BY <1>1 DEF SomeonePrepares, IInv, Prepares
  <1> QED
    BY <1>7, <1>8, <1>9 DEF IInv, DatabasesOK

LEMMA StutterKeeps ==
    ASSUME IInv, UNCHANGED vars
    PROVE  IInv'
  BY DEF vars, databases, IInv, TypeOK, ProcessesOK, Relies, InLoad, Packages, TargetOK,
     CatalogHasItsHoldings, RowsOK, RowsFollow, SomeonePrepares, Prepares

LEMMA NextIInv == IInv /\ [Next]_vars => IInv'
  BY StartKeeps, StepKeeps, CrashKeeps, ArriveKeeps, ProveKeeps, OutsideKeeps, StutterKeeps
     DEF Next

\* The invariant holds for all packages, loaders, files, faults and statements.
THEOREM Invariance == Spec => []IInv
  BY InitIInv, NextIInv, PTL DEF Spec

LEMMA IInvSound == IInv => TargetsAreSound
  <1> SUFFICES ASSUME IInv PROVE TargetsAreSound
    OBVIOUS
  <1>1. ServedIsWhole
    BY StagedReleaseAssumption, SceneFacts DEF IInv, TargetOK, ServedIsWhole
  <1>2. StrandingNeedsAFault
    <2>1. CASE faults = 0
      BY <2>1 DEF IInv, SomeonePrepares, Prepares, StrandingNeedsAFault, Stranded, Preparing
    <2>2. CASE faults # 0
      BY <2>2, SceneFacts DEF IInv, StrandingNeedsAFault
    <2> QED
      BY <2>1, <2>2
  <1> QED
    BY <1>1, <1>2 DEF IInv, TargetOK, TargetsAreSound

\* Whoever loads, verifies and activates what, and whatever arrives late, is killed
\* or typed in: a database is served only with all data files of its build, the
\* catalog only with the Holdings of the same build, and only a fault strands a
\* Compass schema (inspect, verify and activate of the three loaders).
THEOREM TargetsStaySound == Spec => []TargetsAreSound
  BY Invariance, IInvSound, PTL

-----------------------------------------------------------------------------
(* What no step does.                                                        *)

\* What a step does to the databases: nothing, one file that is relied on, or a
\* statement from outside.
Unmoved == UNCHANGED databases /\ strays' = strays
Applies(q) == Relies(q) /\ Apply(q) /\ strays' = strays /\ (q.pc = "prepare" => Preparing)

LEMMA DatabaseSteps ==
    ASSUME IInv, [Next]_vars
    PROVE  /\ UNCHANGED <<tool, scene>>
           /\ Unmoved \/ (\E q : Applies(q)) \/ (\E r \in AllRoles : Outside(r))
  <1>1. ASSUME NEW p \in Operators, Reads(p)
        PROVE  UNCHANGED <<tool, scene>> /\ Unmoved
    BY <1>1 DEF Reads, Untouched, Quietly, Unmoved
  <1>2. CASE \E p \in Operators, b \in Builds :
                StartLoad(p, b) \/ StartVerify(p, b) \/ StartActivate(p, b)
    BY <1>1, <1>2, StartReads DEF StartLoad, StartVerify, StartActivate
  <1>3. ASSUME NEW p \in Operators, Step(p)
        PROVE  UNCHANGED <<tool, scene>> /\ (Unmoved \/ \E q : Applies(q))
    <2>1. CASE Collections(p) \/ Compass(p) \/ Archive(p)
      BY <1>1, <2>1, LoaderReads
    <2>2. ASSUME NEW pc \in {"prepare", "import", "finalize"}, Send(p, pc)
          PROVE  UNCHANGED <<tool, scene>> /\ (Unmoved \/ \E q : Applies(q))
      <3>1. op[p].pc = pc /\ UNCHANGED <<tool, scene, strays>> /\ Relies(Request(p))
        BY <2>2, RequestRelies DEF Send, At, Quietly
      <3>2. Request(p).pc = "prepare" => Preparing
        BY <3>1 DEF Request, Preparing
      <3> QED
        BY <2>2, <3>1, <3>2 DEF Send, Applies, Unmoved
    <2> QED
      BY <1>3, <2>1, <2>2 DEF Step
  <1>4. ASSUME NEW p \in Operators, Crash(p)
        PROVE  UNCHANGED <<tool, scene>> /\ (Unmoved \/ \E q : Applies(q))
    <2>1. UNCHANGED <<tool, scene, strays>>
      BY <1>4 DEF Crash
    <2>2. CASE UNCHANGED databases
      BY <2>1, <2>2 DEF Unmoved
    <2>3. CASE op[p].pc \in {"prepare", "import", "finalize"} /\ Apply(Request(p))
      <3>1. Request(p).pc = "prepare" => Preparing
        BY <2>3 DEF Request, Preparing
      <3> QED
        BY <2>1, <2>3, <3>1, RequestRelies DEF Applies
    <2> QED
      BY <1>4, <2>2, <2>3 DEF Crash
  <1>5. ASSUME NEW q \in orphans, Arrive(q)
        PROVE  UNCHANGED <<tool, scene>> /\ (Unmoved \/ Applies(q))
    <2>1. UNCHANGED <<tool, scene, strays>> /\ Relies(q) /\ (q.pc = "prepare" => Preparing)
      BY <1>5 DEF Arrive, IInv, ProcessesOK, Preparing
    <2> QED
      BY <1>5, <2>1 DEF Arrive, Applies, Unmoved
  <1>6. CASE \E b \in Builds : Prove(b)
    BY <1>6 DEF Prove, Unmoved
  <1>7. CASE \E r \in Roles(tool) : Outside(r)
    BY <1>7, SceneFacts DEF Outside, IInv
  <1>8. CASE UNCHANGED vars
    BY <1>8 DEF vars, Unmoved
  <1> QED
    BY <1>2, <1>3, <1>4, <1>5, <1>6, <1>7, <1>8 DEF Next

\* Markers and metadata are never taken back.
LEMMA NextOnward ==
    ASSUME IInv, [Next]_vars
    PROVE  Onward
  <1>1. UNCHANGED <<tool, scene>>
    BY DatabaseSteps
  <1>2. CASE Unmoved
    BY <1>1, <1>2, UntouchedKeeps DEF Unmoved, Untouched
  <1>3. CASE \E q : Applies(q)
    BY <1>1, <1>3, ApplyKeeps DEF Applies
  <1>4. CASE \E r \in AllRoles : Outside(r)
    BY <1>4 DEF Outside, Onward
  <1> QED
    BY <1>2, <1>3, <1>4, DatabaseSteps

\* Who takes a step: nobody, or one process.
LEMMA OneMoves ==
    ASSUME IInv, [Next]_vars
    PROVE  /\ op' = op \/ \E p \in Operators : Advance(p)
           /\ \A q \in orphans' : q \in orphans \/ \E p \in Operators : q.pc = op[p].pc
  <1>1. ASSUME NEW p \in Operators, Works(p)
        PROVE  Advance(p) /\ orphans' = orphans
    BY <1>1 DEF Works
  <1>2. CASE \E p \in Operators, b \in Builds :
                StartLoad(p, b) \/ StartVerify(p, b) \/ StartActivate(p, b)
    BY <1>1, <1>2, StartReads, ReadsWorks DEF StartLoad, StartVerify, StartActivate
  <1>3. CASE \E p \in Operators : Step(p)
    BY <1>1, <1>3, StepWorks
  <1>4. ASSUME NEW p \in Operators, Crash(p)
        PROVE  /\ Advance(p)
               /\ \A q \in orphans' : q \in orphans \/ q.pc = op[p].pc
    BY <1>4, ExitAdvances DEF Crash, Request
  <1>5. CASE \E q \in orphans : Arrive(q)
    BY <1>5 DEF Arrive
  <1>6. CASE \E b \in Builds : Prove(b)
    BY <1>6 DEF Prove
  <1>7. CASE \E r \in Roles(tool) : Outside(r)
    BY <1>7 DEF Outside
  <1>8. CASE UNCHANGED vars
    BY <1>8 DEF vars
  <1> QED
    BY <1>2, <1>3, <1>4, <1>5, <1>6, <1>7, <1>8 DEF Next

LEMMA StrandedRemains ==
    ASSUME IInv, [Next]_vars, Stranded
    PROVE  Stranded'
  <1>1. schema' = schema
    <2>1. ~Preparing
      BY DEF Stranded
    <2>2. \A q : Applies(q) => schema' = schema
      BY <2>1 DEF Applies, Apply, ImportShard, Finalize, PlainFinalizer, CollectionsFinalizer,
         Publish, databases
    <2> QED
      BY <2>2, DatabaseSteps DEF Unmoved, Outside, databases
  <1>2. \A p \in Operators : op'[p].pc \notin Schemas
    <2>1. op \in [Operators -> Processes] /\ \A p \in Operators : op[p].pc \notin Schemas
      BY DEF IInv, TypeOK, Stranded, Preparing, Schemas
    <2>2. CASE op' = op
      BY <2>1, <2>2
    <2>3. ASSUME NEW p \in Operators, Advance(p)
          PROVE  \A x \in Operators : op'[x].pc \notin Schemas
      <3>1. PICK o \in Processes :
               /\ op' = [op EXCEPT ![p] = o]
               /\ o.pc \in Schemas => schema = 0 \/ op[p].pc \in Schemas
        BY <2>3 DEF Advance
      <3>2. o.pc \notin Schemas
        BY <2>1, <3>1 DEF Stranded
      <3> QED
        BY <2>1, <3>1, <3>2
    <2> QED
      BY <2>2, <2>3, OneMoves
  <1>3. \A q \in orphans' : q.pc # "prepare"
    BY OneMoves DEF Stranded, Preparing
  <1> QED
    BY <1>1, <1>2, <1>3 DEF Stranded, Preparing, Schemas

\* With at most one statement from outside, as many rows as data files, with all
\* their markers, are the rows of the build.
LEMMA CountIsExact ==
    ASSUME IInv, scene.strays <= 1, NEW b \in Builds, NEW r \in AllRoles,
           journal[r] = Shards(b), Cardinality(rows[r]) = ShardCount
    PROVE  rows[r] = Shards(b)
  <1>1. /\ IsFiniteSet(Shards(b)) /\ Cardinality(Shards(b)) = ShardCount
        /\ Shards(b) \subseteq AllShards /\ Stray \notin Shards(b)
    BY ShardFacts, StrayIsForeign
  <1>2. ShardCount \in Nat
    BY StagedReleaseAssumption
  <1>3. ~(strays > 1) /\ RowsFollow(r)
    BY SceneFacts DEF IInv, TypeOK, RowsOK
  <1>4. CASE \E s \in journal[r] : rows[r] = journal[r] \ {s}
    <2>1. PICK s \in Shards(b) : rows[r] = Shards(b) \ {s}
      BY <1>4
    <2>2. Cardinality(rows[r]) = ShardCount - 1
      BY <1>1, <2>1, FS_RemoveElement
    <2> QED
      BY <1>2, <2>2
  <1>5. CASE rows[r] = journal[r] \cup {Stray}
    <2>1. rows[r] = Shards(b) \cup {Stray}
      BY <1>5
    <2>2. Cardinality(rows[r]) = ShardCount + 1
      BY <1>1, <2>1, FS_AddElement
    <2> QED
      BY <1>2, <2>2
  <1> QED
    BY <1>3, <1>4, <1>5 DEF RowsFollow

LEMMA ReleasesAreExact ==
    ASSUME IInv, [Next]_vars, scene.strays <= 1
    PROVE  ReleasesExactly
  <1> SUFFICES ASSUME tool = "collections", NEW b \in Builds,
                      meta["collections"] = NoBuild, meta'["collections"] = b
               PROVE  rows["collections"] = Shards(b)
    BY DEF ReleasesExactly
  <1>1. meta'["collections"] # meta["collections"]
    BY StagedReleaseAssumption
  <1>2. PICK q : Applies(q)
    BY <1>1, DatabaseSteps DEF Unmoved, Outside, databases
  <1>3. CollectionsFinalizer(q.role, q.build) /\ q.role \in Roles(tool)
    BY <1>1, <1>2 DEF Applies, Apply, ImportSchema, ImportShard, Finalize, Relies, MayRely
  <1>4. q.role = "collections"
    BY <1>3 DEF Roles
  <1>5. /\ journal["collections"] = Shards(q.build)
        /\ Cardinality(rows["collections"]) = ShardCount
        /\ meta' = [meta EXCEPT !["collections"] = q.build]
    BY <1>1, <1>3, <1>4 DEF CollectionsFinalizer, Publish, databases
  <1>6. "collections" \in AllRoles /\ meta \in [AllRoles -> Builds \cup {NoBuild}]
    BY DEF AllRoles, IInv, TypeOK
  <1>7. q.build = b
    BY <1>5, <1>6
  <1> QED
    BY <1>5, <1>6, <1>7, CountIsExact

\* A stranded target stays so: nothing the Compass loader offers brings it back.
THEOREM StrandedStays == Spec => [][Stranded => Stranded']_vars
  <1>1. IInv /\ [Next]_vars => [Stranded => Stranded']_vars
    BY StrandedRemains
  <1> QED
    BY <1>1, Invariance, PTL DEF Spec

\* Where at most one statement is typed from outside, nothing brings a stranded target
\* back and a Collections database is released only when its rows are exactly those of
\* the build.  Two statements that cancel out would pass the counts of the finalizer.
THEOREM GuardsAreKept == Spec /\ scene.strays <= 1 => GuardsHold
  <1> DEFINE Calm == IInv /\ scene.strays <= 1
  <1>1. Init /\ scene.strays <= 1 => Calm
    BY InitIInv
  <1>2. Calm /\ [Next]_vars => Calm'
    BY NextIInv, NextOnward DEF Onward
  <1>3. Calm /\ [Next]_vars => [(Stranded => Stranded') /\ ReleasesExactly]_vars
    BY StrandedRemains, ReleasesAreExact
  <1> QED
    BY <1>1, <1>2, <1>3, PTL DEF Spec, GuardsHold

-----------------------------------------------------------------------------
(* The gates.                                                                *)

\* What a gate shows is what its metadata stands for.
LEMMA ServedIsContent ==
    ASSUME IInv, Undisturbed, NEW r \in AllRoles, meta[r] # NoBuild
    PROVE  meta[r] \in Builds /\ rows[r] = Shards(meta[r])
  <1>1. strays = 0
    BY SceneFacts DEF IInv, TypeOK, Undisturbed
  <1>2. rows[r] = journal[r]
    BY <1>1 DEF IInv, RowsOK, RowsFollow
  <1>3. meta[r] \in Packages /\ Shards(meta[r]) \subseteq journal[r] /\ meta[r] \in Builds
    BY SceneFacts DEF IInv, TargetOK
  <1>4. Packages = {meta[r]}
    <2>1. IsFiniteSet(Packages) /\ Cardinality(Packages) = 1
      BY SceneFacts, StagedReleaseAssumption, FS_Subset DEF IInv, Undisturbed, Packages
    <2> QED
      BY <1>3, <2>1, FS_Singleton
  <1>5. journal[r] \subseteq Shards(meta[r])
    BY <1>4 DEF IInv, TargetOK
  <1> QED
    BY <1>2, <1>3, <1>5

LEMMA ContentOf ==
    ASSUME NEW b \in Builds
    PROVE  /\ \A r : Content({r})[b] = {<<r, s>> : s \in Shards(b)}
           /\ Content({"catalog", "holdings"})[b] =
                 {<<"catalog", s>> : s \in Shards(b)} \cup {<<"holdings", s>> : s \in Shards(b)}
  <1> DEFINE Of(x) == {<<x, s>> : s \in Shards(b)}
  <1>1. /\ \A r : Content({r})[b] = UNION {Of(x) : x \in {r}}
        /\ Content({"catalog", "holdings"})[b] = UNION {Of(x) : x \in {"catalog", "holdings"}}
    BY DEF Content
  <1> HIDE DEF Of
  <1>2. /\ \A r : UNION {Of(x) : x \in {r}} = Of(r)
        /\ UNION {Of(x) : x \in {"catalog", "holdings"}} = Of("catalog") \cup Of("holdings")
    OBVIOUS
  <1> QED
    BY <1>1, <1>2 DEF Of

GateView ==
    /\ \A r \in AllRoles : Served(r) = IF Released(r) = NoBuild THEN {}
                                       ELSE Content({r})[Released(r)]
    /\ ArchiveServed = IF Released("catalog") = NoBuild THEN {}
                       ELSE Content({"catalog", "holdings"})[Released("catalog")]

LEMMA GateViews == IInv => GateView
  <1> SUFFICES ASSUME IInv PROVE GateView
    OBVIOUS
  <1>1. ASSUME NEW r \in AllRoles, Released(r) # NoBuild
        PROVE  /\ Undisturbed /\ Released(r) = meta[r] /\ meta[r] # NoBuild
               /\ Released(r) \in Builds /\ Served(r) = {<<r, s>> : s \in Shards(Released(r))}
    BY <1>1, ServedIsContent DEF Released, Served
  <1>2. \A r \in AllRoles : Served(r) = IF Released(r) = NoBuild THEN {}
                                        ELSE Content({r})[Released(r)]
    BY <1>1, ContentOf DEF Served
  <1>3. "catalog" \in AllRoles /\ "holdings" \in AllRoles
    BY DEF AllRoles
  <1>4. Released("catalog") = NoBuild => ArchiveServed = {}
    BY DEF ArchiveServed, Served
  <1>5. ASSUME Released("catalog") # NoBuild
        PROVE  ArchiveServed = Content({"catalog", "holdings"})[Released("catalog")]
    <2>1. Released("holdings") = Released("catalog")
      BY <1>1, <1>3, <1>5 DEF Released, IInv, TargetOK, CatalogHasItsHoldings
    <2>2. ArchiveServed = {<<"catalog", s>> : s \in Shards(Released("catalog"))} \cup
                          {<<"holdings", s>> : s \in Shards(Released("catalog"))}
      BY <1>1, <1>3, <1>5, <2>1 DEF ArchiveServed
    <2>3. Released("catalog") \in Builds
      BY <1>1, <1>3, <1>5
    <2>4. \A b \in Builds : Content({"catalog", "holdings"})[b] =
             {<<"catalog", s>> : s \in Shards(b)} \cup {<<"holdings", s>> : s \in Shards(b)}
      <3> TAKE b \in Builds
      <3> QED
        BY ContentOf
    <2> QED
      BY <2>2, <2>3, <2>4
  <1> QED
    BY <1>2, <1>4, <1>5 DEF GateView

\* A gate opens once.
LEMMA GateSteps ==
    ASSUME IInv, IInv', Onward, NEW r \in AllRoles
    PROVE  \/ Released(r)' = Released(r)
           \/ Released(r) = NoBuild /\ Released(r)' \in Builds
  BY DEF Onward, Released, Undisturbed, IInv, TypeOK

\* For any build package, once it is the only one and nobody types statements: each
\* database goes from nothing to exactly its build in one step and stays so, and the
\* two of the archive do so together, as the Worker sees them.
THEOREM GatesAreImplemented == Spec => ImplementsGates
  <1>1. Init => ArchiveGate!Init /\ CompassGate!Init /\ CollectionsGate!Init
    BY DEF Init, ArchiveGate!Init, CompassGate!Init, CollectionsGate!Init, Released, Served,
           ArchiveServed, AllRoles
  <1>2. IInv /\ GateView /\ GateView' /\ [Next]_vars =>
           /\ [ArchiveGate!Next]_(ArchiveGate!vars)
           /\ [CompassGate!Next]_(CompassGate!vars)
           /\ [CollectionsGate!Next]_(CollectionsGate!vars)
    <2> SUFFICES ASSUME IInv, GateView, GateView', [Next]_vars
                 PROVE  /\ [ArchiveGate!Next]_(ArchiveGate!vars)
                        /\ [CompassGate!Next]_(CompassGate!vars)
                        /\ [CollectionsGate!Next]_(CollectionsGate!vars)
      OBVIOUS
    <2>1. \A r \in AllRoles : \/ Released(r)' = Released(r)
                              \/ Released(r) = NoBuild /\ Released(r)' \in Builds
      BY NextIInv, NextOnward, GateSteps
    <2>2. NoBuild \notin Builds
      BY StagedReleaseAssumption
    <2>3. [ArchiveGate!Next]_(ArchiveGate!vars)
      <3>1. CASE Released("catalog")' = Released("catalog")
        BY <3>1 DEF GateView, ArchiveGate!vars
      <3>2. CASE Released("catalog") = NoBuild /\ Released("catalog")' \in Builds
        <4>1. ArchiveGate!Publish(Released("catalog")')
          BY <2>2, <3>2 DEF GateView, ArchiveGate!Publish
        <4> QED
          BY <3>2, <4>1 DEF ArchiveGate!Next
      <3> QED
        BY <2>1, <3>1, <3>2 DEF AllRoles
    <2>4. [CompassGate!Next]_(CompassGate!vars)
      <3>1. CASE Released("compass")' = Released("compass")
        BY <3>1 DEF GateView, AllRoles, CompassGate!vars
      <3>2. CASE Released("compass") = NoBuild /\ Released("compass")' \in Builds
        <4>1. CompassGate!Publish(Released("compass")')
          BY <2>2, <3>2 DEF GateView, AllRoles, CompassGate!Publish
        <4> QED
          BY <3>2, <4>1 DEF CompassGate!Next
      <3> QED
        BY <2>1, <3>1, <3>2 DEF AllRoles
    <2>5. [CollectionsGate!Next]_(CollectionsGate!vars)
      <3>1. CASE Released("collections")' = Released("collections")
        BY <3>1 DEF GateView, AllRoles, CollectionsGate!vars
      <3>2. CASE Released("collections") = NoBuild /\ Released("collections")' \in Builds
        <4>1. CollectionsGate!Publish(Released("collections")')
          BY <2>2, <3>2 DEF GateView, AllRoles, CollectionsGate!Publish
        <4> QED
          BY <3>2, <4>1 DEF CollectionsGate!Next
      <3> QED
        BY <2>1, <3>1, <3>2 DEF AllRoles
    <2> QED
      BY <2>3, <2>4, <2>5
  <1> QED
    BY <1>1, <1>2, Invariance, GateViews, PTL
       DEF Spec, ImplementsGates, ArchiveGate!Spec, CompassGate!Spec, CollectionsGate!Spec
==============================================================================
