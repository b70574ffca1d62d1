-------------------------- MODULE MomentsD1_proofs ---------------------------
(***************************************************************************)
(* The release gate for any packages, any number of loaders, faults and    *)
(* outside statements.  Every step of Spec is, on the target, one of the   *)
(* changes listed in TargetStep; that makes the proofs about the target    *)
(* independent of the loader's many read steps.                            *)
(***************************************************************************)
EXTENDS MomentsD1, FiniteSetTheorems, SequenceTheorems, TLAPS

-----------------------------------------------------------------------------
(* The inductive invariant.                                                  *)

\* Places a loader reaches only after it saw the complete schema ...
SchemaSeen == {"l_journal", "l_counts", "l_meta", "l_plan", "import", "l_marker",
               "l_newplan", "l_newcounts", "v_journal", "v_counts", "v_plan",
               "v_meta", "v_projection", "write_report", "stamp", "pending",
               "publish", "readback"}
\* ... and only after it saw the complete journal of its build.
JournalSeen == {"v_counts", "v_plan", "v_meta", "v_projection", "write_report",
                "stamp", "pending", "publish", "readback"}

\* What a loader, or a request it left behind, may rely on in a target with
\* schema sch and journal M.
MayRely(o, sch, M) ==
    /\ o.pc # "idle" => o.build \in Builds
    /\ o.pc = "prepare" => o.at \in 0 .. 2
    /\ o.pc \in SchemaSeen => sch = 3
    /\ o.pc = "import" => /\ o.at \in 1 .. Len(Plan[o.build])
                          /\ o.at = 1 \/ <<o.build, 1>> \in M
    /\ o.pc \in JournalSeen => Shards(o.build) \subseteq M

ProcessOK(o) == MayRely(o, schema, markers)

ProcessesOK == /\ \A p \in Operators : ProcessOK(op[p]) /\ op[p].seen \subseteq markers
               /\ \A o \in orphans : ProcessOK(o)

TargetTypes ==
    /\ schema \in 0 .. 3
    /\ markers \subseteq AllShards \cup {Stray}
    /\ plan \in Builds \cup {NoBuild}
    /\ loaded \in [SourceTables -> Nat]
    /\ rows \in [SourceTables -> SUBSET Row]
    /\ meta \in [staged : Builds \cup {NoBuild}, binding : Bindings, ready : BOOLEAN]
    /\ suppressed \subseteq Moments

ProcessTypes ==
    /\ report \in [Builds -> Nat]
    /\ op \in [Operators -> Processes]
    /\ orphans \subseteq Requests
    /\ faults \in Nat /\ strays \in Nat

Finite == IsFiniteSet(markers) /\ \A t \in SourceTables : IsFiniteSet(rows[t])

\* What a marker promises is in the target.
Journaled ==
    \A s \in markers \ {Stray} :
        /\ ShardTable(s) \in SourceTables => ShardRows(s) \subseteq rows[ShardTable(s)]
        /\ ShardTable(s) = PlanTable => plan # NoBuild
        /\ ShardTable(s) = MetaTable => meta.staged # NoBuild

\* An open gate: the exact build, and no counter with room for a row.
Released ==
    /\ ReadyIsExactBuild
    /\ meta.ready => /\ schema = 3
                     /\ plan # NoBuild
                     /\ meta.binding # NoBinding
                     /\ \A t \in SourceTables : loaded[t] = Expected(plan, t)
    /\ ~meta.ready => suppressed = {}

TargetInv == TargetTypes /\ Finite /\ Journaled /\ Released
IInv == TargetInv /\ ProcessTypes /\ ProcessesOK

-----------------------------------------------------------------------------
(* Facts about packages.                                                     *)

LEMMA TablesDiffer ==
    PlanTable \notin SourceTables /\ MetaTable \notin SourceTables /\ PlanTable # MetaTable
  BY DEF PlanTable, MetaTable, SourceTables

LEMMA ShardFacts ==
    ASSUME NEW b \in Builds, NEW i \in 1 .. Len(Plan[b])
    PROVE  /\ ShardTable(<<b, i>>) \in Tables
           /\ ShardRows(<<b, i>>) \in SUBSET Row
           /\ <<b, i>> \in AllShards /\ <<b, i>> # Stray /\ <<b, i>> \in Shards(b)
           /\ ShardTable(<<b, i>>) \in SourceTables =>
                 /\ ShardRows(<<b, i>>) # {}
                 /\ IsFiniteSet(ShardRows(<<b, i>>))
  <1>1. Plan[b] \in Seq([table : Tables, rows : SUBSET Row]) /\ IsPackage(Plan[b])
    BY PlanAssumption
  <1>2. Plan[b][i] \in [table : Tables, rows : SUBSET Row]
    BY <1>1, ElementOfSeq
  <1>3. ShardTable(<<b, i>>) = Plan[b][i].table /\ ShardRows(<<b, i>>) = Plan[b][i].rows
    BY DEF ShardTable, ShardRows
  <1>4. <<b, i>> \in AllShards /\ <<b, i>> # Stray /\ <<b, i>> \in Shards(b)
    BY PlanAssumption DEF AllShards, Shards, Stray
  <1> QED
    BY <1>1, <1>2, <1>3, <1>4 DEF IsPackage

\* Every package has a plan shard and a metadata shard.
LEMMA EndShards ==
    ASSUME NEW b \in Builds
    PROVE  \E i, j \in 1 .. Len(Plan[b]) :
              ShardTable(<<b, i>>) = PlanTable /\ ShardTable(<<b, j>>) = MetaTable
  <1>1. IsPackage(Plan[b]) /\ Len(Plan[b]) \in Nat
    BY PlanAssumption
  <1>2. 1 \in 1 .. Len(Plan[b]) /\ Len(Plan[b]) \in 1 .. Len(Plan[b])
    BY <1>1 DEF IsPackage
  <1> QED
    BY <1>1, <1>2 DEF IsPackage, ShardTable

\* A package has as many shards as entries.
LEMMA ShardCount ==
    ASSUME NEW b \in Builds
    PROVE  IsFiniteSet(Shards(b)) /\ Cardinality(Shards(b)) = Len(Plan[b])
  <1> DEFINE I == 1 .. Len(Plan[b])
             f == [i \in I |-> <<b, i>>]
  <1>1. Len(Plan[b]) \in Nat
    BY PlanAssumption
  <1>2. IsFiniteSet(I) /\ Cardinality(I) = Len(Plan[b])
    BY <1>1, FS_Interval
  <1>3. f \in Bijection(I, Shards(b))
    BY DEF Bijection, Injection, Surjection, IsInjective, Shards
  <1>4. ExistsBijection(I, Shards(b))
    BY <1>3 DEF ExistsBijection
  <1> QED
    BY <1>2, <1>4, FS_Bijection

LEMMA BuildRowsAreRows ==
    ASSUME NEW b \in Builds, NEW t \in SourceTables, NEW r \in BuildRows(b, t)
    PROVE  r \in RowsOf(t)
  <1>1. PICK s \in Shards(b) : ShardTable(s) = t /\ r \in ShardRows(s)
    BY DEF BuildRows, CarriedRows
  <1>2. PICK i \in 1 .. Len(Plan[b]) : s = <<b, i>>
    BY <1>1 DEF Shards
  <1> QED
    BY <1>1, <1>2, PlanAssumption DEF IsPackage, ShardTable, ShardRows

\* A journal that holds a whole package has its rows in the tables.
LEMMA JournalHoldsBuild ==
    ASSUME TargetInv, NEW b \in Builds, Shards(b) \subseteq markers,
           NEW t \in SourceTables
    PROVE  BuildRows(b, t) \subseteq rows[t]
  <1> SUFFICES ASSUME NEW r \in BuildRows(b, t) PROVE r \in rows[t]
    OBVIOUS
  <1>1. PICK s \in Shards(b) : ShardTable(s) = t /\ r \in ShardRows(s)
    BY DEF BuildRows, CarriedRows
  <1>2. PICK i \in 1 .. Len(Plan[b]) : s = <<b, i>>
    BY <1>1 DEF Shards
  <1> QED
    BY <1>1, <1>2, ShardFacts DEF TargetInv, Journaled

-----------------------------------------------------------------------------
(* Every step of the specification is one of these changes of the target.    *)

Untouched == UNCHANGED target
SchemaFile == \E i \in 0 .. 2 : ImportSchema(i)
DataFile ==
    /\ schema = 3
    /\ \E b \in Builds : \E i \in 1 .. Len(Plan[b]) :
          ImportData(b, i) /\ (i = 1 \/ <<b, 1>> \in markers)
Binding ==
    \E b \in Builds, r \in Nat :
        schema = 3 /\ Shards(b) \subseteq markers /\ InsertBinding(b, r)
Opening ==
    \E b \in Builds, r \in Nat :
        schema = 3 /\ Shards(b) \subseteq markers /\ SetReady(b, r)
OutsideRow ==
    /\ schema = 3
    /\ \E t \in SourceTables : \E r \in RowsOf(t) : InsertRows(t, {r})
    /\ strays' = strays + 1
    /\ UNCHANGED <<schema, markers, plan, meta, suppressed>>
OutsideMarker ==
    /\ markers' = markers \cup {Stray}
    /\ strays' = strays + 1
    /\ UNCHANGED <<schema, plan, loaded, rows, meta, suppressed>>
Takedown ==
    /\ \E m \in Moments : meta.ready /\ suppressed' = suppressed \cup {m}
    /\ UNCHANGED <<schema, markers, plan, loaded, rows, meta>>

TargetStep ==
    \/ Untouched \/ SchemaFile \/ DataFile \/ Binding \/ Opening
    \/ OutsideRow \/ OutsideMarker \/ Takedown

\* A request that D1 carries out is one of them when its sender may rely on
\* what ProcessOK says.
LEMMA ExecuteIsTargetStep ==
    ASSUME NEW o, ProcessOK(o), o.report \in Nat,
           o.pc \in {"prepare", "import", "stamp", "publish"},
           NEW i, o.pc \in {"prepare", "import"} => i = o.at,
           NEW r \in Nat,
           Execute(o.pc, o.build, i, r)
    PROVE  TargetStep
  <1>1. CASE o.pc = "prepare"
    BY <1>1 DEF Execute, ProcessOK, MayRely, TargetStep, SchemaFile
  <1>2. CASE o.pc = "import"
    BY <1>2 DEF Execute, ProcessOK, MayRely, SchemaSeen, TargetStep, DataFile
  <1>3. CASE o.pc = "stamp"
    BY <1>3 DEF Execute, ProcessOK, MayRely, SchemaSeen, JournalSeen, TargetStep, Binding
  <1>4. CASE o.pc = "publish"
    BY <1>4 DEF Execute, ProcessOK, MayRely, SchemaSeen, JournalSeen, TargetStep, Opening
  <1> QED
    BY <1>1, <1>2, <1>3, <1>4

LEMMA NextIsTargetStep ==
    ASSUME ProcessTypes, ProcessesOK, [Next]_vars
    PROVE  TargetStep
  <1> USE DEF At, ReadOnly
  <1>1. CASE UNCHANGED vars
    BY <1>1 DEF vars, target, TargetStep, Untouched
  <1>2. ASSUME NEW p \in Operators, Start(p) PROVE TargetStep
    BY <1>2 DEF Start, StartLoad, StartVerify, StartActivate, TargetStep, Untouched
  <1>3. ASSUME NEW p \in Operators, LoadStep(p) PROVE TargetStep
    <2> USE <1>3
    <2>1. op[p].report \in Nat /\ op[p].at \in Nat /\ ProcessOK(op[p])
      BY DEF ProcessTypes, ProcessesOK, Processes
    <2>2. CASE ImportPrepare(p)
      BY <2>1, <2>2, ExecuteIsTargetStep DEF ImportPrepare, TargetStep, Untouched
    <2>3. CASE ImportShard(p)
      BY <2>1, <2>3, ExecuteIsTargetStep DEF ImportShard, TargetStep, Untouched
    <2> QED
      BY <2>2, <2>3 DEF LoadStep, CheckPrepared, ReadJournal, ReadCounts, ReadLoadMeta,
         ReadPlan, ReadMarker, ReadNewPlan, ReadNewCounts, TargetStep, Untouched
  <1>4. ASSUME NEW p \in Operators, VerifyStep(p) PROVE TargetStep
    BY <1>4 DEF VerifyStep, VerifySchema, VerifyJournal, VerifyCounts, VerifyPlan,
       VerifyMeta, VerifyProjection, WriteReport, TargetStep, Untouched
  <1>5. ASSUME NEW p \in Operators, ActivateStep(p) PROVE TargetStep
    <2> USE <1>5
    <2>1. op[p].report \in Nat /\ op[p].at \in Nat /\ ProcessOK(op[p])
      BY DEF ProcessTypes, ProcessesOK, Processes
    <2>2. CASE Stamp(p)
      BY <2>1, <2>2, ExecuteIsTargetStep DEF Stamp, TargetStep, Untouched
    <2>3. CASE Publish(p)
      BY <2>1, <2>3, ExecuteIsTargetStep DEF Publish, TargetStep, Untouched
    <2> QED
      BY <2>2, <2>3 DEF ActivateStep, ReadActivateMeta, ReadPending, ReadBack,
         TargetStep, Untouched
  <1>6. CASE Environment
    <2>1. ASSUME NEW p \in Operators, Crash(p) PROVE TargetStep
      BY <2>1 DEF Crash, TargetStep, Untouched
    <2>2. ASSUME NEW o \in orphans, Arrive(o) PROVE TargetStep
      BY <2>2, ExecuteIsTargetStep
         DEF Arrive, ProcessTypes, ProcessesOK, Requests, TargetStep, Untouched
    <2>3. ASSUME NEW t \in SourceTables, NEW b \in Builds, NEW r \in BuildRows(b, t),
                 StrayRow(t, r)
          PROVE  TargetStep
      BY <2>3, BuildRowsAreRows DEF StrayRow, TargetStep, OutsideRow
    <2>4. CASE StrayMarker
      BY <2>4 DEF StrayMarker, TargetStep, OutsideMarker
    <2>5. ASSUME NEW m \in Moments, Suppress(m) PROVE TargetStep
      BY <2>5 DEF Suppress, TargetStep, Takedown
    <2> QED
      BY <1>6, <2>1, <2>2, <2>3, <2>4, <2>5 DEF Environment
  <1> QED
    BY <1>1, <1>2, <1>3, <1>4, <1>5, <1>6 DEF Next, Step

-----------------------------------------------------------------------------
(* The invariant of the target is preserved by every change of it.           *)

LEMMA RowsAreCounted ==
    ASSUME TargetInv, NEW t \in SourceTables, NEW rs, rs # {}, IsFiniteSet(rs),
           meta.ready
    PROVE  ~FitsPlan(t, rs)
  <1>1. Cardinality(rs) \in Nat /\ Cardinality(rs) # 0
    BY FS_CardinalityType, FS_EmptySet
  <1>2. loaded[t] = Expected(plan, t) /\ loaded[t] \in Nat
    BY DEF TargetInv, TargetTypes, Released
  <1> QED
    BY <1>1, <1>2 DEF FitsPlan

\* Nothing but a takedown or a forged journal row touches an open target.
LEMMA OpenTargetRejects ==
    ASSUME TargetInv, meta.ready, TargetStep
    PROVE  Untouched \/ OutsideMarker \/ Takedown
  <1>1. ~SchemaFile
    BY DEF SchemaFile, ImportSchema, TargetInv, Released
  <1>2. ~DataFile
    <2> SUFFICES ASSUME NEW b \in Builds, NEW i \in 1 .. Len(Plan[b]),
                        ImportData(b, i)
                 PROVE  FALSE
      BY DEF DataFile
    <2>1. plan # NoBuild /\ meta.staged # NoBuild
      BY PlanAssumption DEF TargetInv, Released, ReadyIsExactBuild
    <2>2. CASE ImportSourceShard(b, i)
      BY <2>2, ShardFacts, RowsAreCounted DEF ImportSourceShard, InsertRows
    <2> QED
      BY <2>1, <2>2 DEF ImportData, ImportPlanShard, ImportMetaShard
  <1>3. ~Binding
    BY DEF Binding, InsertBinding, TargetInv, Released
  <1>4. ~Opening
    BY DEF Opening, SetReady, GateOpen
  <1>5. ~OutsideRow
    BY RowsAreCounted, FS_Singleton DEF OutsideRow, InsertRows
  <1> QED
    BY <1>1, <1>2, <1>3, <1>4, <1>5 DEF TargetStep

\* The gate opens only on the exact build.
LEMMA OpeningIsExact ==
    ASSUME TargetInv, NEW b \in Builds, NEW r \in Nat,
           Shards(b) \subseteq markers, GateOpen(b, r)
    PROVE  /\ markers = Shards(b)
           /\ plan # NoBuild
           /\ meta.staged = b
           /\ meta.binding # NoBinding
           /\ \A t \in SourceTables : /\ rows[t] = BuildRows(b, t)
                                      /\ loaded[t] = Expected(plan, t)
  <1>1. markers = Shards(b)
    BY ShardCount, FS_Subset DEF GateOpen, TargetInv, Finite
  <1>2. ASSUME NEW t \in SourceTables PROVE rows[t] = BuildRows(b, t)
    <2>1. BuildRows(b, t) \in SUBSET rows[t] /\ IsFiniteSet(rows[t])
      BY JournalHoldsBuild DEF TargetInv, Finite
    <2>2. Cardinality(rows[t]) = Cardinality(BuildRows(b, t))
      BY DEF GateOpen, CountsMatch, Expected
    <2> QED
      BY <2>1, <2>2, FS_Subset
  <1>3. meta.binding # NoBinding
    BY PlanAssumption DEF GateOpen, NoBinding
  <1> QED
    BY <1>1, <1>2, <1>3 DEF GateOpen, PlanCounts

LEMMA TargetInvariant ==
    ASSUME TargetInv, TargetStep
    PROVE  TargetInv'
  <1>1. CASE Untouched
    BY <1>1 DEF Untouched, target, TargetInv, TargetTypes, Finite, Journaled, Released,
       ReadyIsExactBuild
  <1>2. CASE SchemaFile
    <2>1. ~meta.ready
      BY <1>2 DEF SchemaFile, ImportSchema, TargetInv, Released
    <2> QED
      BY <1>2, <2>1 DEF SchemaFile, ImportSchema, TargetInv, TargetTypes, Finite, Journaled,
         Released, ReadyIsExactBuild
  <1>3. CASE DataFile
    <2>0. PICK b \in Builds : \E i \in 1 .. Len(Plan[b]) : ImportData(b, i)
      BY <1>3 DEF DataFile
    <2>1. PICK i \in 1 .. Len(Plan[b]) : ImportData(b, i)
      BY <2>0
    <2>2. ~meta.ready
      <3>1. SUFFICES ASSUME meta.ready PROVE FALSE
        OBVIOUS
      <3>2. Untouched \/ OutsideMarker \/ Takedown
        BY <3>1, OpenTargetRejects
      <3>3. markers' = markers \cup {<<b, i>>} /\ <<b, i>> \notin markers /\ <<b, i>> # Stray
        BY <2>1, ShardFacts
           DEF ImportData, ImportPlanShard, ImportSourceShard, ImportMetaShard, Journal
      <3> QED
        BY <3>2, <3>3 DEF Untouched, target, OutsideMarker, Takedown
    <2>3. IsFiniteSet(markers')
      BY <2>1, FS_AddElement DEF TargetInv, Finite, ImportData, ImportPlanShard,
         ImportSourceShard, ImportMetaShard, Journal
    <2>4. CASE ImportPlanShard(b, i)
      <3>1. /\ markers' = markers \cup {<<b, i>>}
            /\ plan' = b /\ ShardTable(<<b, i>>) = PlanTable
            /\ UNCHANGED <<schema, loaded, rows, meta, suppressed>>
        BY <2>4 DEF ImportPlanShard, Journal
      <3>2. <<b, i>> \in AllShards /\ b # NoBuild
        BY ShardFacts, PlanAssumption
      <3>3. TargetTypes'
        BY <3>1, <3>2 DEF TargetInv, TargetTypes
      <3>4. Journaled'
        BY <3>1, <3>2, TablesDiffer DEF TargetInv, TargetTypes, Journaled
      <3>5. Finite' /\ Released'
        BY <2>2, <2>3, <3>1 DEF TargetInv, TargetTypes, Finite, Released, ReadyIsExactBuild
      <3> QED
        BY <3>3, <3>4, <3>5 DEF TargetInv
    <2>5. CASE ImportSourceShard(b, i)
      <3> DEFINE t == ShardTable(<<b, i>>)
                 rs == ShardRows(<<b, i>>)
      <3>1. /\ t \in SourceTables /\ rs \in SUBSET Row /\ IsFiniteSet(rs)
            /\ Cardinality(rs) \in Nat
            /\ <<b, i>> \in AllShards
        BY <2>5, ShardFacts, FS_CardinalityType DEF ImportSourceShard
      <3>2. /\ rows' = [rows EXCEPT ![t] = @ \cup rs]
            /\ loaded' = [loaded EXCEPT ![t] = @ + Cardinality(rs)]
            /\ markers' = markers \cup {<<b, i>>}
            /\ UNCHANGED <<schema, plan, meta, suppressed>>
        BY <2>5 DEF ImportSourceShard, InsertRows, Journal
      <3> HIDE DEF t, rs
      <3>3. TargetTypes'
        BY <3>1, <3>2 DEF TargetInv, TargetTypes
      <3>4. Finite'
        BY <2>3, <3>1, <3>2, FS_Union DEF TargetInv, TargetTypes, Finite
      <3>5. Journaled'
        <4> SUFFICES ASSUME NEW s \in markers' \ {Stray}
                     PROVE  /\ ShardTable(s) \in SourceTables =>
                                  ShardRows(s) \subseteq rows'[ShardTable(s)]
                            /\ ShardTable(s) = PlanTable => plan' # NoBuild
                            /\ ShardTable(s) = MetaTable => meta'.staged # NoBuild
          BY DEF Journaled
        <4>1. CASE s = <<b, i>>
          BY <3>1, <3>2, <4>1, TablesDiffer DEF TargetInv, TargetTypes, t, rs
        <4>2. CASE s \in markers
          BY <3>1, <3>2, <4>2 DEF TargetInv, TargetTypes, Journaled
        <4> QED
          BY <3>2, <4>1, <4>2
      <3> QED
        BY <2>2, <3>2, <3>3, <3>4, <3>5 DEF TargetInv, Released, ReadyIsExactBuild
    <2>6. CASE ImportMetaShard(b, i)
      <3>1. /\ markers' = markers \cup {<<b, i>>}
            /\ meta' = [meta EXCEPT !.staged = b] /\ ShardTable(<<b, i>>) = MetaTable
            /\ UNCHANGED <<schema, plan, loaded, rows, suppressed>>
        BY <2>6 DEF ImportMetaShard, Journal
      <3>2. <<b, i>> \in AllShards /\ b # NoBuild
        BY ShardFacts, PlanAssumption
      <3>3. TargetTypes'
        BY <3>1, <3>2 DEF TargetInv, TargetTypes
      <3>4. Journaled'
        BY <3>1, <3>2, TablesDiffer DEF TargetInv, TargetTypes, Journaled
      <3>5. Finite' /\ Released'
        BY <2>2, <2>3, <3>1 DEF TargetInv, TargetTypes, Finite, Released, ReadyIsExactBuild
      <3> QED
        BY <3>3, <3>4, <3>5 DEF TargetInv
    <2> QED
      BY <2>1, <2>4, <2>5, <2>6 DEF ImportData
  <1>4. CASE Binding
    <2>1. ~meta.ready
      BY <1>4 DEF Binding, InsertBinding, TargetInv, Released
    <2> QED
      BY <1>4, <2>1 DEF Binding, InsertBinding, Bindings, TargetInv, TargetTypes, Finite,
         Journaled, Released, ReadyIsExactBuild
  <1>5. CASE Opening
    <2>1. PICK b \in Builds, r \in Nat :
             schema = 3 /\ Shards(b) \subseteq markers /\ SetReady(b, r)
      BY <1>5 DEF Opening
    <2>2. /\ GateOpen(b, r)
          /\ meta' = [meta EXCEPT !.ready = TRUE]
          /\ UNCHANGED <<schema, markers, plan, loaded, rows, suppressed>>
      BY <2>1 DEF SetReady
    <2>3. meta.staged = b /\ ~meta.ready
      BY <2>2 DEF GateOpen
    <2>4. TargetTypes' /\ Finite' /\ Journaled'
      BY <2>2 DEF TargetInv, TargetTypes, Finite, Journaled
    <2>5. /\ meta'.ready /\ meta'.staged = b /\ meta'.binding = meta.binding
      BY <2>2, <2>3 DEF TargetInv, TargetTypes
    <2>6. Released'
      BY <2>1, <2>2, <2>5, OpeningIsExact DEF TargetInv, Released, ReadyIsExactBuild
    <2> QED
      BY <2>4, <2>6 DEF TargetInv
  <1>6. CASE OutsideRow
    <2>1. PICK t \in SourceTables, r \in Row : InsertRows(t, {r})
      <3>1. PICK t \in SourceTables : \E r \in RowsOf(t) : InsertRows(t, {r})
        BY <1>6 DEF OutsideRow
      <3> QED
        BY <3>1 DEF Row
    <2>2. ~meta.ready
      BY <2>1, RowsAreCounted, FS_Singleton DEF InsertRows
    <2>3. /\ rows' = [rows EXCEPT ![t] = @ \cup {r}]
          /\ loaded' = [loaded EXCEPT ![t] = @ + 1]
          /\ UNCHANGED <<schema, markers, plan, meta, suppressed>>
      BY <1>6, <2>1, FS_Singleton DEF OutsideRow, InsertRows
    <2>4. TargetTypes' /\ Journaled'
      BY <2>3 DEF TargetInv, TargetTypes, Journaled
    <2>5. Finite'
      BY <2>3, FS_AddElement DEF TargetInv, TargetTypes, Finite
    <2> QED
      BY <2>2, <2>3, <2>4, <2>5 DEF TargetInv, Released, ReadyIsExactBuild
  <1>7. CASE OutsideMarker
    <2>1. IsFiniteSet(markers')
      BY <1>7, FS_AddElement DEF OutsideMarker, TargetInv, Finite
    <2> QED
      BY <1>7, <2>1 DEF OutsideMarker, TargetInv, TargetTypes, Finite, Journaled,
         Released, ReadyIsExactBuild
  <1>8. CASE Takedown
    BY <1>8 DEF Takedown, TargetInv, TargetTypes, Finite, Journaled, Released,
       ReadyIsExactBuild
  <1> QED
    BY <1>1, <1>2, <1>3, <1>4, <1>5, <1>6, <1>7, <1>8 DEF TargetStep

-----------------------------------------------------------------------------
(* A step of one loader keeps what it and the others rely on.                *)

LEMMA TargetGrows ==
    ASSUME TargetInv, TargetStep
    PROVE  (schema = 3 => schema' = 3) /\ markers \subseteq markers'
  <1>1. CASE SchemaFile
    BY <1>1 DEF SchemaFile, ImportSchema
  <1>2. CASE DataFile
    BY <1>2 DEF DataFile, ImportData, ImportPlanShard, ImportSourceShard,
       ImportMetaShard, Journal
  <1>3. CASE Binding \/ Opening
    BY <1>3 DEF Binding, InsertBinding, Opening, SetReady
  <1> QED
    BY <1>1, <1>2, <1>3 DEF TargetStep, Untouched, target, OutsideRow, OutsideMarker, Takedown

Moves(p) ==
    \E x \in Processes :
        op' = [op EXCEPT ![p] = x] /\ MayRely(x, schema', markers') /\ x.seen \subseteq markers'

LEMMA ExitMoves ==
    ASSUME NEW p \in Operators, Exit(p)
    PROVE  Moves(p)
  <1>1. Idle \in Processes
    BY DEF Idle, Processes, PCs, Zero
  <1>2. MayRely(Idle, schema', markers') /\ Idle.seen \subseteq markers'
    BY DEF ProcessOK, MayRely, Idle, SchemaSeen, JournalSeen
  <1> QED
    BY <1>1, <1>2 DEF Exit, Moves

LEMMA BeginMoves ==
    ASSUME NEW p \in Operators, NEW b \in Builds, NEW r \in Nat, NEW i \in 0 .. 3,
           NEW phase \in {"load", "verify", "activate"},
           NEW pc \in {"l_journal", "prepare", "v_schema", "a_meta"},
           pc = "l_journal" => schema' = 3,
           pc = "prepare" => i # 3,
           Begin(p, phase, b, pc, i, r)
    PROVE  Moves(p)
  <1> DEFINE x == [phase |-> phase, pc |-> pc, build |-> b, seen |-> {}, at |-> i,
                   report |-> r, counters |-> Zero]
  <1>1. x \in Processes
    BY DEF Processes, PCs, Zero
  <1>2. x.pc = pc /\ x.build = b /\ x.at = i
    OBVIOUS
  <1>3. MayRely(x, schema', markers')
    BY <1>2 DEF ProcessOK, MayRely, SchemaSeen, JournalSeen
  <1> QED
    BY <1>1, <1>3 DEF Begin, Moves

LEMMA GotoMoves ==
    ASSUME NEW p \in Operators, op \in [Operators -> Processes], ProcessOK(op[p]),
           op[p].pc # "idle", op[p].seen \subseteq markers',
           NEW pc \in PCs \ {"prepare", "import"}, Goto(p, pc),
           pc \in SchemaSeen => schema' = 3,
           pc \in JournalSeen => Shards(op[p].build) \subseteq markers'
    PROVE  Moves(p)
  <1> DEFINE x == [op[p] EXCEPT !.pc = pc]
  <1>1. x \in Processes /\ x.pc = pc /\ x.build = op[p].build /\ x.seen = op[p].seen
    BY DEF Processes
  <1>2. MayRely(x, schema', markers')
    BY <1>1 DEF ProcessOK, MayRely
  <1>3. op' = [op EXCEPT ![p] = x]
    BY DEF Goto
  <1> QED
    BY <1>1, <1>2, <1>3 DEF Moves

LEMMA ResumeMoves ==
    ASSUME NEW p \in Operators, op \in [Operators -> Processes], op[p].build \in Builds,
           schema' = 3, NEW S \in SUBSET (AllShards \cup {Stray}), S \subseteq markers',
           Resume(p, S)
    PROVE  Moves(p)
  <1>1. CASE Missing(op[p].build, S) = {}
    BY <1>1, ExitMoves DEF Resume
  <1>2. CASE Missing(op[p].build, S) # {}
    <2>1. PICK i \in Missing(op[p].build, S) :
            /\ \A j \in Missing(op[p].build, S) : i <= j
            /\ op' = [op EXCEPT ![p] = [@ EXCEPT !.pc = "import", !.at = i, !.seen = S,
                                                 !.counters = Zero]]
      BY <1>2 DEF Resume
    <2> DEFINE x == [op[p] EXCEPT !.pc = "import", !.at = i, !.seen = S, !.counters = Zero]
    <2>2. i \in 1 .. Len(Plan[op[p].build]) /\ i \in Nat
      BY PlanAssumption DEF Missing
    <2>3. i = 1 \/ <<op[p].build, 1>> \in S
      BY <2>1, <2>2, PlanAssumption DEF Missing
    <2>4. /\ x \in Processes /\ x.pc = "import" /\ x.at = i /\ x.build = op[p].build
          /\ x.seen = S
      BY <2>2 DEF Processes, PCs, Zero
    <2>5. MayRely(x, schema', markers')
      BY <2>2, <2>3, <2>4 DEF ProcessOK, MayRely, SchemaSeen, JournalSeen
    <2>6. op' = [op EXCEPT ![p] = x]
      BY <2>1
    <2> QED
      BY <2>4, <2>5, <2>6 DEF Moves
  <1> QED
    BY <1>1, <1>2

LEMMA StartMoves ==
    ASSUME IInv, TargetStep, NEW p \in Operators, Start(p)
    PROVE  Moves(p)
  <1>1. schema \in 0 .. 3 /\ (schema = 3 => schema' = 3) /\ report \in [Builds -> Nat]
    BY TargetGrows DEF IInv, TargetInv, TargetTypes, ProcessTypes
  <1>2. ASSUME NEW b \in Builds, StartLoad(p, b) PROVE Moves(p)
    <2>1. CASE schema = 3
      BY <1>1, <1>2, <2>1, BeginMoves DEF StartLoad
    <2>2. CASE schema # 3
      BY <1>1, <1>2, <2>2, BeginMoves DEF StartLoad
    <2> QED
      BY <2>1, <2>2
  <1>3. ASSUME NEW b \in Builds, StartVerify(p, b) PROVE Moves(p)
    BY <1>3, BeginMoves DEF StartVerify
  <1>4. ASSUME NEW b \in Builds, StartActivate(p, b) PROVE Moves(p)
    <2>1. report[b] \in Nat /\ Begin(p, "activate", b, "a_meta", 0, report[b])
      BY <1>1, <1>4 DEF StartActivate
    <2> QED
      BY <2>1, BeginMoves
  <1> QED
    BY <1>2, <1>3, <1>4 DEF Start

LEMMA LoadMoves ==
    ASSUME IInv, TargetStep, NEW p \in Operators, LoadStep(p)
    PROVE  Moves(p)
  <1> USE DEF At
  <1>1. /\ op \in [Operators -> Processes] /\ op[p] \in Processes /\ ProcessOK(op[p])
        /\ TargetTypes /\ Finite
        /\ (schema = 3 => schema' = 3) /\ markers \subseteq markers'
        /\ op[p].seen \subseteq markers'
    BY TargetGrows DEF IInv, TargetInv, ProcessTypes, ProcessesOK
  <1>2. op[p].pc # "idle" => op[p].build \in Builds
    BY <1>1 DEF ProcessOK, MayRely
  <1>3. op[p].seen \in SUBSET (AllShards \cup {Stray})
    BY <1>1 DEF Processes
  <1>4. CASE ImportPrepare(p)
    BY <1>1, <1>4, ExitMoves, GotoMoves DEF ImportPrepare, PCs, SchemaSeen, JournalSeen
  <1>5. CASE CheckPrepared(p)
    <2>1. CASE schema # op[p].at + 1
      BY <1>5, <2>1, ExitMoves DEF CheckPrepared, Exit
    <2>2. CASE schema = op[p].at + 1 /\ schema = 3
      <3> DEFINE x == [op[p] EXCEPT !.pc = "l_journal", !.at = 0]
      <3>1. x \in Processes /\ x.pc = "l_journal" /\ x.build = op[p].build /\ x.seen = op[p].seen
        BY <1>1 DEF Processes, PCs
      <3>2. MayRely(x, schema', markers')
        BY <1>1, <1>2, <1>5, <2>2, <3>1 DEF CheckPrepared, MayRely, JournalSeen
      <3> QED
        BY <1>1, <1>5, <2>2, <3>1, <3>2 DEF CheckPrepared, Moves
    <2>3. CASE schema = op[p].at + 1 /\ schema # 3
      <3> DEFINE x == [op[p] EXCEPT !.pc = "prepare", !.at = schema]
      <3>0. schema \in 0 .. 2 /\ schema \in Nat
        BY <1>1, <2>3 DEF TargetTypes
      <3>1. /\ x \in Processes /\ x.pc = "prepare" /\ x.build = op[p].build
            /\ x.at \in 0 .. 2 /\ x.seen = op[p].seen
        BY <1>1, <3>0 DEF Processes, PCs
      <3>2. MayRely(x, schema', markers')
        BY <1>2, <1>5, <3>1 DEF CheckPrepared, MayRely, SchemaSeen, JournalSeen
      <3> QED
        BY <1>1, <1>5, <2>3, <3>1, <3>2 DEF CheckPrepared, Moves
    <2> QED
      BY <2>1, <2>2, <2>3
  <1>6. CASE ReadJournal(p)
    <2>1. CASE markers \subseteq Shards(op[p].build)
      <3> DEFINE x == [op[p] EXCEPT !.pc = "l_counts", !.seen = markers]
      <3>1. x \in Processes /\ x.pc = "l_counts" /\ x.build = op[p].build /\ x.seen = markers
        BY <1>1 DEF Processes, PCs, TargetTypes
      <3>2. MayRely(x, schema', markers')
        BY <1>1, <1>2, <1>6, <3>1 DEF ReadJournal, ProcessOK, MayRely, SchemaSeen, JournalSeen
      <3> QED
        BY <1>1, <1>6, <2>1, <3>1, <3>2 DEF ReadJournal, Moves
    <2> QED
      BY <1>6, <2>1, ExitMoves DEF ReadJournal, Exit
  <1>7. CASE ReadCounts(p)
    <2>1. CASE CountsMatchMarkers(op[p].seen, op[p].build)
      <3> DEFINE c == [t \in SourceTables |-> Cardinality(rows[t])]
                 x == [op[p] EXCEPT !.pc = "l_meta", !.counters = c]
      <3>1. c \in [SourceTables -> Nat]
        BY <1>1, FS_CardinalityType DEF Finite
      <3>2. x \in Processes /\ x.pc = "l_meta" /\ x.build = op[p].build /\ x.seen = op[p].seen
        BY <1>1, <3>1 DEF Processes, PCs
      <3>3. MayRely(x, schema', markers')
        BY <1>1, <1>2, <1>7, <3>2 DEF ReadCounts, ProcessOK, MayRely, SchemaSeen, JournalSeen
      <3> QED
        BY <1>1, <1>7, <2>1, <3>2, <3>3 DEF ReadCounts, Moves
    <2> QED
      BY <1>7, <2>1, ExitMoves DEF ReadCounts, Exit
  <1>8. CASE ReadLoadMeta(p)
    <2>1. schema' = 3
      BY <1>1, <1>8 DEF ReadLoadMeta, ProcessOK, MayRely, SchemaSeen
    <2> QED
      BY <1>1, <1>2, <1>3, <1>8, <2>1, ExitMoves, GotoMoves, ResumeMoves
         DEF ReadLoadMeta, PCs, JournalSeen
  <1>9. CASE ReadPlan(p)
    <2>1. schema' = 3
      BY <1>1, <1>9 DEF ReadPlan, ProcessOK, MayRely, SchemaSeen
    <2> QED
      BY <1>1, <1>2, <1>3, <1>9, <2>1, ExitMoves, ResumeMoves DEF ReadPlan
  <1>10. CASE ImportShard(p)
    <2>1. schema' = 3
      BY <1>1, <1>10 DEF ImportShard, ProcessOK, MayRely, SchemaSeen
    <2> QED
      BY <1>1, <1>10, <2>1, ExitMoves, GotoMoves DEF ImportShard, PCs, JournalSeen
  <1>11. CASE ReadMarker(p)
    <2> DEFINE s == <<op[p].build, op[p].at>>
    <2>1. schema' = 3
      BY <1>1, <1>11 DEF ReadMarker, ProcessOK, MayRely, SchemaSeen
    <2>2. CASE s \notin markers
      BY <1>11, <2>2, ExitMoves DEF ReadMarker
    <2>3. CASE s \in markers
      <3>1. op[p].seen \cup {s} \in SUBSET (AllShards \cup {Stray})
        BY <1>1, <1>3, <2>3 DEF TargetTypes
      <3>2. CASE ShardTable(s) = PlanTable
        <4> DEFINE x == [op[p] EXCEPT !.pc = "l_newplan", !.seen = @ \cup {s}]
        <4> HIDE DEF s
        <4>1. x \in Processes /\ x.pc = "l_newplan" /\ x.build = op[p].build
              /\ x.seen = op[p].seen \cup {s}
          BY <1>1, <3>1 DEF Processes, PCs
        <4>2. MayRely(x, schema', markers')
          BY <1>1, <1>2, <1>11, <2>1, <4>1 DEF ReadMarker, ProcessOK, MayRely, JournalSeen
        <4>3. op' = [op EXCEPT ![p].pc = "l_newplan", ![p].seen = @ \cup {s}]
          BY <1>11, <2>3, <3>2 DEF ReadMarker, s
        <4>4. op' = [op EXCEPT ![p] = x]
          BY <1>1, <4>3 DEF Processes
        <4>5. x.seen \subseteq markers'
          BY <1>1, <2>3, <4>1
        <4> QED
          BY <4>1, <4>2, <4>4, <4>5 DEF Moves
      <3> QED
        BY <1>1, <1>2, <1>11, <2>1, <2>3, <3>1, <3>2, ResumeMoves DEF ReadMarker
    <2> QED
      BY <2>2, <2>3
  <1>12. CASE ReadNewPlan(p)
    <2>1. CASE \A t \in SourceTables : Expected(plan, t) = Expected(op[p].build, t)
      <3> DEFINE x == [op[p] EXCEPT !.pc = "l_newcounts", !.counters = loaded]
      <3>1. x \in Processes /\ x.pc = "l_newcounts" /\ x.build = op[p].build /\ x.seen = op[p].seen
        BY <1>1 DEF Processes, PCs, TargetTypes
      <3>2. MayRely(x, schema', markers')
        BY <1>1, <1>2, <1>12, <3>1 DEF ReadNewPlan, ProcessOK, MayRely, SchemaSeen, JournalSeen
      <3>3. op' = [op EXCEPT ![p].pc = "l_newcounts", ![p].counters = loaded]
        BY <1>12, <2>1 DEF ReadNewPlan
      <3>4. op' = [op EXCEPT ![p] = x]
        BY <1>1, <3>3 DEF Processes
      <3> QED
        BY <1>1, <3>1, <3>2, <3>4 DEF Moves
    <2> QED
      BY <1>12, <2>1, ExitMoves DEF ReadNewPlan
  <1>13. CASE ReadNewCounts(p)
    <2>1. schema' = 3
      BY <1>1, <1>13 DEF ReadNewCounts, ProcessOK, MayRely, SchemaSeen
    <2> QED
      BY <1>1, <1>2, <1>3, <1>13, <2>1, ExitMoves, ResumeMoves DEF ReadNewCounts
  <1> QED
    BY <1>4, <1>5, <1>6, <1>7, <1>8, <1>9, <1>10, <1>11, <1>12, <1>13 DEF LoadStep

LEMMA VerifyMoves ==
    ASSUME IInv, TargetStep, NEW p \in Operators, VerifyStep(p)
    PROVE  Moves(p)
  <1> USE DEF At, PCs, SchemaSeen, JournalSeen
  <1>1. /\ op \in [Operators -> Processes] /\ ProcessOK(op[p])
        /\ (schema = 3 => schema' = 3) /\ markers \subseteq markers'
        /\ op[p].seen \subseteq markers'
    BY TargetGrows DEF IInv, ProcessTypes, ProcessesOK
  <1>2. /\ op[p].pc \in SchemaSeen => schema' = 3
        /\ op[p].pc \in JournalSeen => Shards(op[p].build) \subseteq markers'
    BY <1>1 DEF ProcessOK, MayRely
  <1>3. CASE VerifySchema(p)
    BY <1>1, <1>2, <1>3, ExitMoves, GotoMoves DEF VerifySchema, Check
  <1>4. CASE VerifyJournal(p)
    BY <1>1, <1>2, <1>4, ExitMoves, GotoMoves DEF VerifyJournal, Check
  <1>5. CASE VerifyCounts(p)
    BY <1>1, <1>2, <1>5, ExitMoves, GotoMoves DEF VerifyCounts, Check
  <1>6. CASE VerifyPlan(p)
    BY <1>1, <1>2, <1>6, ExitMoves, GotoMoves DEF VerifyPlan, Check
  <1>7. CASE VerifyMeta(p)
    BY <1>1, <1>2, <1>7, ExitMoves, GotoMoves DEF VerifyMeta, Check
  <1>8. CASE VerifyProjection(p)
    BY <1>1, <1>2, <1>8, ExitMoves, GotoMoves DEF VerifyProjection, Check
  <1>9. CASE WriteReport(p)
    BY <1>9, ExitMoves DEF WriteReport
  <1> QED
    BY <1>3, <1>4, <1>5, <1>6, <1>7, <1>8, <1>9 DEF VerifyStep

LEMMA ActivateMoves ==
    ASSUME IInv, TargetStep, NEW p \in Operators, ActivateStep(p)
    PROVE  Moves(p)
  <1> USE DEF At, PCs, SchemaSeen, JournalSeen
  <1>1. /\ op \in [Operators -> Processes] /\ ProcessOK(op[p])
        /\ (schema = 3 => schema' = 3) /\ markers \subseteq markers'
        /\ op[p].seen \subseteq markers'
    BY TargetGrows DEF IInv, ProcessTypes, ProcessesOK
  <1>2. /\ op[p].pc \in SchemaSeen => schema' = 3
        /\ op[p].pc \in JournalSeen => Shards(op[p].build) \subseteq markers'
    BY <1>1 DEF ProcessOK, MayRely
  <1>3. CASE ReadActivateMeta(p)
    BY <1>1, <1>2, <1>3, ExitMoves, GotoMoves DEF ReadActivateMeta
  <1>4. CASE Stamp(p)
    BY <1>1, <1>2, <1>4, GotoMoves DEF Stamp
  <1>5. CASE ReadPending(p)
    BY <1>1, <1>2, <1>5, ExitMoves, GotoMoves DEF ReadPending, Check
  <1>6. CASE Publish(p)
    BY <1>1, <1>2, <1>6, GotoMoves DEF Publish
  <1>7. CASE ReadBack(p)
    BY <1>7, ExitMoves DEF ReadBack
  <1> QED
    BY <1>3, <1>4, <1>5, <1>6, <1>7 DEF ActivateStep

\* What a step may do to the processes, their reports and their requests.
ProcessStep ==
    /\ (\E p \in Operators : Moves(p)) \/ UNCHANGED op
    /\ report' \in [Builds -> Nat]
    /\ \A o \in orphans' : o \in Requests /\ (o \in orphans \/ ProcessOK(o))
    /\ faults' \in Nat /\ strays' \in Nat

LEMMA NextIsProcessStep ==
    ASSUME IInv, TargetStep, [Next]_vars
    PROVE  ProcessStep
  <1>1. /\ report \in [Builds -> Nat] /\ orphans \subseteq Requests
        /\ faults \in Nat /\ strays \in Nat /\ op \in [Operators -> Processes]
    BY DEF IInv, ProcessTypes
  <1>2. ASSUME NEW p \in Operators, Moves(p), Local, report' \in [Builds -> Nat]
        PROVE  ProcessStep
    BY <1>1, <1>2 DEF ProcessStep, Local
  <1>3. CASE UNCHANGED vars
    BY <1>1, <1>3 DEF vars, ProcessStep
  <1>4. ASSUME NEW p \in Operators, Start(p) PROVE ProcessStep
    BY <1>1, <1>2, <1>4, StartMoves
       DEF Start, StartLoad, StartVerify, StartActivate, ReadOnly
  <1>5. ASSUME NEW p \in Operators, LoadStep(p) PROVE ProcessStep
    BY <1>1, <1>2, <1>5, LoadMoves
       DEF LoadStep, ImportPrepare, CheckPrepared, ReadJournal, ReadCounts, ReadLoadMeta,
           ReadPlan, ImportShard, ReadMarker, ReadNewPlan, ReadNewCounts, ReadOnly
  <1>6. ASSUME NEW p \in Operators, VerifyStep(p) PROVE ProcessStep
    <2>1. CASE WriteReport(p)
      <3>1. report' = [report EXCEPT ![op[p].build] = @ + 1] /\ Local
        BY <2>1 DEF WriteReport
      <3>2. op[p].build \in Builds
        BY <2>1 DEF WriteReport, At, IInv, ProcessesOK, ProcessOK, MayRely
      <3>3. report' \in [Builds -> Nat]
        BY <1>1, <3>1, <3>2
      <3> QED
        BY <1>2, <1>6, <3>1, <3>3, VerifyMoves
    <2>2. CASE ~WriteReport(p)
      <3>1. ReadOnly
        BY <1>6, <2>2 DEF VerifyStep, VerifySchema, VerifyJournal, VerifyCounts, VerifyPlan,
           VerifyMeta, VerifyProjection
      <3> QED
        BY <1>1, <1>2, <1>6, <3>1, VerifyMoves DEF ReadOnly
    <2> QED
      BY <2>1, <2>2
  <1>7. ASSUME NEW p \in Operators, ActivateStep(p) PROVE ProcessStep
    BY <1>1, <1>2, <1>7, ActivateMoves
       DEF ActivateStep, ReadActivateMeta, Stamp, ReadPending, Publish, ReadBack, ReadOnly
  <1>8. CASE Environment
    <2>1. ASSUME NEW p \in Operators, Crash(p) PROVE ProcessStep
      <3>1. Moves(p) /\ report' = report /\ faults' = faults + 1 /\ strays' = strays
        BY <2>1, ExitMoves DEF Crash
      <3>2. CASE UNCHANGED orphans
        BY <1>1, <3>1, <3>2 DEF ProcessStep
      <3>3. CASE ~UNCHANGED orphans
        <4> DEFINE x == [pc |-> op[p].pc, build |-> op[p].build, at |-> op[p].at,
                         report |-> op[p].report]
        <4>1. /\ op[p].pc \in {"prepare", "import", "stamp", "publish"}
              /\ orphans' = orphans \cup {x}
          BY <2>1, <3>3 DEF Crash
        <4>2. ProcessOK(op[p]) /\ op[p] \in Processes
          BY <1>1 DEF IInv, ProcessesOK
        <4>3. x \in Requests /\ ProcessOK(x)
          BY <4>1, <4>2 DEF Requests, Processes, ProcessOK, MayRely
        <4> QED
          BY <1>1, <3>1, <4>1, <4>3 DEF ProcessStep
      <3> QED
        BY <3>2, <3>3
    <2>2. ASSUME NEW o \in orphans, Arrive(o) PROVE ProcessStep
      BY <1>1, <2>2 DEF Arrive, ProcessStep
    <2>3. ASSUME NEW t \in SourceTables, NEW r, StrayRow(t, r) PROVE ProcessStep
      BY <1>1, <2>3 DEF StrayRow, ProcessStep
    <2>4. CASE StrayMarker
      BY <1>1, <2>4 DEF StrayMarker, ProcessStep
    <2>5. ASSUME NEW m, Suppress(m) PROVE ProcessStep
      BY <1>1, <2>5 DEF Suppress, Local, ProcessStep
    <2> QED
      BY <1>8, <2>1, <2>2, <2>3, <2>4, <2>5 DEF Environment
  <1> QED
    BY <1>3, <1>4, <1>5, <1>6, <1>7, <1>8 DEF Next, Step

LEMMA ProcessInvariant ==
    ASSUME IInv, TargetStep, ProcessStep
    PROVE  (ProcessTypes /\ ProcessesOK)'
  <1>1. (schema = 3 => schema' = 3) /\ markers \subseteq markers'
    BY TargetGrows DEF IInv
  <1>2. \A o : ProcessOK(o) => MayRely(o, schema', markers')
    BY <1>1 DEF ProcessOK, MayRely
  <1>3. /\ op \in [Operators -> Processes]
        /\ \A p \in Operators :
              MayRely(op[p], schema', markers') /\ op[p].seen \subseteq markers'
    BY <1>1, <1>2 DEF IInv, ProcessTypes, ProcessesOK
  <1>4. /\ op' \in [Operators -> Processes]
        /\ \A p \in Operators :
              MayRely(op'[p], schema', markers') /\ op'[p].seen \subseteq markers'
    <2>1. ASSUME NEW p \in Operators, Moves(p)
          PROVE  /\ op' \in [Operators -> Processes]
                 /\ \A q \in Operators :
                       MayRely(op'[q], schema', markers') /\ op'[q].seen \subseteq markers'
      BY <1>3, <2>1 DEF Moves
    <2> QED
      BY <1>3, <2>1 DEF ProcessStep
  <1>5. \A o \in orphans' : o \in Requests /\ MayRely(o, schema', markers')
    BY <1>2 DEF ProcessStep, IInv, ProcessesOK
  <1>6. ProcessTypes'
    BY <1>4, <1>5 DEF ProcessStep, ProcessTypes
  <1>7. ProcessesOK'
    BY <1>4, <1>5 DEF ProcessesOK, ProcessOK
  <1> QED
    BY <1>6, <1>7

-----------------------------------------------------------------------------
(* The theorems.                                                             *)

LEMMA Initially == Init => IInv
  <1> SUFFICES ASSUME Init PROVE IInv
    OBVIOUS
  <1>1. TargetTypes
    BY DEF Init, TargetTypes, Zero, Bindings, NoBinding
  <1>2. Finite
    BY FS_EmptySet DEF Init, Finite
  <1>3. Journaled /\ Released
    BY DEF Init, Journaled, Released, ReadyIsExactBuild
  <1>4. Idle \in Processes /\ ProcessOK(Idle) /\ Idle.seen = {}
    BY DEF Idle, Processes, PCs, Zero, ProcessOK, MayRely, SchemaSeen, JournalSeen
  <1>5. ProcessTypes /\ ProcessesOK
    BY <1>4 DEF Init, ProcessTypes, ProcessesOK
  <1> QED
    BY <1>1, <1>2, <1>3, <1>5 DEF IInv, TargetInv

LEMMA Inductive == IInv /\ [Next]_vars => IInv'
  <1> SUFFICES ASSUME IInv, [Next]_vars PROVE IInv'
    OBVIOUS
  <1>1. TargetStep
    BY NextIsTargetStep DEF IInv
  <1>2. TargetInv'
    BY <1>1, TargetInvariant DEF IInv
  <1>3. ProcessStep
    BY <1>1, NextIsProcessStep
  <1>4. (ProcessTypes /\ ProcessesOK)'
    BY <1>1, <1>3, ProcessInvariant
  <1> QED
    BY <1>2, <1>4 DEF IInv

THEOREM Invariance == Spec => []IInv
  BY Initially, Inductive, PTL DEF Spec

\* The types of the target and of the loaders are kept by every step.
THEOREM TypeCorrect == Spec => []TypeOK
  <1>1. IInv => TypeOK
    BY DEF IInv, TargetInv, TargetTypes, ProcessTypes, TypeOK
  <1> QED
    BY <1>1, Invariance, PTL

\* For every set of packages and loaders: a target that says ready holds its
\* build's rows and no others.
THEOREM ReadyTargetsAreExact == Spec => []ReadyIsExactBuild
  <1>1. IInv => ReadyIsExactBuild
    BY DEF IInv, TargetInv, Released
  <1> QED
    BY <1>1, Invariance, PTL

\* For every set of packages and loaders: an activated target is frozen, and
\* suppressions only accumulate.
THEOREM ReadyTargetsAreFrozen == Spec => FrozenOnceReady
  <1> DEFINE Frozen == meta.ready => /\ UNCHANGED <<schema, plan, loaded, rows, meta>>
                                     /\ suppressed \subseteq suppressed'
  <1>1. IInv /\ [Next]_vars => [Frozen]_vars
    <2> SUFFICES ASSUME IInv, [Next]_vars, meta.ready PROVE Frozen
      OBVIOUS
    <2>1. TargetStep /\ TargetInv
      BY NextIsTargetStep DEF IInv
    <2>2. Untouched \/ OutsideMarker \/ Takedown
      BY <2>1, OpenTargetRejects
    <2> QED
      BY <2>2 DEF Untouched, target, OutsideMarker, Takedown
  <1> QED
    BY <1>1, Invariance, PTL DEF Spec, FrozenOnceReady

-----------------------------------------------------------------------------
(* The database implements the release gate.                                 *)

LEMMA GateInitially == Init => Gate!Init
  BY DEF Init, Gate!Init

LEMMA GateStep ==
    ASSUME IInv, [Next]_vars
    PROVE  [Gate!Next]_(Gate!vars)
  <1>1. TargetStep /\ TargetInv /\ TargetInv'
    <2>1. TargetStep /\ TargetInv
      BY NextIsTargetStep DEF IInv
    <2> QED
      BY <2>1, TargetInvariant
  <1>2. CASE meta.ready
    <2>1. meta.staged # NoBuild
      BY <1>1, <1>2, PlanAssumption DEF TargetInv, Released, ReadyIsExactBuild
    <2>2. CASE Untouched \/ OutsideMarker
      BY <2>2 DEF Untouched, target, OutsideMarker, Gate!vars
    <2>3. CASE Takedown
      <3>1. PICK m \in Moments : suppressed' = suppressed \cup {m}
        BY <2>3 DEF Takedown
      <3>2. UNCHANGED <<rows, meta>>
        BY <2>3 DEF Takedown
      <3>3. PublicView(rows, suppressed)' = PublicView(rows, suppressed) \ {m}
        BY <3>1, <3>2 DEF PublicView
      <3>4. Gate!Withdraw(m)
        BY <1>2, <2>1, <3>1, <3>2, <3>3 DEF Gate!Withdraw
      <3> QED
        BY <3>4 DEF Gate!Next
    <2> QED
      BY <1>1, <1>2, <2>2, <2>3, OpenTargetRejects
  <1>3. CASE ~meta.ready /\ ~meta'.ready
    <2>1. suppressed = {} /\ suppressed' = {}
      BY <1>1, <1>3 DEF TargetInv, Released
    <2> QED
      BY <1>3, <2>1 DEF Gate!vars
  <1>4. CASE ~meta.ready /\ meta'.ready
    <2>1. suppressed = {} /\ suppressed' = {} /\ meta'.staged \in Builds
      <3>1. Opening
        BY <1>1, <1>4 DEF TargetStep, Untouched, target, SchemaFile, ImportSchema, DataFile,
           ImportData, ImportPlanShard, ImportSourceShard, ImportMetaShard, Binding,
           InsertBinding, OutsideRow, OutsideMarker, Takedown, TargetInv, TargetTypes
      <3> QED
        BY <1>1, <1>4, <3>1
           DEF Opening, SetReady, TargetInv, Released, ReadyIsExactBuild
    <2> DEFINE b == meta'.staged
    <2>2. \A t \in SourceTables : rows'[t] = BuildTables(b)[t]
      BY <1>1, <1>4 DEF TargetInv, Released, ReadyIsExactBuild, BuildTables
    <2>3. PublicView(rows, suppressed)' = PublicView(BuildTables(b), {})
      BY <2>1, <2>2 DEF PublicView, SourceTables
    <2>4. Gate!Publish(b)
      BY <1>4, <2>1, <2>3 DEF Gate!Publish
    <2> QED
      BY <2>1, <2>4 DEF Gate!Next
  <1> QED
    BY <1>2, <1>3, <1>4

\* For every set of packages and loaders, the staging database behaves as the
\* release gate towards whoever reads it.
THEOREM Implementation == Spec => ImplementsGate
  <1>1. IInv /\ [Next]_vars => [Gate!Next]_(Gate!vars)
    BY GateStep
  <1> QED
    BY <1>1, GateInitially, Invariance, PTL DEF Spec, ImplementsGate, Gate!Spec

-----------------------------------------------------------------------------
(* One load: the plan as a lock, and the journal as the index of the rows.   *)

\* Every journaled shard, and the staged metadata, are of the planned build.
OfThePlan ==
    /\ \A s \in markers \ {Stray} : s[1] = plan
    /\ meta.staged \in {NoBuild, plan}

\* The counters count, and the tables hold rows of their own kind.
Counted ==
    \A t \in SourceTables : rows[t] \subseteq RowsOf(t) /\ loaded[t] = Cardinality(rows[t])

LoadInv ==
    /\ OfThePlan /\ Counted /\ JournalCoversRows
    /\ strays = 0 => Stray \notin markers

LEMMA CarriedByOneMore ==
    ASSUME NEW S, NEW s, NEW t
    PROVE  CarriedRows(S \cup {s}, t) =
               CarriedRows(S, t) \cup (IF ShardTable(s) = t THEN ShardRows(s) ELSE {})
  BY DEF CarriedRows

LEMMA FreshRowsAreCounted ==
    ASSUME TargetInv, LoadInv, NEW t \in SourceTables, NEW rs,
           IsFiniteSet(rs), rs \subseteq RowsOf(t), InsertRows(t, rs)
    PROVE  /\ rows' = [rows EXCEPT ![t] = @ \cup rs]
           /\ Counted'
  <1>1. /\ rows' = [rows EXCEPT ![t] = @ \cup rs]
        /\ loaded' = [loaded EXCEPT ![t] = @ + Cardinality(rs)]
    BY DEF InsertRows
  <1>2. rows[t] \cap rs = {}
    BY DEF InsertRows, FreshKeys, Key
  <1>3. Cardinality(rows[t] \cup rs) = Cardinality(rows[t]) + Cardinality(rs)
    <2>1. IsFiniteSet(rows[t])
      BY DEF TargetInv, Finite
    <2>2. Cardinality(rows[t] \cup rs) =
             Cardinality(rows[t]) + Cardinality(rs) - Cardinality({})
      BY <1>2, <2>1, FS_Union
    <2> QED
      BY <2>1, <2>2, FS_EmptySet, FS_CardinalityType
  <1>4. rows \in [SourceTables -> SUBSET Row] /\ loaded \in [SourceTables -> Nat]
    BY DEF TargetInv, TargetTypes
  <1> QED
    BY <1>1, <1>3, <1>4 DEF LoadInv, Counted

\* A shard is only imported into the load it belongs to.
LEMMA ImportsJoinTheirLoad ==
    ASSUME TargetInv, LoadInv, NEW b \in Builds, NEW i \in 1 .. Len(Plan[b]),
           ImportData(b, i), i = 1 \/ <<b, 1>> \in markers
    PROVE  /\ markers' = markers \cup {<<b, i>>}
           /\ plan' = b
           /\ \A s \in markers \ {Stray} : s[1] = b
           /\ meta.staged \in {NoBuild, b}
  <1>1. Len(Plan[b]) \in Nat /\ Len(Plan[b]) >= 2 /\ Plan[b][1].table = PlanTable
    BY PlanAssumption DEF IsPackage
  <1>2. \A s \in markers \ {Stray} : s[1] \in Builds
    BY DEF TargetInv, TargetTypes, AllShards, Shards
  <1>3. CASE i = 1
    <2>1. ImportPlanShard(b, i)
      BY <1>1, <1>3, TablesDiffer
         DEF ImportData, ImportSourceShard, ImportMetaShard, ShardTable
    <2>2. plan = NoBuild /\ plan' = b /\ markers' = markers \cup {<<b, i>>}
      BY <2>1 DEF ImportPlanShard, Journal
    <2>3. markers \ {Stray} = {}
      BY <1>2, <2>2, PlanAssumption DEF LoadInv, OfThePlan
    <2> QED
      BY <2>2, <2>3 DEF LoadInv, OfThePlan
  <1>4. CASE <<b, 1>> \in markers
    <2>1. <<b, 1>> \in markers \ {Stray}
      BY <1>1, <1>4, ShardFacts
    <2>2. plan = b
      BY <2>1 DEF LoadInv, OfThePlan
    <2>3. ~ImportPlanShard(b, i)
      BY <2>2, PlanAssumption DEF ImportPlanShard
    <2> QED
      BY <2>2, <2>3 DEF ImportData, ImportSourceShard, ImportMetaShard, Journal, LoadInv,
         OfThePlan
  <1> QED
    BY <1>3, <1>4

LEMMA LoadInvariant ==
    ASSUME TargetInv, LoadInv, TargetStep, strays \in Nat, strays' = 0 => strays = 0
    PROVE  LoadInv'
  <1> USE DEF LoadInv, OfThePlan, Counted, JournalCoversRows
  <1>1. CASE Untouched
    BY <1>1 DEF Untouched, target
  <1>2. CASE SchemaFile \/ Binding \/ Opening \/ Takedown
    BY <1>2 DEF SchemaFile, ImportSchema, Binding, InsertBinding, Opening, SetReady, Takedown,
       TargetInv, TargetTypes
  <1>3. CASE DataFile
    <2>1. PICK b \in Builds : \E i \in 1 .. Len(Plan[b]) :
              ImportData(b, i) /\ (i = 1 \/ <<b, 1>> \in markers)
      BY <1>3 DEF DataFile
    <2>2. PICK i \in 1 .. Len(Plan[b]) :
              ImportData(b, i) /\ (i = 1 \/ <<b, 1>> \in markers)
      BY <2>1
    <2> DEFINE s == <<b, i>>
    <2>3. /\ markers' = markers \cup {s} /\ plan' = b /\ s # Stray /\ s[1] = b
          /\ \A x \in markers \ {Stray} : x[1] = b
          /\ meta.staged \in {NoBuild, b}
      BY <2>2, ImportsJoinTheirLoad, ShardFacts
    <2>4. OfThePlan'
      <3>1. meta'.staged \in {meta.staged, b}
        BY <2>2 DEF ImportData, ImportPlanShard, ImportSourceShard, ImportMetaShard,
           TargetInv, TargetTypes
      <3> QED
        BY <2>3, <3>1
    <2>5. CASE ImportSourceShard(b, i)
      <3> DEFINE t == ShardTable(s)
                 rs == ShardRows(s)
      <3>1. t \in SourceTables /\ IsFiniteSet(rs) /\ InsertRows(t, rs)
        BY <2>5, ShardFacts DEF ImportSourceShard
      <3>2. rs \subseteq RowsOf(t)
        BY <3>1, PlanAssumption DEF IsPackage, ShardTable, ShardRows
      <3> HIDE DEF t, rs
      <3>3. Counted' /\ rows' = [rows EXCEPT ![t] = @ \cup rs]
        BY <3>1, <3>2, FreshRowsAreCounted
      <3>4. \A u \in SourceTables :
               CarriedRows(markers', u) =
                   CarriedRows(markers, u) \cup (IF t = u THEN rs ELSE {})
        BY <2>3, CarriedByOneMore DEF t, rs
      <3>5. JournalCoversRows'
        BY <3>1, <3>3, <3>4 DEF TargetInv, TargetTypes
      <3> QED
        BY <2>3, <2>4, <3>3, <3>5
    <2>6. CASE ~ImportSourceShard(b, i)
      <3>1. UNCHANGED <<rows, loaded>> /\ ShardTable(s) \notin SourceTables
        BY <2>2, <2>6, TablesDiffer DEF ImportData, ImportPlanShard, ImportMetaShard
      <3>2. \A u \in SourceTables : CarriedRows(markers', u) = CarriedRows(markers, u)
        <4> SUFFICES ASSUME NEW u \in SourceTables
                     PROVE  CarriedRows(markers', u) = CarriedRows(markers, u)
          OBVIOUS
        <4>1. ShardTable(s) # u
          BY <3>1
        <4>2. CarriedRows(markers \cup {s}, u) = CarriedRows(markers, u) \cup {}
          BY <4>1, CarriedByOneMore
        <4> QED
          BY <2>3, <4>2
      <3> QED
        BY <2>3, <2>4, <3>1, <3>2
    <2> QED
      BY <2>5, <2>6
  <1>4. CASE OutsideRow
    <2>1. PICK t \in SourceTables : \E r \in RowsOf(t) : InsertRows(t, {r})
      BY <1>4 DEF OutsideRow
    <2>2. Counted'
      BY <2>1, FS_Singleton, FreshRowsAreCounted
    <2> QED
      BY <1>4, <2>2 DEF OutsideRow
  <1>5. CASE OutsideMarker
    BY <1>5 DEF OutsideMarker
  <1> QED
    BY <1>1, <1>2, <1>3, <1>4, <1>5 DEF TargetStep

LEMMA StraysAreCounted ==
    ASSUME ProcessTypes, [Next]_vars
    PROVE  strays' = 0 => strays = 0
  <1> USE DEF ProcessTypes
  <1>1. ASSUME NEW p \in Operators, Start(p) \/ Step(p) PROVE strays' = strays
    BY <1>1 DEF Start, StartLoad, StartVerify, StartActivate, Step, LoadStep, VerifyStep,
       ActivateStep, ImportPrepare, CheckPrepared, ReadJournal, ReadCounts, ReadLoadMeta,
       ReadPlan, ImportShard, ReadMarker, ReadNewPlan, ReadNewCounts, VerifySchema,
       VerifyJournal, VerifyCounts, VerifyPlan, VerifyMeta, VerifyProjection, WriteReport,
       ReadActivateMeta, Stamp, ReadPending, Publish, ReadBack, ReadOnly, Local
  <1>2. CASE Environment
    <2>1. ASSUME NEW p \in Operators, Crash(p) PROVE strays' = strays
      BY <2>1 DEF Crash
    <2>2. ASSUME NEW o \in orphans, Arrive(o) PROVE strays' = strays
      BY <2>2 DEF Arrive
    <2>3. ASSUME NEW t, NEW row, StrayRow(t, row) PROVE strays' = strays + 1
      BY <2>3 DEF StrayRow
    <2>4. StrayMarker => strays' = strays + 1
      BY DEF StrayMarker
    <2>5. ASSUME NEW m, Suppress(m) PROVE strays' = strays
      BY <2>5 DEF Suppress, Local
    <2>6. strays' = strays \/ strays' = strays + 1
      BY <1>2, <2>1, <2>2, <2>3, <2>4, <2>5 DEF Environment
    <2> QED
      BY <2>6
  <1> QED
    BY <1>1, <1>2 DEF Next, vars

\* The plan is a lock and the journal an index, whatever loaders, crashes and late
\* requests did: a loader that resumes finds one build, journaled row by row.
THEOREM LoadsAreSingle == Spec => []TargetIsOneLoad
  <1>1. Init => LoadInv
    BY FS_EmptySet
       DEF Init, LoadInv, OfThePlan, Counted, JournalCoversRows, CarriedRows, Zero
  <1>2. IInv /\ LoadInv /\ [Next]_vars => LoadInv'
    <2> SUFFICES ASSUME IInv, LoadInv, [Next]_vars PROVE LoadInv'
      OBVIOUS
    <2>1. TargetStep /\ (strays' = 0 => strays = 0) /\ strays \in Nat
      BY NextIsTargetStep, StraysAreCounted DEF IInv, ProcessTypes
    <2> QED
      BY <2>1, LoadInvariant DEF IInv
  <1>3. LoadInv => TargetIsOneLoad
    BY DEF LoadInv, OfThePlan, TargetIsOneLoad, SingleBuild
  <1> QED
    BY <1>1, <1>2, <1>3, Invariance, PTL DEF Spec

-----------------------------------------------------------------------------
(* The activation rows: what they prove, and when they strand a target.      *)

VerifyPlaces == {"v_schema", "v_journal", "v_counts", "v_plan", "v_meta", "v_projection"}
ActivatePlaces == {"a_meta", "stamp", "pending", "publish", "readback"}

HasReport(o) == o.build \in Builds /\ o.report \in 1 .. report[o.build]

\* Whoever is past the projection check, in a target without outside statements,
\* has a build whose visible rows are all public.
AllowlistHolds(b) == PublicView(BuildTables(b), {}) = Visible(BuildTables(b))

ActivationsOK ==
    /\ \A p \in Operators :
          /\ op[p].pc \in ActivatePlaces => op[p].phase = "activate"
          /\ op[p].pc \in VerifyPlaces => op[p].phase \in {"verify", "activate"}
          /\ op[p].phase = "activate" => HasReport(op[p])
          /\ strays = 0 /\ op[p].pc \in {"stamp", "pending", "publish"} =>
                AllowlistHolds(op[p].build)
    /\ \A o \in orphans : o.pc \in {"stamp", "publish"} => HasReport(o)
    /\ faults = 0 => orphans = {}

\* p stored the activation rows that are there and has not reached the gate.
BoundBy(p) ==
    /\ op[p].pc \in {"pending", "publish"}
    /\ meta.binding = [build |-> op[p].build, report |-> op[p].report]

SomeoneGoesOn ==
    meta.binding # NoBinding /\ ~meta.ready /\ faults = 0 /\ strays = 0 =>
        \E p \in Operators : BoundBy(p)

EvidenceInv ==
    /\ ActivationsOK /\ BindingIsEvidence /\ AllowlistMatchesView /\ SomeoneGoesOn
    /\ meta.binding # NoBinding => meta.staged \in Builds
AllInv == IInv /\ LoadInv /\ EvidenceInv

LEMMA VisibleIsFinite ==
    ASSUME NEW rs, IsFiniteSet(rs["moment_visibility"])
    PROVE  IsFiniteSet(Visible(rs))
  <1> DEFINE f == [m \in Visible(rs) |-> <<m, 1>>]
  <1>1. f \in Injection(Visible(rs), rs["moment_visibility"])
    BY DEF Injection, IsInjective, Visible
  <1> QED
    BY <1>1, FS_Injection

LEMMA ViewsAreNested ==
    ASSUME NEW rs, rs["moments"] \subseteq Moments, NEW off
    PROVE  PublicView(rs, off) \subseteq PublicView(rs, {}) /\ PublicView(rs, {}) \subseteq Visible(rs)
  BY DEF PublicView, Visible

\* Two equal counts decide the projection, since one set contains the other.
LEMMA CountsDecideProjection ==
    ASSUME TargetInv, LoadInv, NEW b \in Builds, ProjectionMatches(b)
    PROVE  PublicView(rows, {}) = Visible(rows)
  <1>1. /\ "moments" \in SourceTables /\ "moment_visibility" \in SourceTables
        /\ RowsOf("moments") = Moments
    BY DEF SourceTables, RowsOf
  <1>2. IsFiniteSet(Visible(rows))
    BY <1>1, VisibleIsFinite DEF TargetInv, Finite
  <1>3. rows["moments"] \subseteq Moments
    BY <1>1 DEF LoadInv, Counted
  <1>4. /\ PublicView(rows, suppressed) \subseteq PublicView(rows, {})
        /\ PublicView(rows, {}) \subseteq Visible(rows)
    BY <1>3, ViewsAreNested
  <1>5. PublicView(rows, suppressed) = Visible(rows)
    BY <1>2, <1>4, FS_Subset DEF ProjectionMatches
  <1> QED
    BY <1>4, <1>5

LEMMA WholeJournal ==
    ASSUME TargetInv, LoadInv, NEW b \in Builds, Shards(b) \subseteq markers
    PROVE  plan = b /\ meta.staged = b
  <1>1. PICK i, j \in 1 .. Len(Plan[b]) :
            ShardTable(<<b, i>>) = PlanTable /\ ShardTable(<<b, j>>) = MetaTable
    BY EndShards
  <1>2. <<b, i>> \in markers \ {Stray} /\ <<b, j>> \in markers \ {Stray}
    BY ShardFacts
  <1>3. plan = b
    BY <1>2 DEF LoadInv, OfThePlan
  <1>4. meta.staged = b
    BY <1>1, <1>2, <1>3 DEF LoadInv, OfThePlan, TargetInv, Journaled
  <1> QED
    BY <1>3, <1>4

\* Without outside statements a target with a whole package is that package.
LEMMA WholePackage ==
    ASSUME TargetInv, LoadInv, strays = 0, NEW b \in Builds, Shards(b) \subseteq markers
    PROVE  /\ markers = Shards(b) /\ plan = b /\ meta.staged = b
           /\ \A t \in SourceTables : rows[t] = BuildRows(b, t)
  <1>1. plan = b /\ meta.staged = b
    BY WholeJournal
  <1>2. markers = Shards(b)
    BY <1>1 DEF LoadInv, OfThePlan, TargetInv, TargetTypes, AllShards, Shards
  <1> QED
    BY <1>1, <1>2 DEF LoadInv, JournalCoversRows, BuildRows

LEMMA SameTablesSameViews ==
    ASSUME NEW b \in Builds, \A t \in SourceTables : rows[t] = BuildRows(b, t)
    PROVE  /\ Visible(rows) = Visible(BuildTables(b))
           /\ PublicView(rows, {}) = PublicView(BuildTables(b), {})
  <1>1. \A t \in SourceTables : rows[t] = BuildTables(b)[t]
    BY DEF BuildTables
  <1> QED
    BY <1>1 DEF SourceTables, Visible, PublicView

LEMMA GateWillOpen ==
    ASSUME TargetInv, LoadInv, strays = 0, ~meta.ready,
           NEW b \in Builds, NEW r \in Nat, Shards(b) \subseteq markers, AllowlistHolds(b),
           meta.binding = [build |-> b, report |-> r]
    PROVE  GateOpen(b, r)
  <1>1. /\ markers = Shards(b) /\ plan = b /\ meta.staged = b
        /\ \A t \in SourceTables : rows[t] = BuildRows(b, t)
    BY WholePackage
  <1>2. Cardinality(markers) = Len(Plan[b])
    BY <1>1, ShardCount
  <1>3. CountsMatch(b) /\ PlanCounts(b)
    BY <1>1, PlanAssumption DEF CountsMatch, PlanCounts, Expected, LoadInv, Counted
  <1>4. suppressed = {}
    BY DEF TargetInv, Released
  <1>5. ProjectionMatches(b)
    BY <1>1, <1>4, SameTablesSameViews DEF ProjectionMatches, PublicCount, AllowlistHolds
  <1> QED
    BY <1>1, <1>2, <1>3, <1>5 DEF GateOpen

\* A step of a loader ends it or leads to the next place; what it is about stays.
Proceeds(p) ==
    /\ op' = [op EXCEPT ![p] = op'[p]]
    /\ \/ op'[p] = Idle
       \/ /\ op'[p].phase = op[p].phase /\ op'[p].build = op[p].build
          /\ op'[p].report = op[p].report
          /\ op'[p].pc # "a_meta"
          /\ op'[p].pc \in VerifyPlaces => op[p].pc \in VerifyPlaces \cup {"a_meta"}
          /\ op'[p].pc = "stamp" =>
                /\ op[p].pc = "v_projection" /\ op[p].phase # "verify"
                /\ ProjectionMatches(op[p].build)
          /\ op'[p].pc = "pending" => op[p].pc = "stamp"
          /\ op'[p].pc = "publish" => op[p].pc = "pending"
          /\ op'[p].pc = "readback" => op[p].pc = "publish"

LEMMA ExitProceeds ==
    ASSUME NEW p \in Operators, op \in [Operators -> Processes], Exit(p)
    PROVE  Proceeds(p)
  BY DEF Exit, Proceeds

LEMMA LoadProceeds ==
    ASSUME NEW p \in Operators, op \in [Operators -> Processes], LoadStep(p)
    PROVE  Proceeds(p)
  <1>1. op[p] \in Processes
    OBVIOUS
  <1>2. ASSUME NEW x \in Processes, op' = [op EXCEPT ![p] = x],
               x.phase = op[p].phase, x.build = op[p].build, x.report = op[p].report,
               x.pc \notin VerifyPlaces \cup ActivatePlaces
        PROVE  Proceeds(p)
    BY <1>2 DEF Proceeds, ActivatePlaces
  <1>3. ASSUME NEW pc \in PCs \ (VerifyPlaces \cup ActivatePlaces), Goto(p, pc)
        PROVE  Proceeds(p)
    BY <1>1, <1>3 DEF Goto, Proceeds, Processes, ActivatePlaces
  <1>4. ASSUME NEW S, Resume(p, S) PROVE Proceeds(p)
    <2>1. CASE Missing(op[p].build, S) = {}
      BY <1>4, <2>1, ExitProceeds DEF Resume
    <2>2. CASE Missing(op[p].build, S) # {}
      <3>1. PICK i \in Missing(op[p].build, S) :
              op' = [op EXCEPT ![p] = [@ EXCEPT !.pc = "import", !.at = i, !.seen = S,
                                                !.counters = Zero]]
        BY <1>4, <2>2 DEF Resume
      <3> QED
        BY <1>1, <3>1 DEF Proceeds, Processes, VerifyPlaces
    <2> QED
      BY <2>1, <2>2
  <1> USE DEF PCs, VerifyPlaces, ActivatePlaces
  <1>5. CASE ImportPrepare(p) \/ ImportShard(p)
    BY <1>3, <1>5, ExitProceeds DEF ImportPrepare, ImportShard
  <1>6. CASE CheckPrepared(p) \/ ReadJournal(p) \/ ReadCounts(p)
    <2>1. PICK x : /\ op' = [op EXCEPT ![p] = x]
                   /\ \/ x = Idle
                      \/ x = [op[p] EXCEPT !.pc = "l_journal", !.at = 0]
                      \/ x = [op[p] EXCEPT !.pc = "prepare", !.at = schema]
                      \/ x = [op[p] EXCEPT !.pc = "l_counts", !.seen = markers]
                      \/ x = [op[p] EXCEPT !.pc = "l_meta",
                               !.counters = [t \in SourceTables |-> Cardinality(rows[t])]]
      BY <1>6 DEF CheckPrepared, ReadJournal, ReadCounts
    <2>2. op'[p] = x
      BY <2>1
    <2> QED
      BY <1>1, <2>1, <2>2 DEF Proceeds, Processes
  <1>7. CASE ReadLoadMeta(p)
    BY <1>3, <1>4, <1>7, ExitProceeds DEF ReadLoadMeta
  <1>8. CASE ReadPlan(p)
    BY <1>4, <1>8, ExitProceeds DEF ReadPlan
  <1>9. CASE ReadMarker(p)
    <2>1. CASE op' = [op EXCEPT ![p].pc = "l_newplan",
                                ![p].seen = @ \cup {<<op[p].build, op[p].at>>}]
      BY <1>1, <2>1 DEF Proceeds, Processes
    <2> QED
      BY <1>4, <1>9, <2>1, ExitProceeds DEF ReadMarker
  <1>10. CASE ReadNewPlan(p)
    <2>1. CASE op' = [op EXCEPT ![p].pc = "l_newcounts", ![p].counters = loaded]
      BY <1>1, <2>1 DEF Proceeds, Processes
    <2> QED
      BY <1>10, <2>1, ExitProceeds DEF ReadNewPlan
  <1>11. CASE ReadNewCounts(p)
    BY <1>4, <1>11, ExitProceeds DEF ReadNewCounts
  <1> QED
    BY <1>5, <1>6, <1>7, <1>8, <1>9, <1>10, <1>11 DEF LoadStep

LEMMA VerifyProceeds ==
    ASSUME NEW p \in Operators, op \in [Operators -> Processes],
           op[p].pc \in VerifyPlaces => op[p].phase \in {"verify", "activate"},
           VerifyStep(p)
    PROVE  Proceeds(p)
  <1> USE DEF Check, At, Goto, Proceeds, Processes, VerifyPlaces
  <1>1. CASE VerifySchema(p) \/ VerifyJournal(p)
    BY <1>1, ExitProceeds DEF VerifySchema, VerifyJournal
  <1>2. CASE VerifyCounts(p) \/ VerifyPlan(p) \/ VerifyMeta(p)
    BY <1>2, ExitProceeds DEF VerifyCounts, VerifyPlan, VerifyMeta
  <1>3. CASE VerifyProjection(p)
    BY <1>3, ExitProceeds DEF VerifyProjection
  <1>4. CASE WriteReport(p)
    BY <1>4, ExitProceeds DEF WriteReport
  <1> QED
    BY <1>1, <1>2, <1>3, <1>4 DEF VerifyStep

LEMMA ActivateProceeds ==
    ASSUME NEW p \in Operators, op \in [Operators -> Processes], ActivateStep(p)
    PROVE  Proceeds(p)
  <1> USE DEF Check, At, Goto, Proceeds, Processes, VerifyPlaces
  <1>1. CASE ReadActivateMeta(p) \/ ReadPending(p) \/ ReadBack(p)
    BY <1>1, ExitProceeds DEF ReadActivateMeta, ReadPending, ReadBack
  <1>2. CASE Stamp(p) \/ Publish(p)
    BY <1>2 DEF Stamp, Publish
  <1> QED
    BY <1>1, <1>2 DEF ActivateStep

\* What happens to the loaders, the reports and the requests in one step.
Proceeding ==
    /\ \/ UNCHANGED op
       \/ \E p \in Operators : Proceeds(p) \/ Start(p)
    /\ \A b \in Builds : report'[b] \in Nat /\ report[b] <= report'[b]
    /\ \A o \in orphans' : \/ o \in orphans
                            \/ \E p \in Operators : /\ o.pc = op[p].pc
                                                     /\ o.build = op[p].build
                                                     /\ o.report = op[p].report
    /\ faults' = 0 => faults = 0 /\ orphans' \subseteq orphans

LEMMA NextIsProceeding ==
    ASSUME IInv, ActivationsOK, [Next]_vars
    PROVE  Proceeding
  <1>1. /\ op \in [Operators -> Processes] /\ report \in [Builds -> Nat]
        /\ faults \in Nat
    BY DEF IInv, ProcessTypes
  <1>2. CASE UNCHANGED vars
    BY <1>1, <1>2 DEF vars, Proceeding
  <1>3. ASSUME NEW p \in Operators, Start(p) PROVE Proceeding
    BY <1>1, <1>3
       DEF Start, StartLoad, StartVerify, StartActivate, ReadOnly, Local, Proceeding
  <1>4. ASSUME NEW p \in Operators, LoadStep(p) PROVE Proceeding
    <2>1. UNCHANGED <<report, orphans, faults>>
      BY <1>4 DEF LoadStep, ImportPrepare, CheckPrepared, ReadJournal, ReadCounts,
         ReadLoadMeta, ReadPlan, ImportShard, ReadMarker, ReadNewPlan, ReadNewCounts,
         ReadOnly, Local
    <2> QED
      BY <1>1, <1>4, <2>1, LoadProceeds DEF Proceeding
  <1>5. ASSUME NEW p \in Operators, VerifyStep(p) PROVE Proceeding
    <2>1. UNCHANGED <<orphans, faults>>
      BY <1>5 DEF VerifyStep, VerifySchema, VerifyJournal, VerifyCounts, VerifyPlan,
         VerifyMeta, VerifyProjection, WriteReport, ReadOnly, Local
    <2>2. \/ report' = report
          \/ op[p].pc = "write_report" /\ report' = [report EXCEPT ![op[p].build] = @ + 1]
      BY <1>5 DEF VerifyStep, VerifySchema, VerifyJournal, VerifyCounts, VerifyPlan,
         VerifyMeta, VerifyProjection, WriteReport, ReadOnly, At
    <2>3. \A b \in Builds : report'[b] \in Nat /\ report[b] <= report'[b]
      BY <1>1, <2>2
    <2> QED
      BY <1>1, <1>5, <2>1, <2>3, VerifyProceeds DEF ActivationsOK, Proceeding
  <1>6. ASSUME NEW p \in Operators, ActivateStep(p) PROVE Proceeding
    <2>1. UNCHANGED <<report, orphans, faults>>
      BY <1>6 DEF ActivateStep, ReadActivateMeta, Stamp, ReadPending, Publish, ReadBack,
         ReadOnly, Local
    <2> QED
      BY <1>1, <1>6, <2>1, ActivateProceeds DEF Proceeding
  <1>7. CASE Environment
    <2>1. ASSUME NEW p \in Operators, Crash(p) PROVE Proceeding
      BY <1>1, <2>1, ExitProceeds DEF Crash, Proceeding
    <2>2. ASSUME NEW o \in orphans, Arrive(o) PROVE Proceeding
      BY <1>1, <2>2 DEF Arrive, Proceeding
    <2>3. ASSUME NEW t, NEW row, StrayRow(t, row) PROVE Proceeding
      BY <1>1, <2>3 DEF StrayRow, Proceeding
    <2>4. CASE StrayMarker
      BY <1>1, <2>4 DEF StrayMarker, Proceeding
    <2>5. ASSUME NEW m, Suppress(m) PROVE Proceeding
      BY <1>1, <2>5 DEF Suppress, Local, Proceeding
    <2> QED
      BY <1>7, <2>1, <2>2, <2>3, <2>4, <2>5 DEF Environment
  <1> QED
    BY <1>2, <1>3, <1>4, <1>5, <1>6, <1>7 DEF Next, Step

LEMMA ActivationsInvariant ==
    ASSUME AllInv, [Next]_vars
    PROVE  ActivationsOK'
  <1>1. /\ IInv /\ LoadInv /\ ActivationsOK /\ TargetInv
        /\ op \in [Operators -> Processes] /\ report \in [Builds -> Nat]
        /\ \A q \in Operators : op[q] \in Processes
    BY DEF AllInv, EvidenceInv, IInv, ProcessTypes
  <1>2. Proceeding
    BY <1>1, NextIsProceeding
  <1>3. strays' = 0 => strays = 0
    BY <1>1, StraysAreCounted DEF IInv
  <1>4. ASSUME NEW x, x.report \in Nat, HasReport(x) PROVE x.report \in 1 .. report'[x.build]
    BY <1>1, <1>2, <1>4 DEF Proceeding, HasReport
  <1> DEFINE Fine(x) ==
               /\ x.pc \in ActivatePlaces => x.phase = "activate"
               /\ x.pc \in VerifyPlaces => x.phase \in {"verify", "activate"}
               /\ x.phase = "activate" => x.build \in Builds /\ x.report \in 1 .. report'[x.build]
               /\ strays' = 0 /\ x.pc \in {"stamp", "pending", "publish"} =>
                     AllowlistHolds(x.build)
  <1>5. \A q \in Operators : Fine(op[q])
    <2> SUFFICES ASSUME NEW q \in Operators PROVE Fine(op[q])
      OBVIOUS
    <2>1. op[q].report \in Nat
      BY <1>1 DEF Processes
    <2> QED
      BY <1>1, <1>3, <1>4, <2>1 DEF ActivationsOK, HasReport
  <1>6. Fine(Idle)
    BY DEF Idle, ActivatePlaces, VerifyPlaces
  <1>7. ASSUME NEW p \in Operators, Proceeds(p) PROVE Fine(op'[p])
    <2>1. CASE op'[p] = Idle
      BY <1>6, <2>1
    <2>2. CASE op'[p] # Idle
      <3> DEFINE x == op'[p]
      <3>1. /\ x.phase = op[p].phase /\ x.build = op[p].build /\ x.report = op[p].report
            /\ x.pc # "a_meta"
            /\ x.pc \in VerifyPlaces => op[p].pc \in VerifyPlaces \cup {"a_meta"}
            /\ x.pc = "stamp" =>
                  /\ op[p].pc = "v_projection" /\ op[p].phase # "verify"
                  /\ ProjectionMatches(op[p].build)
            /\ x.pc = "pending" => op[p].pc = "stamp"
            /\ x.pc = "publish" => op[p].pc = "pending"
            /\ x.pc = "readback" => op[p].pc = "publish"
        BY <1>7, <2>2 DEF Proceeds
      <3> HIDE DEF x
      <3>2. x.phase = "activate" => x.build \in Builds /\ x.report \in 1 .. report'[x.build]
        BY <1>5, <3>1
      <3>3. x.pc \in VerifyPlaces => x.phase \in {"verify", "activate"}
        BY <1>5, <3>1 DEF ActivatePlaces
      <3>4. x.pc \in ActivatePlaces => x.phase = "activate"
        BY <1>5, <3>1 DEF ActivatePlaces, VerifyPlaces
      <3>5. strays' = 0 /\ x.pc = "stamp" => AllowlistHolds(x.build)
        <4> SUFFICES ASSUME strays' = 0, x.pc = "stamp" PROVE AllowlistHolds(x.build)
          OBVIOUS
        <4>1. op[p].build \in Builds /\ Shards(op[p].build) \subseteq markers
          BY <1>1, <3>1 DEF IInv, ProcessesOK, ProcessOK, MayRely, JournalSeen
        <4>2. strays = 0
          BY <1>3
        <4>3. PublicView(rows, {}) = Visible(rows)
          BY <1>1, <3>1, <4>1, CountsDecideProjection
        <4> QED
          BY <1>1, <3>1, <4>1, <4>2, <4>3, WholePackage, SameTablesSameViews
             DEF AllowlistHolds
      <3> QED
        BY <1>5, <3>1, <3>2, <3>3, <3>4, <3>5 DEF x
    <2> QED
      BY <2>1, <2>2
  <1>8. ASSUME NEW p \in Operators, Start(p) PROVE Fine(op'[p])
    <2>1. PICK b \in Builds : StartLoad(p, b) \/ StartVerify(p, b) \/ StartActivate(p, b)
      BY <1>8 DEF Start
    <2>2. report' = report
      BY <2>1 DEF StartLoad, StartVerify, StartActivate, ReadOnly
    <2>3. CASE StartLoad(p, b)
      BY <1>1, <2>3 DEF StartLoad, Begin, ActivatePlaces, VerifyPlaces
    <2>4. CASE StartVerify(p, b)
      BY <1>1, <2>4 DEF StartVerify, Begin, ActivatePlaces, VerifyPlaces
    <2>5. CASE StartActivate(p, b)
      <3>1. report[b] \in Nat /\ report[b] > 0
        BY <1>1, <2>5 DEF StartActivate
      <3> QED
        BY <1>1, <2>2, <2>5, <3>1 DEF StartActivate, Begin, ActivatePlaces, VerifyPlaces
    <2> QED
      BY <2>1, <2>3, <2>4, <2>5
  <1>9. \A q \in Operators : Fine(op'[q])
    <2>1. ASSUME NEW p \in Operators, Start(p), NEW q \in Operators, q # p
          PROVE  op'[q] = op[q]
      BY <1>1, <2>1 DEF Start, StartLoad, StartVerify, StartActivate, Begin
    <2>2. ASSUME NEW p \in Operators, Proceeds(p), NEW q \in Operators, q # p
          PROVE  op'[q] = op[q]
      BY <1>1, <2>2 DEF Proceeds
    <2> HIDE DEF Fine
    <2> QED
      BY <1>2, <1>5, <1>7, <1>8, <2>1, <2>2 DEF Proceeding
  <1>10. ASSUME NEW o \in orphans', o.pc \in {"stamp", "publish"}
         PROVE  o.build \in Builds /\ o.report \in 1 .. report'[o.build]
    <2>1. CASE o \in orphans
      <3>1. o.report \in Nat /\ HasReport(o)
        BY <1>1, <1>10, <2>1 DEF IInv, ProcessTypes, Requests, ActivationsOK
      <3> QED
        BY <1>4, <3>1 DEF HasReport
    <2>2. CASE o \notin orphans
      <3>1. PICK p \in Operators : /\ o.pc = op[p].pc /\ o.build = op[p].build
                                   /\ o.report = op[p].report
        BY <1>2, <2>2 DEF Proceeding
      <3> QED
        BY <1>5, <1>10, <3>1 DEF ActivatePlaces
    <2> QED
      BY <2>1, <2>2
  <1>11. faults' = 0 => orphans' = {}
    BY <1>1, <1>2 DEF Proceeding, ActivationsOK
  <1> QED
    BY <1>9, <1>10, <1>11 DEF ActivationsOK, HasReport

\* Only a stamp changes the activation rows, and only from none.
Stamped(b, r) ==
    /\ meta.binding = NoBinding
    /\ meta' = [meta EXCEPT !.binding = [build |-> b, report |-> r]]

LEMMA ExecuteStamps ==
    ASSUME TargetTypes, NEW pc, NEW b, NEW i, NEW r, Execute(pc, b, i, r)
    PROVE  meta'.binding = meta.binding \/ (pc = "stamp" /\ Stamped(b, r))
  BY DEF Execute, ImportSchema, ImportData, ImportPlanShard, ImportSourceShard,
     ImportMetaShard, InsertBinding, SetReady, Stamped, TargetTypes

LEMMA NextStamps ==
    ASSUME TargetTypes, [Next]_vars
    PROVE  \/ meta'.binding = meta.binding
           \/ \E p \in Operators : Stamp(p) /\ Stamped(op[p].build, op[p].report)
           \/ \E o \in orphans : o.pc = "stamp" /\ Stamped(o.build, o.report)
  <1> DEFINE Kept == meta'.binding = meta.binding
  <1>1. CASE UNCHANGED vars
    BY <1>1 DEF vars
  <1>2. ASSUME NEW p \in Operators, Start(p) PROVE Kept
    BY <1>2 DEF Start, StartLoad, StartVerify, StartActivate, ReadOnly, target
  <1>3. ASSUME NEW p \in Operators, LoadStep(p) PROVE Kept
    <2>1. CASE ImportPrepare(p) \/ ImportShard(p)
      BY <2>1, ExecuteStamps DEF ImportPrepare, ImportShard, target
    <2> QED
      BY <1>3, <2>1 DEF LoadStep, CheckPrepared, ReadJournal, ReadCounts, ReadLoadMeta,
         ReadPlan, ReadMarker, ReadNewPlan, ReadNewCounts, ReadOnly, target
  <1>4. ASSUME NEW p \in Operators, VerifyStep(p) PROVE Kept
    BY <1>4 DEF VerifyStep, VerifySchema, VerifyJournal, VerifyCounts, VerifyPlan,
       VerifyMeta, VerifyProjection, WriteReport, ReadOnly, target
  <1>5. ASSUME NEW p \in Operators, ActivateStep(p)
        PROVE  Kept \/ (Stamp(p) /\ Stamped(op[p].build, op[p].report))
    <2>1. CASE Stamp(p)
      BY <2>1, ExecuteStamps DEF Stamp, target
    <2>2. CASE Publish(p)
      BY <2>2, ExecuteStamps DEF Publish, target
    <2> QED
      BY <1>5, <2>1, <2>2 DEF ActivateStep, ReadActivateMeta, ReadPending, ReadBack,
         ReadOnly, target
  <1>6. CASE Environment
    <2>1. ASSUME NEW p \in Operators, Crash(p) PROVE Kept
      BY <2>1 DEF Crash, target
    <2>2. ASSUME NEW o \in orphans, Arrive(o)
          PROVE  Kept \/ (o.pc = "stamp" /\ Stamped(o.build, o.report))
      BY <2>2, ExecuteStamps DEF Arrive, target
    <2>3. ASSUME NEW t, NEW row, StrayRow(t, row) PROVE Kept
      BY <2>3 DEF StrayRow
    <2>4. CASE StrayMarker
      BY <2>4 DEF StrayMarker
    <2>5. ASSUME NEW m, Suppress(m) PROVE Kept
      BY <2>5 DEF Suppress
    <2> HIDE DEF Kept
    <2> QED
      BY <1>6, <2>1, <2>2, <2>3, <2>4, <2>5 DEF Environment, Kept
  <1> HIDE DEF Kept
  <1> QED
    BY <1>1, <1>2, <1>3, <1>4, <1>5, <1>6 DEF Next, Step, Kept

\* Staged metadata stays, and so does an open gate.
LEMMA MetaStays ==
    ASSUME TargetInv, TargetStep
    PROVE  /\ meta.staged # NoBuild => meta'.staged = meta.staged
           /\ meta.ready => meta'.ready
  BY DEF TargetInv, TargetTypes, TargetStep, Untouched, target, SchemaFile, ImportSchema,
     DataFile, ImportData, ImportPlanShard, ImportSourceShard, ImportMetaShard, Binding,
     InsertBinding, Opening, SetReady, OutsideRow, OutsideMarker, Takedown

LEMMA EvidenceInvariant ==
    ASSUME AllInv, [Next]_vars
    PROVE  EvidenceInv'
  <1>1. /\ IInv /\ LoadInv /\ EvidenceInv /\ ActivationsOK /\ TargetInv /\ TargetTypes
        /\ op \in [Operators -> Processes] /\ report \in [Builds -> Nat]
        /\ TargetStep
    BY NextIsTargetStep DEF AllInv, EvidenceInv, IInv, ProcessTypes, TargetInv
  <1>2. Proceeding /\ ActivationsOK'
    BY <1>1, NextIsProceeding, ActivationsInvariant
  <1>3. (strays' = 0 => strays = 0) /\ (faults' = 0 => faults = 0)
    BY <1>1, <1>2, StraysAreCounted DEF IInv, Proceeding
  <1>4. /\ meta.staged # NoBuild => meta'.staged = meta.staged
        /\ meta.ready => meta'.ready
    BY <1>1, MetaStays
  <1>5. ASSUME NEW o, ProcessOK(o), o.pc = "stamp", HasReport(o), o.report \in Nat,
               Stamped(o.build, o.report)
        PROVE  /\ meta'.staged = o.build
               /\ meta'.binding = [build |-> o.build, report |-> o.report]
               /\ o.report \in 1 .. report'[o.build]
               /\ ~meta.ready /\ meta'.ready = meta.ready
    <2>1. o.build \in Builds /\ Shards(o.build) \subseteq markers
      BY <1>5 DEF ProcessOK, MayRely, JournalSeen
    <2>2. meta.staged = o.build
      BY <1>1, <2>1, WholeJournal
    <2>3. ~meta.ready
      BY <1>1, <1>5 DEF TargetInv, Released, Stamped
    <2> QED
      BY <1>1, <1>2, <1>5, <2>1, <2>2, <2>3
         DEF Stamped, TargetTypes, HasReport, Proceeding
  <1>6. ASSUME NEW p \in Operators, Stamp(p)
        PROVE  ProcessOK(op[p]) /\ op[p].pc = "stamp" /\ HasReport(op[p]) /\ op[p].report \in Nat
    BY <1>1, <1>6 DEF Stamp, At, IInv, ProcessesOK, ActivationsOK, ActivatePlaces, Processes
  <1>7. ASSUME NEW o \in orphans, o.pc = "stamp"
        PROVE  ProcessOK(o) /\ HasReport(o) /\ o.report \in Nat
    BY <1>1, <1>7 DEF IInv, ProcessesOK, ActivationsOK, ProcessTypes, Requests
  <1>8. ASSUME meta'.binding = meta.binding
        PROVE  /\ BindingIsEvidence' /\ SomeoneGoesOn'
               /\ (meta.binding # NoBinding => meta.staged \in Builds)'
    <2>1. BindingIsEvidence' /\ (meta.binding # NoBinding => meta.staged \in Builds)'
      <3> SUFFICES ASSUME meta.binding # NoBinding
                   PROVE  /\ meta'.binding.build = meta'.staged
                          /\ meta'.binding.report \in 1 .. report'[meta'.staged]
                          /\ meta'.staged \in Builds
        BY <1>8 DEF BindingIsEvidence
      <3>1. meta.staged \in Builds /\ meta'.staged = meta.staged
        BY <1>1, <1>4, PlanAssumption DEF EvidenceInv
      <3>2. meta.binding.report \in Nat /\ meta.binding.report \in 1 .. report[meta.staged]
            /\ meta.binding.build = meta.staged
        BY <1>1 DEF TargetTypes, Bindings, EvidenceInv, BindingIsEvidence
      <3>3. report[meta.staged] \in Nat /\ report'[meta.staged] \in Nat
            /\ report[meta.staged] <= report'[meta.staged]
        BY <1>1, <1>2, <3>1 DEF Proceeding
      <3> QED
        BY <1>8, <3>1, <3>2, <3>3
    <2>2. SomeoneGoesOn'
      <3> SUFFICES ASSUME meta.binding # NoBinding, ~meta'.ready, faults' = 0, strays' = 0
                   PROVE  \E q \in Operators : BoundBy(q)'
        BY <1>8 DEF SomeoneGoesOn
      <3>1. PICK q \in Operators : BoundBy(q)
        BY <1>1, <1>3, <1>4 DEF EvidenceInv, SomeoneGoesOn
      <3>2. CASE op'[q] = op[q]
        BY <1>8, <3>1, <3>2 DEF BoundBy
      <3> DEFINE b == op[q].build
                 r == op[q].report
      <3>3. /\ b \in Builds /\ Shards(b) \subseteq markers /\ r \in Nat
            /\ op[q] \in Processes
        BY <1>1, <3>1 DEF BoundBy, IInv, ProcessesOK, ProcessOK, MayRely, JournalSeen,
           Processes
      <3>4. meta.staged = b /\ AllowlistHolds(b)
        BY <1>1, <1>3, <3>1, <3>3, WholeJournal DEF BoundBy, ActivationsOK
      <3>5. GateOpen(b, r)
        BY <1>1, <1>3, <1>4, <3>1, <3>3, <3>4, GateWillOpen DEF BoundBy
      <3>6. ~Publish(q)
        BY <1>1, <1>4, <3>5 DEF Publish, Execute, Refused, SetReady, GateOpen, TargetTypes
      <3>7. ReadPending(q) => BoundBy(q)'
        <4> SUFFICES ASSUME ReadPending(q) PROVE BoundBy(q)'
          OBVIOUS
        <4>1. meta = [staged |-> b, binding |-> [build |-> b, report |-> r],
                      ready |-> FALSE]
          BY <1>1, <1>4, <3>1, <3>4 DEF BoundBy, TargetTypes
        <4>2. op' = [op EXCEPT ![q].pc = "publish"]
          BY <4>1 DEF ReadPending, Check, Goto
        <4> QED
          BY <1>1, <1>8, <3>1, <3>3, <4>2 DEF BoundBy, Processes
      <3>8. ~Crash(q)
        BY <1>1, <1>3 DEF Crash, IInv, ProcessTypes
      <3>9. ASSUME NEW p \in Operators, p # q, op' = [op EXCEPT ![p] = op'[p]]
            PROVE  op'[q] = op[q]
        BY <1>1, <3>9
      <3>10. \/ op'[q] = op[q]
             \/ Start(q) \/ LoadStep(q) \/ VerifyStep(q) \/ ActivateStep(q) \/ Crash(q)
        <4>1. ASSUME NEW p \in Operators, Start(p), p # q PROVE op'[q] = op[q]
          BY <1>1, <4>1 DEF Start, StartLoad, StartVerify, StartActivate, Begin
        <4>2. ASSUME NEW p \in Operators, Step(p), p # q PROVE op'[q] = op[q]
          <5>1. Proceeds(p)
            BY <1>1, <4>2, LoadProceeds, VerifyProceeds, ActivateProceeds
               DEF Step, ActivationsOK
          <5> QED
            BY <3>9, <4>2, <5>1 DEF Proceeds
        <4>3. ASSUME NEW p \in Operators, Crash(p), p # q PROVE op'[q] = op[q]
          BY <1>1, <4>3 DEF Crash, Exit
        <4>4. Environment => op'[q] = op[q] \/ Crash(q)
          BY <4>3 DEF Environment, Arrive, StrayRow, StrayMarker, Suppress
        <4> QED
          BY <4>1, <4>2, <4>4 DEF Next, Step, vars
      <3>11. op[q].pc \in {"pending", "publish"}
        BY <3>1 DEF BoundBy
      <3>12. ~Start(q)
        BY <3>11 DEF Start, StartLoad, StartVerify, StartActivate, At
      <3>13. ~LoadStep(q)
        BY <3>11 DEF LoadStep, ImportPrepare, CheckPrepared, ReadJournal, ReadCounts,
           ReadLoadMeta, ReadPlan, ImportShard, ReadMarker, ReadNewPlan, ReadNewCounts, At
      <3>14. ~VerifyStep(q)
        BY <3>11 DEF VerifyStep, VerifySchema, VerifyJournal, VerifyCounts, VerifyPlan,
           VerifyMeta, VerifyProjection, WriteReport, At
      <3>15. ActivateStep(q) => ReadPending(q) \/ Publish(q)
        BY <3>11 DEF ActivateStep, ReadActivateMeta, Stamp, ReadBack, At
      <3> QED
        BY <3>2, <3>6, <3>7, <3>8, <3>10, <3>12, <3>13, <3>14, <3>15
    <2> QED
      BY <2>1, <2>2
  <1>9. ASSUME meta'.binding # meta.binding
        PROVE  /\ BindingIsEvidence' /\ SomeoneGoesOn'
               /\ (meta.binding # NoBinding => meta.staged \in Builds)'
    <2>1. PICK o : /\ ProcessOK(o) /\ o.pc = "stamp" /\ HasReport(o) /\ o.report \in Nat
                   /\ Stamped(o.build, o.report)
                   /\ \/ \E p \in Operators : o = op[p] /\ Stamp(p)
                      \/ o \in orphans
      BY <1>1, <1>6, <1>7, <1>9, NextStamps
    <2>2. BindingIsEvidence' /\ (meta.binding # NoBinding => meta.staged \in Builds)'
      <3>1. /\ meta'.staged = o.build
            /\ meta'.binding = [build |-> o.build, report |-> o.report]
            /\ o.report \in 1 .. report'[o.build]
        BY <1>5, <2>1
      <3>2. o.build \in Builds
        BY <2>1 DEF HasReport
      <3> QED
        BY <3>1, <3>2 DEF BindingIsEvidence
    <2>3. SomeoneGoesOn'
      <3> SUFFICES ASSUME faults' = 0 PROVE \E q \in Operators : BoundBy(q)'
        BY DEF SomeoneGoesOn
      <3>1. orphans = {}
        BY <1>1, <1>3 DEF ActivationsOK
      <3>2. PICK p \in Operators : o = op[p] /\ Stamp(p)
        BY <2>1, <3>1
      <3>3. op' = [op EXCEPT ![p].pc = "pending"]
        BY <3>2 DEF Stamp, Goto
      <3>4. op'[p].pc = "pending" /\ op'[p].build = o.build /\ op'[p].report = o.report
        BY <1>1, <3>2, <3>3 DEF Processes
      <3> QED
        BY <1>5, <2>1, <3>4 DEF BoundBy
    <2> QED
      BY <2>2, <2>3
  <1>10. AllowlistMatchesView'
    <2>1. CASE meta.ready
      <3>1. rows' = rows
        BY <1>1, <2>1, OpenTargetRejects DEF Untouched, target, OutsideMarker, Takedown
      <3> QED
        BY <1>1, <2>1, <3>1 DEF EvidenceInv, AllowlistMatchesView, Visible, PublicView
    <2>2. CASE ~meta.ready /\ meta'.ready
      <3>1. Opening
        BY <1>1, <2>2 DEF TargetStep, Untouched, target, SchemaFile, ImportSchema, DataFile,
           ImportData, ImportPlanShard, ImportSourceShard, ImportMetaShard, Binding,
           InsertBinding, OutsideRow, OutsideMarker, Takedown, TargetInv, TargetTypes
      <3>2. PICK b \in Builds : ProjectionMatches(b) /\ rows' = rows
        BY <3>1 DEF Opening, SetReady, GateOpen
      <3>3. PublicView(rows, {}) = Visible(rows)
        BY <1>1, <3>2, CountsDecideProjection
      <3> QED
        BY <3>2, <3>3 DEF AllowlistMatchesView, Visible, PublicView
    <2>3. CASE ~meta'.ready
      BY <2>3 DEF AllowlistMatchesView
    <2> QED
      BY <2>1, <2>2, <2>3
  <1> QED
    BY <1>2, <1>8, <1>9, <1>10 DEF EvidenceInv

\* What activate leaves behind is evidence of the build it opens; and as long as nothing
\* dies and nobody writes from outside, somebody is always on the way to the gate.
THEOREM ActivationsAreEvidence == Spec => []ActivationIsEvidence
  <1>1. Init => LoadInv
    BY FS_EmptySet
       DEF Init, LoadInv, OfThePlan, Counted, JournalCoversRows, CarriedRows, Zero
  <1>2. Init => EvidenceInv
    BY DEF Init, EvidenceInv, ActivationsOK, BindingIsEvidence, AllowlistMatchesView,
       SomeoneGoesOn, Idle, ActivatePlaces, VerifyPlaces
  <1>3. AllInv /\ [Next]_vars => AllInv'
    <2> SUFFICES ASSUME AllInv, [Next]_vars PROVE AllInv'
      OBVIOUS
    <2>1. TargetStep /\ (strays' = 0 => strays = 0) /\ strays \in Nat
      BY NextIsTargetStep, StraysAreCounted DEF AllInv, IInv, ProcessTypes
    <2> QED
      BY <2>1, Inductive, LoadInvariant, EvidenceInvariant DEF AllInv, IInv
  <1>4. AllInv => ActivationIsEvidence
    <2> SUFFICES ASSUME AllInv PROVE StrandingNeedsAFault
      BY DEF AllInv, EvidenceInv, ActivationIsEvidence
    <2>1. ASSUME Stranded, faults = 0, strays = 0 PROVE FALSE
      <3>1. PICK q \in Operators : BoundBy(q)
        BY <2>1 DEF Stranded, AllInv, EvidenceInv, SomeoneGoesOn
      <3> QED
        BY <2>1, <3>1
           DEF Stranded, Activating, BoundBy, AllInv, EvidenceInv, ActivationsOK, ActivatePlaces
    <2>2. faults \in Nat /\ strays \in Nat
      BY DEF AllInv, IInv, ProcessTypes
    <2> QED
      BY <2>1, <2>2 DEF StrandingNeedsAFault
  <1> QED
    BY <1>1, <1>2, <1>3, <1>4, Initially, PTL DEF Spec, AllInv
=============================================================================
