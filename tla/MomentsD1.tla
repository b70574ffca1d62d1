----------------------------- MODULE MomentsD1 ------------------------------
(***************************************************************************)
(* The Moments release gate: operators run the loader's phases (load,      *)
(* verify, activate) against one staging D1 database.  Every phase is a    *)
(* process that reads the target with one query at a time and exits on the *)
(* first check that fails; D1 applies one SQL file or one statement        *)
(* atomically and its triggers may abort it.  Operators run concurrently,  *)
(* may be killed between any two requests, may lose an answer, and a       *)
(* request in flight when its sender dies may still be applied later.      *)
(***************************************************************************)
EXTENDS Naturals, Sequences, FiniteSets

CONSTANTS
    Operators,   \* concurrent runs of the loader
    Builds,      \* build packages on the operators' disks
    NoBuild,     \* "none"
    Moments, Drops,
    Plan,        \* [Builds -> Seq([table, rows])], the data shards in path order
    MaxReports,  \* bound: verification reports written for one build
    MaxFaults,   \* bound: processes killed, or answers lost
    MaxStrays    \* bound: statements issued outside the loader

PlanTable == "moments_import_plan"
MetaTable == "moments_meta"
\* Four of the eleven guarded tables; the other seven get the same treatment.
SourceTables ==
    {"moments", "moment_visibility", "moment_drops", "moment_hidden_drops"}

Tables == SourceTables \cup {PlanTable, MetaTable}

RowsOf(t) ==
    CASE t = "moments"             -> Moments
      [] t = "moment_visibility"   -> Moments \X {0, 1}
      [] t = "moment_drops"        -> Moments \X Drops
      [] t = "moment_hidden_drops" -> Drops

Row == UNION {RowsOf(t) : t \in SourceTables}

\* A package is its data shards: the first one carries the import plan, the last
\* one the staged metadata, every other one rows of a source table.
IsPackage(s) ==
    /\ Len(s) >= 2
    /\ s[1].table = PlanTable
    /\ s[Len(s)].table = MetaTable
    /\ \A i \in 2 .. Len(s) - 1 : s[i].table \in SourceTables
    /\ \A i \in 1 .. Len(s) : s[i].table \in SourceTables =>
          /\ s[i].rows \subseteq RowsOf(s[i].table)
          /\ s[i].rows # {} /\ IsFiniteSet(s[i].rows)

ASSUME PlanAssumption ==
    /\ NoBuild \notin Builds
    /\ Plan \in [Builds -> Seq([table : Tables, rows : SUBSET Row])]
    /\ \A b \in Builds : IsPackage(Plan[b])
ASSUME BoundAssumption ==
    MaxReports \in Nat /\ MaxFaults \in Nat /\ MaxStrays \in Nat

-----------------------------------------------------------------------------
(* The build package, as the manifest describes it.                          *)

Shards(b) == {<<b, i>> : i \in 1 .. Len(Plan[b])}
ShardTable(s) == Plan[s[1]][s[2]].table
ShardRows(s) == Plan[s[1]][s[2]].rows

\* Rows of table t that a set of the build's shards carries.
CarriedRows(S, t) == UNION {ShardRows(s) : s \in {x \in S : ShardTable(x) = t}}
BuildRows(b, t) == CarriedRows(Shards(b), t)
Expected(b, t) == Cardinality(BuildRows(b, t))

\* public_moments: fail closed on visibility, Drop relation and suppression.
PublicView(rs, off) ==
    {m \in rs["moments"] :
        /\ <<m, 1>> \in rs["moment_visibility"]
        /\ \E d \in Drops : <<m, d>> \in rs["moment_drops"]
        /\ \A d \in rs["moment_hidden_drops"] : <<m, d>> \notin rs["moment_drops"]
        /\ m \notin off}

Visible(rs) == {m \in Moments : <<m, 1>> \in rs["moment_visibility"]}
BuildTables(b) == [t \in SourceTables |-> BuildRows(b, t)]
PublicCount(b) == Cardinality(Visible(BuildTables(b)))
-----------------------------------------------------------------------------
VARIABLES
    schema,      \* how many of the three prepare files have been applied
    markers,     \* import_shards: the shards whose rows were committed
    plan,        \* the build whose rows moments_import_plan holds
    loaded,      \* moments_import_plan.loaded_rows, per source table
    rows,        \* the source tables
    meta,        \* moments_meta: staged rows, activation binding, ready flag
    suppressed,  \* moment_suppressions
    report,      \* the latest verification report on disk, per build
    op,          \* the loader processes
    orphans,     \* requests in flight whose sender has died
    faults, strays

target == <<schema, markers, plan, loaded, rows, meta, suppressed>>
vars == <<schema, markers, plan, loaded, rows, meta, suppressed,
          report, op, orphans, faults, strays>>

NoBinding == [build |-> NoBuild, report |-> 0]
Stray == <<NoBuild, 0>>
Zero == [t \in SourceTables |-> 0]
Idle == [phase |-> "none", pc |-> "idle", build |-> NoBuild, seen |-> {},
         at |-> 0, report |-> 0, counters |-> Zero]

AllShards == UNION {Shards(b) : b \in Builds}
PCs == {"idle", "prepare", "prepared", "l_journal", "l_counts", "l_meta",
        "l_plan", "import", "l_marker", "l_newplan", "l_newcounts",
        "a_meta", "v_schema", "v_journal", "v_counts", "v_plan", "v_meta",
        "v_projection", "write_report", "stamp", "pending", "publish",
        "readback"}
Processes == [phase : {"none", "load", "verify", "activate"}, pc : PCs,
              build : Builds \cup {NoBuild}, seen : SUBSET (AllShards \cup {Stray}),
              at : Nat, report : Nat, counters : [SourceTables -> Nat]]
Requests == [pc : {"prepare", "import", "stamp", "publish"},
             build : Builds, at : Nat, report : Nat]
Bindings == [build : Builds \cup {NoBuild}, report : Nat]

TypeOK ==
    /\ schema \in 0 .. 3
    /\ markers \subseteq AllShards \cup {Stray}
    /\ plan \in Builds \cup {NoBuild}
    /\ loaded \in [SourceTables -> Nat]
    /\ rows \in [SourceTables -> SUBSET Row]
    /\ meta \in [staged : Builds \cup {NoBuild}, binding : Bindings, ready : BOOLEAN]
    /\ suppressed \subseteq Moments
    /\ report \in [Builds -> Nat]
    /\ op \in [Operators -> Processes]
    /\ orphans \subseteq Requests
    /\ faults \in Nat /\ strays \in Nat

Init ==
    /\ schema = 0 /\ markers = {} /\ plan = NoBuild /\ loaded = Zero
    /\ rows = [t \in SourceTables |-> {}]
    /\ meta = [staged |-> NoBuild, binding |-> NoBinding, ready |-> FALSE]
    /\ suppressed = {}
    /\ report = [b \in Builds |-> 0]
    /\ op = [p \in Operators |-> Idle]
    /\ orphans = {} /\ faults = 0 /\ strays = 0
-----------------------------------------------------------------------------
(* What D1 does with one request: a file or a statement applies as a whole,  *)
(* with the triggers of migration 0003, or changes nothing.                  *)

\* Mutants: the trigger without its ceiling, and with > for >=.
FitsAnyPlan(t, rs) == plan # NoBuild
FitsPlanPlusOne(t, rs) ==
    plan # NoBuild /\ loaded[t] + Cardinality(rs) <= Expected(plan, t) + 1

\* guard_<table>_insert aborts a row past its table's planned count.
FitsPlan(t, rs) ==
    plan # NoBuild /\ loaded[t] + Cardinality(rs) <= Expected(plan, t)

\* Primary keys: the visibility table is keyed by moment, the rest by row.
Key(t, r) == IF t = "moment_visibility" THEN r[1] ELSE r
FreshKeys(t, rs) == \A r \in rs, s \in rows[t] : Key(t, r) # Key(t, s)

\* Foreign keys: a visibility or Drop row needs its moment.
HasParents(t, rs) ==
    t \in {"moment_visibility", "moment_drops"} => \A r \in rs : r[1] \in rows["moments"]

MetaSealed == \E s \in markers \ {Stray} : ShardTable(s) = MetaTable

InsertRows(t, rs) ==
    /\ FitsPlan(t, rs) /\ FreshKeys(t, rs) /\ HasParents(t, rs)
    /\ rows' = [rows EXCEPT ![t] = @ \cup rs]
    /\ loaded' = [loaded EXCEPT ![t] = @ + Cardinality(rs)]

\* Every data file ends with the insert of its own journal marker, whose
\* primary key (snapshot_id, shard_path) rejects a second application.
Journal(b, i) == <<b, i>> \notin markers /\ markers' = markers \cup {<<b, i>>}

ImportPlanShard(b, i) ==
    /\ ShardTable(<<b, i>>) = PlanTable
    /\ plan = NoBuild
    /\ plan' = b
    /\ Journal(b, i)
    /\ UNCHANGED <<schema, loaded, rows, meta, suppressed>>

\* Mutant: a data file without its marker.
ImportUnjournaled(b, i) ==
    /\ ShardTable(<<b, i>>) \in SourceTables
    /\ InsertRows(ShardTable(<<b, i>>), ShardRows(<<b, i>>))
    /\ UNCHANGED <<schema, markers, plan, meta, suppressed>>

ImportSourceShard(b, i) ==
    /\ ShardTable(<<b, i>>) \in SourceTables
    /\ InsertRows(ShardTable(<<b, i>>), ShardRows(<<b, i>>))
    /\ Journal(b, i)
    /\ UNCHANGED <<schema, plan, meta, suppressed>>

ImportMetaShard(b, i) ==
    /\ ShardTable(<<b, i>>) = MetaTable
    /\ meta.staged = NoBuild /\ ~MetaSealed
    /\ meta' = [meta EXCEPT !.staged = b]
    /\ Journal(b, i)
    /\ UNCHANGED <<schema, plan, loaded, rows, suppressed>>

ImportData(b, i) ==
    ImportPlanShard(b, i) \/ ImportSourceShard(b, i) \/ ImportMetaShard(b, i)

\* Prepare files are plain CREATE statements: each applies only on top of
\* its predecessor and aborts on an object that exists.
ImportSchema(i) ==
    /\ schema = i
    /\ schema' = i + 1
    /\ UNCHANGED <<markers, plan, loaded, rows, meta, suppressed>>

\* INSERT of the four activation rows ON CONFLICT(key) DO NOTHING.
InsertBinding(b, r) ==
    /\ meta.binding = NoBinding
    /\ meta' = [meta EXCEPT !.binding = [build |-> b, report |-> r]]
    /\ UNCHANGED <<schema, markers, plan, loaded, rows, suppressed>>

\* moments_meta holds its planned number of rows: no activation row is in.
PlannedMetaRows == meta.binding = NoBinding

\* Mutant: a planned table without rows counts as not loaded.
PlanCountsNonempty(b) ==
    /\ plan # NoBuild
    /\ \A t \in SourceTables :
          /\ Expected(plan, t) = Expected(b, t) /\ loaded[t] = Expected(b, t)
          /\ loaded[t] > 0

PlanCounts(b) ==
    /\ plan # NoBuild
    /\ \A t \in SourceTables :
          Expected(plan, t) = Expected(b, t) /\ loaded[t] = Expected(b, t)

CountsMatch(b) == \A t \in SourceTables : Cardinality(rows[t]) = Expected(b, t)

ProjectionMatches(b) ==
    /\ Cardinality(PublicView(rows, suppressed)) = PublicCount(b)
    /\ Cardinality(Visible(rows)) = PublicCount(b)

\* The conditions of the one guarded UPDATE that may set ready to 1.
GateOpen(b, r) ==
    /\ ~meta.ready
    /\ meta.staged = b
    /\ meta.binding = [build |-> b, report |-> r]
    /\ Cardinality(markers) = Len(Plan[b])
    /\ CountsMatch(b) /\ PlanCounts(b) /\ ProjectionMatches(b)

SetReady(b, r) ==
    /\ GateOpen(b, r)
    /\ meta' = [meta EXCEPT !.ready = TRUE]
    /\ UNCHANGED <<schema, markers, plan, loaded, rows, suppressed>>

\* One request, by the place in the loader that sends it.
Execute(pc, b, i, r) ==
    \/ pc = "prepare" /\ ImportSchema(i)
    \/ pc = "import" /\ ImportData(b, i)
    \/ pc = "stamp" /\ InsertBinding(b, r)
    \/ pc = "publish" /\ SetReady(b, r)

\* The same requests when D1 rejects or ignores them.
Refused(pc, b, i, r) ==
    \/ pc = "prepare" /\ schema # i
    \/ pc = "import" /\ \/ <<b, i>> \in markers
                        \/ ShardTable(<<b, i>>) = PlanTable /\ plan # NoBuild
                        \/ ShardTable(<<b, i>>) = MetaTable
                             /\ (meta.staged # NoBuild \/ MetaSealed)
                        \/ /\ ShardTable(<<b, i>>) \in SourceTables
                           /\ LET t == ShardTable(<<b, i>>)
                                  rs == ShardRows(<<b, i>>)
                              IN  ~(FitsPlan(t, rs) /\ FreshKeys(t, rs) /\ HasParents(t, rs))
    \/ pc = "stamp" /\ meta.binding # NoBinding
    \/ pc = "publish" /\ ~GateOpen(b, r)
-----------------------------------------------------------------------------
(* The loader process.                                                       *)

At(p, pc) == op[p].pc = pc
Goto(p, pc) == op' = [op EXCEPT ![p].pc = pc]
Exit(p) == op' = [op EXCEPT ![p] = Idle]
\* A failed check throws: the process reports it and exits.
Check(p, ok, pc) == IF ok THEN Goto(p, pc) ELSE Exit(p)
Local == UNCHANGED <<orphans, faults, strays>>
ReadOnly == UNCHANGED target /\ UNCHANGED report /\ Local

Begin(p, phase, b, pc, at, r) ==
    op' = [op EXCEPT ![p] = [phase |-> phase, pc |-> pc, build |-> b, seen |-> {},
                             at |-> at, report |-> r, counters |-> Zero]]

\* load: find the schema prefix that is already applied.
StartLoad(p, b) ==
    /\ At(p, "idle")
    /\ Begin(p, "load", b, IF schema = 3 THEN "l_journal" ELSE "prepare", schema, 0)
    /\ ReadOnly

ImportPrepare(p) ==
    /\ At(p, "prepare")
    /\ \/ Execute("prepare", op[p].build, op[p].at, 0) /\ Goto(p, "prepared")
       \/ Refused("prepare", op[p].build, op[p].at, 0) /\ Exit(p) /\ UNCHANGED target
    /\ UNCHANGED report /\ Local

\* Mutant: the prepare loop runs one file too far.
CheckPreparedPastEnd(p) ==
    /\ At(p, "prepared")
    /\ op' = [op EXCEPT ![p] =
                 IF schema # @.at + 1 THEN Idle
                 ELSE IF schema > 3 THEN [@ EXCEPT !.pc = "l_journal", !.at = 0]
                 ELSE [@ EXCEPT !.pc = "prepare", !.at = schema]]
    /\ ReadOnly

CheckPrepared(p) ==
    /\ At(p, "prepared")
    /\ op' = [op EXCEPT ![p] =
                 IF schema # @.at + 1 THEN Idle
                 ELSE IF schema = 3 THEN [@ EXCEPT !.pc = "l_journal", !.at = 0]
                 ELSE [@ EXCEPT !.pc = "prepare", !.at = schema]]
    /\ ReadOnly

\* Mutant: load accepts only an empty journal.
ReadEmptyJournal(p) ==
    /\ At(p, "l_journal")
    /\ op' = [op EXCEPT ![p] = IF markers = {}
                                 THEN [@ EXCEPT !.pc = "l_counts"] ELSE Idle]
    /\ ReadOnly

ReadJournal(p) ==
    /\ At(p, "l_journal")
    /\ op' = [op EXCEPT ![p] = IF markers \subseteq Shards(@.build)
                                 THEN [@ EXCEPT !.pc = "l_counts", !.seen = markers]
                                 ELSE Idle]
    /\ ReadOnly

\* Every business table holds exactly the rows its seen markers announce;
\* moments_meta counts the activation rows too.
CountsMatchMarkers(S, b) ==
    /\ \A t \in SourceTables : Cardinality(rows[t]) = Cardinality(CarriedRows(S, t))
    /\ (plan # NoBuild) <=> \E s \in S : ShardTable(s) = PlanTable
    /\ (meta.staged # NoBuild) <=> \E s \in S : ShardTable(s) = MetaTable
    /\ PlannedMetaRows

ReadCounts(p) ==
    /\ At(p, "l_counts")
    /\ op' = [op EXCEPT ![p] =
                 IF CountsMatchMarkers(@.seen, @.build)
                   THEN [@ EXCEPT !.pc = "l_meta",
                                  !.counters = [t \in SourceTables |-> Cardinality(rows[t])]]
                   ELSE Idle]
    /\ ReadOnly

\* The next shard in path order that has no marker in "existing".
Missing(b, S) == {i \in 1 .. Len(Plan[b]) : <<b, i>> \notin S}
Resume(p, S) ==
    IF Missing(op[p].build, S) = {} THEN Exit(p)
    ELSE \E i \in Missing(op[p].build, S) :
            /\ \A j \in Missing(op[p].build, S) : i <= j
            /\ op' = [op EXCEPT ![p] = [@ EXCEPT !.pc = "import", !.at = i, !.seen = S,
                                                 !.counters = Zero]]

PlanSeen(p) == <<op[p].build, 1>> \in op[p].seen

ReadLoadMeta(p) ==
    /\ At(p, "l_meta")
    /\ IF meta.ready THEN Exit(p)
       ELSE IF PlanSeen(p) THEN Goto(p, "l_plan")
       ELSE Resume(p, op[p].seen)
    /\ ReadOnly

\* assertImportPlan against row counts read earlier.
PlanAgrees(b, counts) ==
    /\ plan # NoBuild
    /\ \A t \in SourceTables :
          Expected(plan, t) = Expected(b, t) /\ loaded[t] = counts[t]

ReadPlan(p) ==
    /\ At(p, "l_plan")
    /\ IF PlanAgrees(op[p].build, op[p].counters) THEN Resume(p, op[p].seen) ELSE Exit(p)
    /\ ReadOnly

ImportShard(p) ==
    /\ At(p, "import")
    /\ \/ Execute("import", op[p].build, op[p].at, 0) /\ Goto(p, "l_marker")
       \/ Refused("import", op[p].build, op[p].at, 0) /\ Exit(p) /\ UNCHANGED target
    /\ UNCHANGED report /\ Local

ReadMarker(p) ==
    /\ At(p, "l_marker")
    /\ LET s == <<op[p].build, op[p].at>>
       IN  IF s \notin markers THEN Exit(p)
           ELSE IF ShardTable(s) = PlanTable
             THEN op' = [op EXCEPT ![p].pc = "l_newplan", ![p].seen = @ \cup {s}]
           ELSE Resume(p, op[p].seen \cup {s})
    /\ ReadOnly

\* After the plan shard: the plan is read first, the row counts after it.
ReadNewPlan(p) ==
    /\ At(p, "l_newplan")
    /\ IF \A t \in SourceTables : Expected(plan, t) = Expected(op[p].build, t)
         THEN op' = [op EXCEPT ![p].pc = "l_newcounts", ![p].counters = loaded]
         ELSE Exit(p)
    /\ ReadOnly

ReadNewCounts(p) ==
    /\ At(p, "l_newcounts")
    /\ IF \A t \in SourceTables : op[p].counters[t] = Cardinality(rows[t])
         THEN Resume(p, op[p].seen)
         ELSE Exit(p)
    /\ ReadOnly
-----------------------------------------------------------------------------
(* verify, and activate, which repeats it before opening the gate.           *)

\* Processes that are about to write a report of this build.
Verifying(b) == {p \in Operators : op[p].phase = "verify" /\ op[p].build = b}

StartVerify(p, b) ==
    /\ At(p, "idle")
    /\ report[b] + Cardinality(Verifying(b)) < MaxReports
    /\ Begin(p, "verify", b, "v_schema", 0, 0)
    /\ ReadOnly

\* Mutant: activate does not ask for a report.
ActivateUnverified(p, b) ==
    /\ At(p, "idle")
    /\ Begin(p, "activate", b, "a_meta", 0, report[b])
    /\ ReadOnly

\* activate reads the report file once; its digest is the evidence it stores.
StartActivate(p, b) ==
    /\ At(p, "idle")
    /\ report[b] > 0
    /\ Begin(p, "activate", b, "a_meta", 0, report[b])
    /\ ReadOnly

\* An activated target is accepted only for the same build and report.
ReadActivateMeta(p) ==
    /\ At(p, "a_meta")
    /\ IF meta.ready THEN Exit(p) ELSE Goto(p, "v_schema")
    /\ ReadOnly

VerifySchema(p) ==
    At(p, "v_schema") /\ Check(p, schema = 3, "v_journal") /\ ReadOnly

VerifyJournal(p) ==
    /\ At(p, "v_journal")
    /\ Check(p, markers = Shards(op[p].build), "v_counts")
    /\ ReadOnly

VerifyCounts(p) ==
    /\ At(p, "v_counts")
    /\ Check(p, /\ CountsMatch(op[p].build)
                /\ plan # NoBuild /\ meta.staged # NoBuild /\ PlannedMetaRows,
             "v_plan")
    /\ ReadOnly

VerifyPlan(p) ==
    At(p, "v_plan") /\ Check(p, PlanCounts(op[p].build), "v_meta") /\ ReadOnly

VerifyMeta(p) ==
    /\ At(p, "v_meta")
    /\ Check(p, meta.staged = op[p].build /\ ~meta.ready /\ PlannedMetaRows,
             "v_projection")
    /\ ReadOnly

VerifyProjection(p) ==
    /\ At(p, "v_projection")
    /\ Check(p, ProjectionMatches(op[p].build),
             IF op[p].phase = "verify" THEN "write_report" ELSE "stamp")
    /\ ReadOnly

WriteReport(p) ==
    /\ At(p, "write_report")
    /\ report' = [report EXCEPT ![op[p].build] = @ + 1]
    /\ Exit(p)
    /\ UNCHANGED target /\ Local

Stamp(p) ==
    /\ At(p, "stamp")
    /\ \/ Execute("stamp", op[p].build, 0, op[p].report)
       \/ Refused("stamp", op[p].build, 0, op[p].report) /\ UNCHANGED target
    /\ Goto(p, "pending")
    /\ UNCHANGED report /\ Local

ReadPending(p) ==
    /\ At(p, "pending")
    /\ Check(p, meta = [staged  |-> op[p].build,
                        binding |-> [build |-> op[p].build, report |-> op[p].report],
                        ready   |-> FALSE], "publish")
    /\ ReadOnly

Publish(p) ==
    /\ At(p, "publish")
    /\ \/ Execute("publish", op[p].build, 0, op[p].report)
       \/ Refused("publish", op[p].build, 0, op[p].report) /\ UNCHANGED target
    /\ Goto(p, "readback")
    /\ UNCHANGED report /\ Local

\* The read after the gate ends the phase whether it opened or not.
ReadBack(p) == At(p, "readback") /\ Exit(p) /\ ReadOnly
-----------------------------------------------------------------------------
(* The environment.                                                          *)

\* A loader is killed, its connection fails or an answer is lost.  The
\* request it was about to send may already be on its way.
Crash(p) ==
    /\ ~At(p, "idle") /\ faults < MaxFaults
    /\ faults' = faults + 1
    /\ Exit(p)
    /\ \/ UNCHANGED orphans
       \/ /\ op[p].pc \in {"prepare", "import", "stamp", "publish"}
          /\ orphans' = orphans \cup
                {[pc |-> op[p].pc, build |-> op[p].build, at |-> op[p].at,
                  report |-> op[p].report]}
    /\ UNCHANGED target /\ UNCHANGED <<report, strays>>

\* A request whose sender died reaches D1 after all.
Arrive(o) ==
    /\ orphans' = orphans \ {o}
    /\ \/ Execute(o.pc, o.build, o.at, o.report)
       \/ Refused(o.pc, o.build, o.at, o.report) /\ UNCHANGED target
    /\ UNCHANGED <<report, op, faults, strays>>

\* Statements from outside the loader: one more source row ...
StrayRow(t, r) ==
    /\ schema = 3 /\ strays < MaxStrays
    /\ InsertRows(t, {r})
    /\ strays' = strays + 1
    /\ UNCHANGED <<schema, markers, plan, meta, suppressed, report, op, orphans, faults>>

\* ... or a journal row that no build announces.
StrayMarker ==
    /\ schema >= 2 /\ strays < MaxStrays /\ Stray \notin markers
    /\ markers' = markers \cup {Stray}
    /\ strays' = strays + 1
    /\ UNCHANGED <<schema, plan, loaded, rows, meta, suppressed, report, op, orphans, faults>>

\* Mutant: suppressions before activation.
SuppressAnytime(m) ==
    /\ m \notin suppressed
    /\ suppressed' = suppressed \cup {m}
    /\ UNCHANGED <<schema, markers, plan, loaded, rows, meta, report, op>> /\ Local

\* The emergency-off switch; its trigger admits it only after activation.
Suppress(m) ==
    /\ meta.ready
    /\ m \notin suppressed
    /\ suppressed' = suppressed \cup {m}
    /\ UNCHANGED <<schema, markers, plan, loaded, rows, meta, report, op>> /\ Local
-----------------------------------------------------------------------------
LoadStep(p) ==
    \/ ImportPrepare(p) \/ CheckPrepared(p) \/ ReadJournal(p) \/ ReadCounts(p)
    \/ ReadLoadMeta(p) \/ ReadPlan(p) \/ ImportShard(p) \/ ReadMarker(p)
    \/ ReadNewPlan(p) \/ ReadNewCounts(p)

VerifyStep(p) ==
    \/ VerifySchema(p) \/ VerifyJournal(p) \/ VerifyCounts(p) \/ VerifyPlan(p)
    \/ VerifyMeta(p) \/ VerifyProjection(p) \/ WriteReport(p)

ActivateStep(p) ==
    \/ ReadActivateMeta(p) \/ Stamp(p) \/ ReadPending(p) \/ Publish(p) \/ ReadBack(p)

Step(p) == LoadStep(p) \/ VerifyStep(p) \/ ActivateStep(p)

Start(p) == \E b \in Builds : StartLoad(p, b) \/ StartVerify(p, b) \/ StartActivate(p, b)

Environment ==
    \/ \E p \in Operators : Crash(p)
    \/ \E o \in orphans : Arrive(o)
    \/ \E t \in SourceTables, b \in Builds : \E r \in BuildRows(b, t) : StrayRow(t, r)
    \/ StrayMarker
    \/ \E m \in Moments : Suppress(m)

Next == (\E p \in Operators : Start(p) \/ Step(p)) \/ Environment

Spec == Init /\ [][Next]_vars

-----------------------------------------------------------------------------
(* Properties.                                                               *)

\* buildAtomicActivationSql and the 0003 triggers: a target that says ready
\* holds every row of the build it names, and not one row more, whatever
\* loads, crashes, late requests and stray statements came before.
ReadyIsExactBuild ==
    meta.ready =>
        /\ meta.staged \in Builds
        /\ Shards(meta.staged) \subseteq markers
        /\ \A t \in SourceTables : rows[t] = BuildRows(meta.staged, t)

\* collectVerification's projection check: no build becomes ready in which a
\* row marked public is hidden by a Drop or lacks one.
AllowlistMatchesView ==
    meta.ready => Visible(rows) = PublicView(rows, {})

\* moments_import_plan as a lock: concurrent loads of two packages into one
\* target never mix, the journal names one build only.
SingleBuild ==
    \A x, y \in markers \ {Stray} : x[1] = y[1]

\* sql-shards.mjs writes rows and marker in one file: without statements from
\* outside the loader the source tables hold the journaled rows and no other.
JournalCoversRows ==
    strays = 0 => \A t \in SourceTables : rows[t] = CarriedRows(markers, t)

\* The activation rows name a report that verified this build, and only the
\* staged build is ever bound.
BindingIsEvidence ==
    meta.binding # NoBinding =>
        /\ meta.binding.build = meta.staged
        /\ meta.binding.report \in 1 .. report[meta.staged]

Activating(p) == op[p].pc \in {"v_projection", "stamp", "pending", "publish"}
                     /\ op[p].phase = "activate"

\* The activation rows are in, the gate is not open, and nobody who could
\* still open it is running.
Stranded ==
    /\ meta.binding # NoBinding /\ ~meta.ready
    /\ \A p \in Operators : ~Activating(p)
    /\ \A o \in orphans : o.pc # "publish"

\* Only a lost process or an outside statement strands an activation: two
\* operators who activate at once cannot do it to each other.
StrandingNeedsAFault ==
    Stranded => faults > 0 \/ strays > 0

\* What a loader may rely on when it resumes: one build, journaled row by row.
TargetIsOneLoad == SingleBuild /\ JournalCoversRows

\* What activate leaves behind: rows that are evidence of the build it opens, and,
\* without a fault, a way on.
ActivationIsEvidence == BindingIsEvidence /\ AllowlistMatchesView /\ StrandingNeedsAFault

\* Once ready is 1 no source row and no metadata changes, and a suppression
\* is never taken back.
FrozenOnceReady ==
    [][meta.ready => /\ UNCHANGED <<schema, plan, loaded, rows, meta>>
                     /\ suppressed \subseteq suppressed']_vars

\* The target as the Worker sees it.
Gate == INSTANCE GatedRelease WITH
    Projection <- [b \in Builds |-> PublicView(BuildTables(b), {})],
    release    <- IF meta.ready THEN meta.staged ELSE NoBuild,
    public     <- IF meta.ready THEN PublicView(rows, suppressed) ELSE {},
    withdrawn  <- suppressed

\* The staging database implements the release gate.
ImplementsGate == Gate!Spec
=============================================================================
