---------------------------- MODULE StagedRelease ----------------------------
(***************************************************************************)
(* Staged loading of the archive, Compass and Collections databases by     *)
(* their three D1 loaders.  A load imports the data files of a build one   *)
(* by one, each with its journal marker; verify reads the journal back;    *)
(* activate verifies again and imports a finalizer that writes the         *)
(* metadata which makes the Worker serve the database.  The archive has    *)
(* two databases that are activated one after the other.  Operators may    *)
(* run loaders side by side, may be killed, and an import whose sender is  *)
(* gone may still be applied.  Unlike the Moments database these have no   *)
(* triggers that guard the release: what protects it is primary keys, the  *)
(* order of the loaders' checks and, for Collections, the finalizer.       *)
(***************************************************************************)
EXTENDS Naturals, FiniteSets

CONSTANTS
    Operators,     \* concurrent runs of a loader
    Builds,        \* build packages
    NoBuild,       \* "none"
    Tools,         \* the loaders looked at: "archive", "compass", "collections"
    Scenes,        \* bound: packages on the disks, processes killed, outside statements
    ShardCount,    \* data files of a build for one database
    PrepareFiles   \* schema files of a Compass build

AllRoles == {"catalog", "holdings", "compass", "collections"}
Roles(t) == IF t = "archive" THEN {"catalog", "holdings"} ELSE {t}

ASSUME StagedReleaseAssumption ==
    /\ IsFiniteSet(Builds) /\ NoBuild \notin Builds
    /\ Tools \subseteq {"archive", "compass", "collections"}
    /\ Scenes \subseteq [packages : SUBSET Builds, faults : Nat, strays : Nat]
    /\ ShardCount \in Nat \ {0} /\ PrepareFiles \in Nat \ {0}

VARIABLES
    tool, scene,   \* the loader and the disturbances of this behaviour
    schema,        \* schema files applied; all of them except for Compass
    journal,       \* import_shards of each database
    rows,          \* the business rows, one for each data file
    meta,          \* archive_meta or collections_meta: the build served
    proven,        \* builds with a report that their objects are all in R2
    op,            \* the loader processes
    orphans,       \* imports in flight whose sender is gone
    faults, strays,
    confirmed      \* history: builds whose activation reported success

databases == <<schema, journal, rows, meta>>
vars == <<tool, scene, databases, proven, op, orphans, faults, strays, confirmed>>

\* The data files of a build, in the order of their paths, as its report lists them.
Shards(b) == {<<b, i>> : i \in 1 .. ShardCount}
AllShards == UNION {Shards(b) : b \in Builds}
Stray == <<NoBuild, 0>>

PCs == {"idle", "schema", "prepare", "prepared", "meta", "inspect", "journal", "import",
        "marker", "count", "recount", "totals", "presence", "gate", "finalize", "readback"}
Idle == [phase |-> "none", pc |-> "idle", build |-> NoBuild, role |-> "none",
         seen |-> {}, count |-> 0, at |-> 0]
Processes == [phase : {"none", "load", "verify", "activate"}, pc : PCs,
              build : Builds \cup {NoBuild}, role : AllRoles \cup {"none"},
              seen : SUBSET AllShards, count : 0 .. Cardinality(AllShards) + 1,
              at : 0 .. ShardCount + PrepareFiles]
Requests == [pc : {"prepare", "import", "finalize"}, build : Builds, role : AllRoles,
             at : 0 .. ShardCount + PrepareFiles]

TypeOK ==
    /\ tool \in Tools /\ scene \in Scenes
    /\ schema \in 0 .. PrepareFiles
    /\ journal \in [AllRoles -> SUBSET AllShards]
    /\ rows \in [AllRoles -> SUBSET (AllShards \cup {Stray})]
    /\ meta \in [AllRoles -> Builds \cup {NoBuild}]
    /\ proven \subseteq Builds /\ confirmed \subseteq Builds
    /\ op \in [Operators -> Processes]
    /\ \A p \in Operators :
          /\ op[p].pc = "prepare" => op[p].at \in 1 .. PrepareFiles
          /\ op[p].pc = "import" => op[p].at \in 1 .. ShardCount
    /\ orphans \subseteq Requests
    /\ faults \in 0 .. scene.faults /\ strays \in 0 .. scene.strays

\* preflight: an empty staging database, with its schema unless it is Compass's.
Init ==
    /\ tool \in Tools /\ scene \in Scenes
    /\ schema = IF tool = "compass" THEN 0 ELSE PrepareFiles
    /\ journal = [r \in AllRoles |-> {}] /\ rows = [r \in AllRoles |-> {}]
    /\ meta = [r \in AllRoles |-> NoBuild]
    /\ proven = {} /\ confirmed = {}
    /\ op = [p \in Operators |-> Idle] /\ orphans = {}
    /\ faults = 0 /\ strays = 0
-----------------------------------------------------------------------------
(* What D1 does with one file: it applies as a whole or not at all.          *)

\* Schema files are plain CREATE statements.
ImportSchema(i) ==
    /\ schema = i - 1 /\ schema' = i
    /\ UNCHANGED <<journal, rows, meta>>

\* A data file ends with its marker, whose primary key rejects a second import.
ImportShard(r, b, i) ==
    /\ <<b, i>> \notin journal[r] /\ <<b, i>> \notin rows[r]
    /\ journal' = [journal EXCEPT ![r] = @ \cup {<<b, i>>}]
    /\ rows' = [rows EXCEPT ![r] = @ \cup {<<b, i>>}]
    /\ UNCHANGED <<schema, meta>>

\* Rows of another package, or typed in, may hold the primary keys of this file.
MayConflict(r, b, i) == rows[r] \ Shards(b) # {}

Publish(r, b) ==
    /\ meta' = [meta EXCEPT ![r] = b]
    /\ UNCHANGED <<schema, journal, rows>>

\* The finalizer of the archive and of Compass is a plain INSERT of the metadata.
PlainFinalizer(r, b) == meta[r] = NoBuild /\ Publish(r, b)

\* The Collections finalizer selects its rows under a guard, and may select none.
CollectionsFinalizer(r, b) ==
    IF meta[r] = NoBuild /\ journal[r] = Shards(b) /\ Cardinality(rows[r]) = ShardCount
      THEN Publish(r, b) ELSE UNCHANGED databases

Finalize(r, b) ==
    \/ tool = "collections" /\ CollectionsFinalizer(r, b)
    \/ tool # "collections" /\ PlainFinalizer(r, b)

Apply(q) ==
    \/ q.pc = "prepare" /\ ImportSchema(q.at)
    \/ q.pc = "import" /\ ImportShard(q.role, q.build, q.at)
    \/ q.pc = "finalize" /\ Finalize(q.role, q.build)

\* The same files when D1 rejects them.
Rejects(q) ==
    \/ q.pc = "prepare" /\ schema # q.at - 1
    \/ /\ q.pc = "import"
       /\ \/ <<q.build, q.at>> \in journal[q.role] \cup rows[q.role]
          \/ MayConflict(q.role, q.build, q.at)
    \/ q.pc = "finalize" /\ tool # "collections" /\ meta[q.role] # NoBuild
-----------------------------------------------------------------------------
(* A loader process.                                                         *)

At(p, pc) == op[p].pc = pc
Goto(p, pc) == op' = [op EXCEPT ![p].pc = pc]
Exit(p) == op' = [op EXCEPT ![p] = Idle]
\* A failed check throws, and the process ends.
Check(p, ok, pc) == IF ok THEN Goto(p, pc) ELSE Exit(p)
Quietly == UNCHANGED <<tool, scene, proven, orphans, faults, strays>>
ReadOnly == UNCHANGED databases /\ UNCHANGED confirmed /\ Quietly
Request(p) == [pc |-> op[p].pc, build |-> op[p].build, role |-> op[p].role, at |-> op[p].at]

FirstPC == IF tool = "compass" THEN "schema" ELSE "inspect"
LoadOrder == IF tool = "archive" THEN <<"catalog", "holdings">> ELSE <<tool>>

Start(p, phase, b) ==
    /\ At(p, "idle") /\ b \in scene.packages
    /\ op' = [op EXCEPT ![p] = [Idle EXCEPT !.phase = phase, !.pc = FirstPC, !.build = b,
                                            !.role = LoadOrder[1]]]
    /\ ReadOnly

StartLoad(p, b) == Start(p, "load", b)
StartVerify(p, b) == Start(p, "verify", b)
\* activate needs the report that the objects are in R2, except for Compass.
StartActivate(p, b) ==
    (tool = "compass" \/ b \in proven) /\ Start(p, "activate", b)

Send(p, pc) ==
    /\ At(p, pc)
    /\ \/ Apply(Request(p)) /\ Goto(p, CASE pc = "prepare"  -> "prepared"
                                         [] pc = "import"   -> "marker"
                                         [] pc = "finalize" -> "readback")
       \/ Rejects(Request(p)) /\ Exit(p) /\ UNCHANGED databases
    /\ UNCHANGED confirmed /\ Quietly

\* The next data file without a marker in "seen"; after the last one, "done".
Missing(b, seen) == {i \in 1 .. ShardCount : <<b, i>> \notin seen}
Resume(p, seen, done) ==
    LET b == op[p].build
    IN  IF Missing(b, seen) = {} THEN done
        ELSE \E i \in Missing(b, seen) :
                /\ \A j \in Missing(b, seen) : i <= j
                /\ op' = [op EXCEPT ![p].pc = "import", ![p].at = i, ![p].seen = seen]

ReadsMarker(p) == At(p, "marker") /\ ReadOnly
MarkerThere(p) == <<op[p].build, op[p].at>> \in journal[op[p].role]
SeenNow(p) == op[p].seen \cup {<<op[p].build, op[p].at>>}
Known(p) == journal[op[p].role] \subseteq Shards(op[p].build)
Complete(p) == journal[op[p].role] = Shards(op[p].build)
Success(p) ==
    /\ Exit(p) /\ UNCHANGED databases /\ Quietly
    /\ confirmed' = IF op[p].phase = "activate" THEN confirmed \cup {op[p].build}
                    ELSE confirmed
-----------------------------------------------------------------------------
(* The Collections loader.                                                   *)

\* inspectTarget: the counts, and the metadata must still be empty.
CollectionsInspect(p) ==
    /\ tool = "collections" /\ At(p, "inspect") /\ ReadOnly
    /\ IF meta["collections"] # NoBuild THEN Exit(p)
       ELSE op' = [op EXCEPT ![p].pc = "journal",
                             ![p].count = Cardinality(rows["collections"])]

\* Mutant: load accepts only an empty target.
CollectionsFromScratch(p) ==
    /\ tool = "collections" /\ At(p, "journal") /\ op[p].phase = "load" /\ ReadOnly
    /\ IF journal["collections"] = {} /\ op[p].count = 0
         THEN Resume(p, {}, Goto(p, "recount")) ELSE Exit(p)

\* load: the journal is read after the counts and must announce exactly them.
CollectionsResume(p) ==
    /\ tool = "collections" /\ At(p, "journal") /\ op[p].phase = "load" /\ ReadOnly
    /\ IF Known(p) /\ op[p].count = Cardinality(journal["collections"])
         THEN Resume(p, journal["collections"], Goto(p, "recount")) ELSE Exit(p)

CollectionsMarker(p) ==
    /\ tool = "collections" /\ ReadsMarker(p)
    /\ IF MarkerThere(p) THEN Goto(p, "count") ELSE Exit(p)

\* After each import the table must hold what the markers seen announce.
CollectionsCount(p) ==
    /\ tool = "collections" /\ At(p, "count") /\ ReadOnly
    /\ IF Cardinality(rows["collections"]) = Cardinality(SeenNow(p))
         THEN Resume(p, SeenNow(p), Goto(p, "recount")) ELSE Exit(p)

CollectionsVerify(p) ==
    /\ tool = "collections" /\ At(p, "journal") /\ op[p].phase # "load"
    /\ IF Complete(p) /\ op[p].count = ShardCount
         THEN IF op[p].phase = "verify" THEN Success(p) ELSE Goto(p, "finalize") /\ ReadOnly
         ELSE Exit(p) /\ ReadOnly

CollectionsReadBack(p) ==
    /\ tool = "collections" /\ At(p, "readback")
    /\ Check(p, meta["collections"] = op[p].build, "recount") /\ ReadOnly

\* The last step of load and of activate: the counts once more.
CollectionsRecount(p) ==
    /\ tool = "collections" /\ At(p, "recount")
    /\ IF /\ Cardinality(rows["collections"]) = ShardCount
          /\ op[p].phase = "load" => meta["collections"] = NoBuild
         THEN Success(p) ELSE Exit(p) /\ ReadOnly
-----------------------------------------------------------------------------
(* The Compass loader.                                                       *)

\* Mutant: a partial schema is continued from where it ends.
CompassSchemaPrefix(p) ==
    /\ tool = "compass" /\ At(p, "schema") /\ ReadOnly
    /\ IF schema = PrepareFiles
         THEN Goto(p, IF op[p].phase = "load" THEN "meta" ELSE "journal")
       ELSE IF op[p].phase = "load"
         THEN op' = [op EXCEPT ![p].pc = "prepare", ![p].at = schema + 1]
       ELSE Exit(p)

\* schemaState: load prepares an empty target, and no phase accepts a partial one.
CompassSchema(p) ==
    /\ tool = "compass" /\ At(p, "schema") /\ ReadOnly
    /\ IF schema = PrepareFiles
         THEN Goto(p, IF op[p].phase = "load" THEN "meta" ELSE "journal")
       ELSE IF schema = 0 /\ op[p].phase = "load"
         THEN op' = [op EXCEPT ![p].pc = "prepare", ![p].at = 1]
       ELSE Exit(p)

\* The next schema file; after the last one the schema is read once more.
CompassPrepared(p) ==
    /\ tool = "compass" /\ At(p, "prepared") /\ ReadOnly
    /\ IF op[p].at < PrepareFiles
         THEN op' = [op EXCEPT ![p].pc = "prepare", ![p].at = @ + 1]
         ELSE Check(p, schema = PrepareFiles, "meta")

CompassMeta(p) ==
    /\ tool = "compass" /\ At(p, "meta")
    /\ Check(p, meta["compass"] = NoBuild, "journal") /\ ReadOnly

CompassResume(p) ==
    /\ tool = "compass" /\ At(p, "journal") /\ op[p].phase = "load"
    /\ IF Known(p) /\ Missing(op[p].build, journal["compass"]) # {}
         THEN Resume(p, journal["compass"], FALSE) /\ ReadOnly
       ELSE IF Known(p) THEN Success(p)
       ELSE Exit(p) /\ ReadOnly

CompassMarker(p) ==
    /\ tool = "compass" /\ At(p, "marker")
    /\ IF MarkerThere(p) /\ Missing(op[p].build, SeenNow(p)) = {} THEN Success(p)
       ELSE IF MarkerThere(p) THEN Resume(p, SeenNow(p), FALSE) /\ ReadOnly
       ELSE Exit(p) /\ ReadOnly

\* verify counts what the journal says and asks only whether there are rows.
CompassVerify(p) ==
    /\ tool = "compass" /\ At(p, "journal") /\ op[p].phase # "load"
    /\ Check(p, Complete(p), "totals") /\ ReadOnly

CompassTotals(p) ==
    /\ tool = "compass" /\ At(p, "totals")
    /\ Check(p, Cardinality(journal["compass"] \cap Shards(op[p].build)) = ShardCount,
             "presence")
    /\ ReadOnly

CompassPresence(p) ==
    /\ tool = "compass" /\ At(p, "presence")
    /\ IF rows["compass"] = {} THEN Exit(p) /\ ReadOnly
       ELSE IF op[p].phase = "verify" THEN Success(p)
       ELSE Goto(p, "gate") /\ ReadOnly

\* Mutant: the finalizer is imported without a look at the metadata.
CompassActivateBlindly(p) ==
    /\ tool = "compass" /\ (At(p, "gate") \/ At(p, "readback"))
    /\ IF At(p, "readback") /\ meta["compass"] = op[p].build THEN Success(p)
       ELSE Check(p, At(p, "gate"), "finalize") /\ ReadOnly

\* activate accepts metadata that is there, when it is its own.
CompassActivate(p) ==
    /\ tool = "compass" /\ (At(p, "gate") \/ At(p, "readback"))
    /\ IF meta["compass"] = op[p].build THEN Success(p)
       ELSE /\ Check(p, meta["compass"] = NoBuild /\ At(p, "gate"), "finalize")
            /\ ReadOnly
-----------------------------------------------------------------------------
(* The archive loader: two databases, loaded catalog first and activated     *)
(* Holdings first.                                                           *)

\* Mutant: the databases are activated in the order of their load.
CatalogFirst == <<"catalog", "holdings">>
ActivateOrder == <<"holdings", "catalog">>

Turn(p, role, pc) == op' = [op EXCEPT ![p].pc = pc, ![p].role = role, ![p].seen = {}]

\* inspectTarget: load refuses metadata, and rows without a journal.
ArchiveInspect(p) ==
    /\ tool = "archive" /\ At(p, "inspect")
    /\ LET r == op[p].role
       IN  Check(p, op[p].phase = "load" =>
                      meta[r] = NoBuild /\ (journal[r] = {} => rows[r] = {}), "journal")
    /\ ReadOnly

\* What follows the last data file of a database.
ArchiveLoaded(p) ==
    IF op[p].role = "catalog" THEN Turn(p, "holdings", "inspect") /\ ReadOnly ELSE Success(p)

ArchiveResume(p) ==
    /\ tool = "archive" /\ At(p, "journal") /\ op[p].phase = "load"
    /\ LET seen == journal[op[p].role]
       IN  IF ~Known(p) THEN Exit(p) /\ ReadOnly
           ELSE IF Missing(op[p].build, seen) = {} THEN ArchiveLoaded(p)
           ELSE Resume(p, seen, FALSE) /\ ReadOnly

ArchiveMarker(p) ==
    /\ tool = "archive" /\ At(p, "marker")
    /\ IF ~MarkerThere(p) THEN Exit(p) /\ ReadOnly
       ELSE IF Missing(op[p].build, SeenNow(p)) = {} THEN ArchiveLoaded(p)
       ELSE Resume(p, SeenNow(p), FALSE) /\ ReadOnly

\* verify looks at the journals only: it neither counts rows nor reads the metadata.
ArchiveVerify(p) ==
    /\ tool = "archive" /\ At(p, "journal") /\ op[p].phase # "load"
    /\ IF ~Complete(p) THEN Exit(p) /\ ReadOnly
       ELSE IF op[p].role = "catalog" THEN Turn(p, "holdings", "inspect") /\ ReadOnly
       ELSE IF op[p].phase = "verify" THEN Success(p)
       ELSE Turn(p, ActivateOrder[1], "gate") /\ ReadOnly

\* activate: metadata that is there is accepted when it is this build's.
ArchiveActivate(p) ==
    /\ tool = "archive" /\ (At(p, "gate") \/ At(p, "readback"))
    /\ IF meta[op[p].role] = op[p].build
         THEN IF op[p].role = ActivateOrder[1] THEN Turn(p, ActivateOrder[2], "gate") /\ ReadOnly
              ELSE Success(p)
       ELSE /\ Check(p, meta[op[p].role] = NoBuild /\ At(p, "gate"), "finalize")
            /\ ReadOnly
-----------------------------------------------------------------------------
(* Outside the loaders.                                                      *)

\* The second pass over the objects of a build writes its report.
Prove(b) ==
    /\ tool # "compass" /\ b \in scene.packages \ proven
    /\ proven' = proven \cup {b}
    /\ UNCHANGED <<tool, scene, databases, op, orphans, faults, strays, confirmed>>

\* A process is killed, or an answer is lost: a file it sent has been applied, or
\* not, or may still be.
Crash(p) ==
    /\ ~At(p, "idle") /\ faults < scene.faults /\ faults' = faults + 1
    /\ Exit(p)
    /\ \/ UNCHANGED databases /\ UNCHANGED orphans
       \/ /\ op[p].pc \in {"prepare", "import", "finalize"}
          /\ \/ Apply(Request(p)) /\ UNCHANGED orphans
             \/ orphans' = orphans \cup {Request(p)} /\ UNCHANGED databases
    /\ UNCHANGED <<tool, scene, proven, strays, confirmed>>

Arrive(q) ==
    /\ orphans' = orphans \ {q}
    /\ Apply(q) \/ (Rejects(q) /\ UNCHANGED databases)
    /\ UNCHANGED <<tool, scene, proven, op, faults, strays, confirmed>>

\* A statement that an operator types: it adds a row, or removes one.
Outside(r) ==
    /\ strays < scene.strays /\ strays' = strays + 1 /\ schema = PrepareFiles
    /\ \/ Stray \notin rows[r] /\ rows' = [rows EXCEPT ![r] = @ \cup {Stray}]
       \/ \E s \in rows[r] : rows' = [rows EXCEPT ![r] = @ \ {s}]
    /\ UNCHANGED <<tool, scene, schema, journal, meta, proven, op, orphans, faults, confirmed>>

Collections(p) ==
    \/ CollectionsInspect(p) \/ CollectionsResume(p) \/ CollectionsMarker(p)
    \/ CollectionsCount(p) \/ CollectionsVerify(p) \/ CollectionsReadBack(p)
    \/ CollectionsRecount(p)

Compass(p) ==
    \/ CompassSchema(p) \/ CompassPrepared(p) \/ CompassMeta(p) \/ CompassResume(p)
    \/ CompassMarker(p) \/ CompassVerify(p) \/ CompassTotals(p) \/ CompassPresence(p)
    \/ CompassActivate(p)

Archive(p) ==
    \/ ArchiveInspect(p) \/ ArchiveResume(p) \/ ArchiveMarker(p) \/ ArchiveVerify(p)
    \/ ArchiveActivate(p)

Step(p) ==
    \/ Send(p, "prepare") \/ Send(p, "import") \/ Send(p, "finalize")
    \/ Collections(p) \/ Compass(p) \/ Archive(p)

Next ==
    \/ \E p \in Operators :
          \/ \E b \in Builds : StartLoad(p, b) \/ StartVerify(p, b) \/ StartActivate(p, b)
          \/ Step(p)
          \/ Crash(p)
    \/ \E b \in Builds : Prove(b)
    \/ \E q \in orphans : Arrive(q)
    \/ \E r \in Roles(tool) : Outside(r)

Spec == Init /\ [][Next]_vars

-----------------------------------------------------------------------------
(* Properties.                                                               *)

Ready(b) == \A r \in Roles(tool) : meta[r] = b

\* A database is served only with every data file of its build, whoever loaded it
\* and whatever arrived late (verify before the finalizer, in all three loaders).
ServedIsWhole ==
    \A r \in Roles(tool), b \in Builds : meta[r] = b => Shards(b) \subseteq journal[r]

\* The catalog is never served without the Holdings of the same build, and two
\* packages never end up in one archive (activate: Holdings first).
CatalogHasItsHoldings == meta["catalog"] # NoBuild => meta["holdings"] = meta["catalog"]

\* What Collections serves was, when its finalizer ran, exactly the build: another
\* package loaded meanwhile, or a row from outside, closes the guard.
ReleasesExactly ==
    tool = "collections" =>
         \A b \in Builds : meta["collections"] = NoBuild /\ meta'["collections"] = b =>
                              rows["collections"] = Shards(b)

Preparing == \/ \E p \in Operators : op[p].pc \in {"prepare", "prepared"}
             \/ \E q \in orphans : q.pc = "prepare"

\* A Compass schema that stopped half way: no phase accepts it any more.
Stranded == schema \notin {0, PrepareFiles} /\ ~Preparing

\* Only a killed load, or a lost answer, strands the target: two loads at once do not.
StrandingNeedsAFault == Stranded => faults > 0

\* Whatever the operators and late requests do to the targets of a tool: what is
\* served is whole and in pairs, and a Compass schema is stranded by faults alone.
TargetsAreSound == TypeOK /\ ServedIsWhole /\ CatalogHasItsHoldings /\ StrandingNeedsAFault

\* Two things no step does: bring a stranded target back, for nothing the loader offers
\* does; and release a Collections database that is not exactly its build.
GuardsHold == [][(Stranded => Stranded') /\ ReleasesExactly]_vars

\* One package and nobody else: the promise of GatedRelease, for each tool.
Undisturbed == Cardinality(scene.packages) = 1 /\ scene.strays = 0
Released(r) == IF Undisturbed THEN meta[r] ELSE NoBuild
Served(r) == IF Released(r) = NoBuild THEN {} ELSE {<<r, s>> : s \in rows[r]}
Content(roles) == [b \in Builds |-> UNION {{<<r, s>> : s \in Shards(b)} : r \in roles}]

\* The Worker answers for an owner only when both databases name its snapshot.
ArchiveServed == IF Released("catalog") # Released("holdings") THEN Served("catalog")
                 ELSE Served("catalog") \cup Served("holdings")

ArchiveGate == INSTANCE GatedRelease WITH
    Moments <- AllRoles \X AllShards, Projection <- Content({"catalog", "holdings"}),
    release <- Released("catalog"), public <- ArchiveServed, withdrawn <- {}
CompassGate == INSTANCE GatedRelease WITH
    Moments <- AllRoles \X AllShards, Projection <- Content({"compass"}),
    release <- Released("compass"), public <- Served("compass"), withdrawn <- {}
CollectionsGate == INSTANCE GatedRelease WITH
    Moments <- AllRoles \X AllShards, Projection <- Content({"collections"}),
    release <- Released("collections"), public <- Served("collections"), withdrawn <- {}

\* Each database goes from nothing to exactly one build in one step, and stays so;
\* the two of the archive do it together, as the Worker sees them.
ImplementsGates == ArchiveGate!Spec /\ CompassGate!Spec /\ CollectionsGate!Spec

\* What a package that nobody disturbs comes to: served, or the Compass schema is stranded.
ReleaseIsDecided == Stranded \/ \E b \in Builds : Ready(b)

\* Activating again what is already served succeeds, so that an answer that was
\* lost can be asked for again.  Not so for Collections, whose verify refuses it.
ServedIsConfirmed ==
    (Undisturbed /\ tool # "collections" /\ \E b \in Builds : Ready(b))
        ~> \E b \in confirmed : Ready(b)
=============================================================================
