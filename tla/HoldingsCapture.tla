--------------------------- MODULE HoldingsCapture ---------------------------
(***************************************************************************)
(* Capturing the Compass holdings: a source that changes while it is read, *)
(* the runs of the snapshot command that page through its ID ranges, count *)
(* them again and read the contradicted ones once more, the companion      *)
(* capture of the referenced Drops, and the build that takes both.  A run  *)
(* may end between any two transactions; the next one resumes it.          *)
(***************************************************************************)
EXTENDS Naturals, FiniteSets, FiniteSetsExt

CONSTANTS
    Identities,    \* (id, chain) of the rows the source may have
    FirstRows,     \* the rows it has at first
    DropOf,        \* [Identities -> the Drop a row refers to]
    VisibleDrops,  \* the Drops the source answers for
    ShardCount,    \* ID ranges of the capture
    Workers,       \* concurrent requests
    PageSize,      \* rows of one page
    MaxChanges,    \* bound: rows that appear or disappear
    MaxRuns        \* bound: runs of the snapshot command

CaptureAssumption ==
    /\ Identities \subseteq (Nat \ {0}) \X (Nat \ {0}) /\ IsFiniteSet(Identities)
    /\ FirstRows \subseteq Identities
    /\ ShardCount \in Nat \ {0} /\ PageSize \in Nat \ {0}
    /\ MaxChanges \in Nat /\ MaxRuns \in Nat

VARIABLES
    rows, changes,   \* the source, and the changes made to it
    schema, upper,   \* the capture database: its tables, its frozen upper ID
    cursor, captured, started, finished,   \* ... capture_shards
    tokens,          \* ... the captured rows
    recounted,       \* ... the shards with a final count
    journal,         \* ... capture_reconciliations, as <<attempt, shard>>
    phase, attempt, at, tally, pending, contradicted,   \* the run
    worker,          \* its workers
    runs,            \* runs begun so far
    edition, edited, \* manifest.json: how often written, and older than the database
    companion,       \* the referenced Drops and their manifest
    built,           \* the D1 build
    standing, seen, burned   \* history: rows present during all of a shard's pass,
                             \* rows there when it was counted, whether any disappeared

sourceVars == <<rows, changes, burned>>
shardVars == <<cursor, captured, started, finished, tokens>>
runVars == <<phase, attempt, at, tally, pending, contradicted, worker>>
outputVars == <<edition, companion, built>>
vars == <<sourceVars, schema, upper, shardVars, recounted, journal, runVars, runs,
          outputVars, edited, standing, seen>>

Shards == 0 .. ShardCount - 1
Attempts == 1 .. 2
NoChain == 0

\* compareIdentity
Before(r, t) == r[1] < t[1] \/ (r[1] = t[1] /\ r[2] < t[2])

\* shardRanges, and the rows of one range.
Lower(s) == (upper * s) \div ShardCount
Upper(s) == (upper * (s + 1)) \div ShardCount
InShard(set, s) == {r \in set : Lower(s) < r[1] /\ r[1] <= Upper(s)}
InBound(set) == {r \in set : r[1] <= upper}
Start(s) == <<Lower(s), NoChain>>

Off == [at |-> "off", shard |-> 0, rows |-> {}]
NoCompanion == [edition |-> 0, requested |-> {}, asked |-> {}, drops |-> {}, manifest |-> FALSE]
NoBuild == [edition |-> 0, tokens |-> {}, drops |-> {}, companion |-> 0]
Ids == {r[1] : r \in Identities} \cup {0}
Drops == {DropOf[r] : r \in Identities}

TypeOK ==
    /\ rows \subseteq Identities /\ changes \in 0 .. MaxChanges /\ burned \in BOOLEAN
    /\ schema \in {"none", "tables", "ready"} /\ upper \in Ids
    /\ cursor \in [Shards -> Nat \X Nat]
    /\ captured \in [Shards -> 0 .. Cardinality(Identities)]
    /\ started \subseteq Shards /\ finished \subseteq started
    /\ tokens \subseteq Identities
    /\ recounted \subseteq Shards /\ journal \subseteq Attempts \X Shards
    /\ phase \in {"off", "bound", "counts", "identities", "tables", "capture",
                  "recount", "reset", "finalize", "manifest"}
    /\ attempt \in 0 .. 2 /\ at \in 0 .. ShardCount /\ tally \in Nat
    /\ pending \subseteq Shards /\ contradicted \subseteq Shards
    /\ worker \in [Workers -> [at : {"off", "asking", "answered"}, shard : Shards,
                               rows : SUBSET Identities]]
    /\ runs \in 0 .. MaxRuns /\ edition \in 0 .. MaxRuns /\ edited \in BOOLEAN
    /\ companion \in [edition : 0 .. MaxRuns, requested : SUBSET Drops, asked : SUBSET Drops,
                      drops : SUBSET Drops, manifest : BOOLEAN]
    /\ built \in [edition : 0 .. MaxRuns, tokens : SUBSET Identities,
                  drops : SUBSET Drops, companion : 0 .. MaxRuns]
    /\ standing \in [Shards -> SUBSET Identities] /\ seen \in [Shards -> SUBSET Identities]

Init ==
    /\ rows = FirstRows /\ changes = 0 /\ burned = FALSE
    /\ schema = "none" /\ upper = 0
    /\ cursor = [s \in Shards |-> <<0, NoChain>>] /\ captured = [s \in Shards |-> 0]
    /\ started = {} /\ finished = {} /\ tokens = {}
    /\ recounted = {} /\ journal = {}
    /\ phase = "off" /\ attempt = 0 /\ at = 0 /\ tally = 0
    /\ pending = {} /\ contradicted = {} /\ worker = [w \in Workers |-> Off]
    /\ runs = 0 /\ edition = 0 /\ edited = FALSE
    /\ companion = NoCompanion /\ built = NoBuild
    /\ standing = [s \in Shards |-> {}] /\ seen = [s \in Shards |-> {}]
-----------------------------------------------------------------------------
(* The source.                                                               *)

Change ==
    /\ changes < MaxChanges /\ changes' = changes + 1
    /\ UNCHANGED <<schema, upper, shardVars, recounted, journal, runVars, runs, outputVars,
                   edited, seen>>

Mint(r) ==
    /\ r \notin rows /\ rows' = rows \cup {r}
    /\ Change /\ UNCHANGED <<standing, burned>>

Burn(r) ==
    /\ r \in rows /\ rows' = rows \ {r}
    /\ burned' = TRUE
    /\ standing' = [s \in Shards |-> standing[s] \ {r}]
    /\ Change
-----------------------------------------------------------------------------
(* A run of the snapshot command.                                            *)

Calm == UNCHANGED <<sourceVars, runs, outputVars>>
Still == Calm /\ UNCHANGED <<schema, upper, standing, seen>>
NoTables == UNCHANGED <<shardVars, recounted, journal, edited, standing, seen>>
NoWork == UNCHANGED <<pending, contradicted, worker, attempt>>

\* The unfinished shards are read, in order of their number.
BeginCapture ==
    /\ phase' = "capture" /\ pending' = Shards \ finished' /\ contradicted' = {}

\* verifyResumeContext: tables without the rows of capture_meta match no run.
ResumeContext == schema # "tables"

\* upgradeCaptureSchema: the final counts of an earlier run are dropped.
UpgradeSchema == recounted' = {} /\ edited' = TRUE /\ UNCHANGED shardVars

\* captureCompassHoldingsSnapshot, with --resume if there is a capture.
Begin ==
    /\ phase = "off" /\ runs < MaxRuns /\ ResumeContext /\ runs' = runs + 1
    /\ \/ /\ schema = "none" /\ phase' = "bound"
          /\ UNCHANGED <<shardVars, recounted, pending, contradicted, edited>>
       \/ schema = "ready" /\ UpgradeSchema /\ BeginCapture
    /\ attempt' = 0 /\ at' = 0 /\ tally' = 0
    /\ UNCHANGED <<sourceVars, schema, upper, journal, worker, outputVars, standing, seen>>

\* The run is killed, or a request, a statement or a check of it fails.
Abort ==
    /\ phase # "off" /\ phase' = "off"
    /\ attempt' = 0 /\ at' = 0 /\ tally' = 0 /\ pending' = {} /\ contradicted' = {}
    /\ worker' = [w \in Workers |-> Off]
    /\ UNCHANGED <<shardVars, recounted, journal, edited>> /\ Still

\* initializeCapture: the largest ID ...
ReadUpperBound ==
    /\ phase = "bound" /\ phase' = "counts"
    /\ \E m \in Ids : /\ \A r \in rows : r[1] <= m
                      /\ m # 0 => \E r \in rows : r[1] = m
                      /\ upper' = m
    /\ UNCHANGED <<schema, at, tally>> /\ Calm /\ NoTables /\ NoWork

\* ... the rows of each range ...
CountShard ==
    /\ phase = "counts"
    /\ tally' = tally + Cardinality(InShard(rows, at))
    /\ IF at + 1 < ShardCount THEN at' = at + 1 /\ UNCHANGED phase
       ELSE at' = 0 /\ phase' = "identities"
    /\ UNCHANGED <<schema, upper>> /\ Calm /\ NoTables /\ NoWork

\* ... the number of identities, which must be the number of rows ...
CountIdentities ==
    /\ phase = "identities" /\ Cardinality(InBound(rows)) = tally
    /\ phase' = "tables" /\ schema' = "tables" /\ tally' = 0
    /\ UNCHANGED <<upper, at>> /\ Calm /\ NoTables /\ NoWork

\* ... and one transaction for the rows of capture_meta and capture_shards.
InsertShards ==
    /\ phase = "tables" /\ schema' = "ready"
    /\ cursor' = [s \in Shards |-> Start(s)]
    /\ UNCHANGED <<captured, started, finished, tokens>>
    /\ BeginCapture
    /\ UNCHANGED <<upper, at, tally, attempt, worker, recounted, journal, edited, standing, seen>>
    /\ Calm

KeepShards == UNCHANGED <<recounted, journal, edited, attempt, at, tally, contradicted>>

\* A worker takes the next pending shard: captureShard.
Take(w) ==
    /\ phase = "capture" /\ worker[w].at = "off"
    /\ \E s \in pending :
          /\ \A u \in pending : s <= u
          /\ pending' = pending \ {s}
          /\ worker' = [worker EXCEPT ![w] = [at |-> "asking", shard |-> s, rows |-> {}]]
          /\ started' = started \cup {s}
          /\ standing' = IF s \in started THEN standing
                         ELSE [standing EXCEPT ![s] = InShard(rows, s)]
    /\ UNCHANGED <<cursor, captured, finished, tokens, phase, schema, upper, seen>>
    /\ Calm /\ KeepShards

\* past the cursor, by ID and then by chain
Past(r, s) == Before(cursor[s], r)

\* PAGE_QUERY: the first rows of the range past the cursor.
PageOf(s) ==
    LET rest == {r \in InShard(rows, s) : Past(r, s)}
    IN  {r \in rest : Cardinality({t \in rest : Before(t, r)}) < PageSize}

\* The source answers; the answer is on its way.
Answer(w) ==
    /\ worker[w].at = "asking"
    /\ worker' = [worker EXCEPT ![w].at = "answered", ![w].rows = PageOf(worker[w].shard)]
    /\ UNCHANGED <<shardVars, phase, pending>> /\ Still /\ KeepShards

LastOf(page) == CHOOSE r \in page : \A t \in page : t = r \/ Before(t, r)

\* The transaction of a page: its rows, all of them new, and the cursor.
CommitPage(w) ==
    LET s == worker[w].shard  page == worker[w].rows
    IN  /\ worker[w].at = "answered" /\ page # {} /\ page \cap tokens = {}
        /\ tokens' = tokens \cup page
        /\ cursor' = [cursor EXCEPT ![s] = LastOf(page)]
        /\ captured' = [captured EXCEPT ![s] = @ + Cardinality(page)]
        /\ worker' = [worker EXCEPT ![w].at = "asking", ![w].rows = {}]
        /\ UNCHANGED <<started, finished, phase, pending>> /\ Still /\ KeepShards

\* The transaction of an empty page finishes the shard.
CommitTerminal(w) ==
    /\ worker[w].at = "answered" /\ worker[w].rows = {}
    /\ finished' = finished \cup {worker[w].shard}
    /\ worker' = [worker EXCEPT ![w] = Off]
    /\ UNCHANGED <<cursor, captured, started, tokens, phase, pending>> /\ Still /\ KeepShards

\* capturePendingShards returns.
AllCaptured ==
    /\ phase = "capture" /\ pending = {} /\ \A w \in Workers : worker[w].at = "off"
    /\ phase' = "recount" /\ at' = 0
    /\ UNCHANGED <<shardVars, recounted, journal, edited, attempt, tally, pending, contradicted,
                   worker>>
    /\ Still

\* Mutant: a shard with fewer rows than were captured agrees.
RecountAtMost ==
    /\ phase = "recount" /\ at < ShardCount /\ at' = at + 1
    /\ recounted' = recounted \cup {at}
    /\ seen' = [seen EXCEPT ![at] = InShard(rows, at)]
    /\ contradicted' = IF Cardinality(InShard(rows, at)) <= captured[at] THEN contradicted
                       ELSE contradicted \cup {at}
    /\ UNCHANGED <<shardVars, journal, edited, phase, attempt, tally, pending, worker, schema,
                   upper, standing>>
    /\ Calm

\* verifyFinalCounts: the next shard is counted at the source.
Recount ==
    /\ phase = "recount" /\ at < ShardCount /\ at' = at + 1
    /\ recounted' = recounted \cup {at}
    /\ seen' = [seen EXCEPT ![at] = InShard(rows, at)]
    /\ contradicted' = IF Cardinality(InShard(rows, at)) = captured[at] THEN contradicted
                       ELSE contradicted \cup {at}
    /\ UNCHANGED <<shardVars, journal, edited, phase, attempt, tally, pending, worker, schema,
                   upper, standing>>
    /\ Calm

\* All counts agree, or two attempts remain; after them the run fails.
Decide ==
    /\ phase = "recount" /\ at = ShardCount
    /\ \/ contradicted = {} /\ phase' = "finalize" /\ UNCHANGED attempt
       \/ contradicted # {} /\ attempt < 2 /\ phase' = "reset" /\ attempt' = attempt + 1
    /\ UNCHANGED <<shardVars, recounted, journal, edited, at, tally, pending, contradicted,
                   worker>>
    /\ Still

\* The shard that is reset next.
NextReset(s) == phase = "reset" /\ s \in contradicted /\ \A u \in contradicted : s <= u

\* resetMismatchedShards: one transaction, which fails if the journal has its key.
Reset(s) ==
    /\ NextReset(s) /\ s \in finished /\ <<attempt, s>> \notin journal
    /\ journal' = journal \cup {<<attempt, s>>}
    /\ tokens' = tokens \ InShard(tokens, s)
    /\ cursor' = [cursor EXCEPT ![s] = Start(s)] /\ captured' = [captured EXCEPT ![s] = 0]
    /\ started' = started \ {s} /\ finished' = finished \ {s}
    /\ recounted' = recounted \ {s} /\ contradicted' = contradicted \ {s}
    /\ UNCHANGED <<edited, phase, attempt, at, tally, pending, worker>> /\ Still

ReadAgain ==
    /\ phase = "reset" /\ contradicted = {}
    /\ UNCHANGED shardVars /\ BeginCapture
    /\ UNCHANGED <<recounted, journal, edited, attempt, at, tally, worker>> /\ Still

\* finalizeCapture.
Finalize ==
    /\ phase = "finalize" /\ finished = Shards /\ recounted = Shards
    /\ Cardinality(tokens) = MapThenSumSet(LAMBDA s : captured[s], Shards)
    /\ phase' = "manifest"
    /\ UNCHANGED <<shardVars, recounted, journal, edited, attempt, at, tally, pending,
                   contradicted, worker>>
    /\ Still

WriteManifest ==
    /\ phase = "manifest" /\ phase' = "off"
    /\ edition' = edition + 1 /\ edited' = FALSE
    /\ attempt' = 0 /\ at' = 0
    /\ UNCHANGED <<sourceVars, schema, upper, shardVars, recounted, journal, tally, pending,
                   contradicted, worker, runs, companion, built, standing, seen>>

Capture ==
    \/ ReadUpperBound \/ CountShard \/ CountIdentities \/ InsertShards
    \/ \E w \in Workers : Take(w) \/ Answer(w) \/ CommitPage(w) \/ CommitTerminal(w)
    \/ AllCaptured \/ Recount \/ Decide \/ (\E s \in Shards : Reset(s)) \/ ReadAgain
    \/ Finalize \/ WriteManifest
-----------------------------------------------------------------------------
(* The companion capture and the build.                                      *)

NoRun == UNCHANGED <<sourceVars, schema, upper, shardVars, recounted, journal, runVars, runs,
                     edition, edited, standing, seen>>
Referenced(set) == {DropOf[r] : r \in set}

\* The database is the one its manifest describes, and holds rows.
Manifested == edition > 0 /\ ~edited /\ tokens # {}

\* captureReferencedDrops: the Drops to ask for.
RequestDrops ==
    /\ Manifested /\ companion = NoCompanion
    /\ companion' = [NoCompanion EXCEPT !.edition = edition, !.requested = Referenced(tokens)]
    /\ NoRun /\ UNCHANGED built

\* A batch, here of one Drop, and its transaction; a Drop may be missing.
AskDrop(d) ==
    /\ d \in companion.requested \ companion.asked
    /\ companion' = [companion EXCEPT !.asked = @ \cup {d},
                                      !.drops = @ \cup ({d} \cap VisibleDrops)]
    /\ NoRun /\ UNCHANGED built

\* finalizeCapture and the companion's manifest, bound to the holdings it was made for.
WriteCompanion ==
    /\ companion # NoCompanion /\ ~companion.manifest
    /\ companion.asked = companion.requested
    /\ companion' = [companion EXCEPT !.manifest = TRUE]
    /\ NoRun /\ UNCHANGED built

\* What the build asks of the companion: its counts, and a held row for each Drop.
CompanionFits ==
    /\ companion.manifest /\ companion.drops # {}
    /\ companion.drops \subseteq Referenced(tokens)
    /\ Cardinality(companion.requested) = Cardinality(Referenced(tokens))

\* buildCompassHoldingsD1.  Bound: one build.
Build ==
    /\ built = NoBuild /\ Manifested /\ CompanionFits
    /\ built' = [edition |-> edition, tokens |-> tokens, drops |-> companion.drops,
                 companion |-> companion.edition]
    /\ NoRun /\ UNCHANGED companion

Next ==
    \/ \E r \in Identities : Mint(r) \/ Burn(r)
    \/ Begin \/ Capture \/ Abort
    \/ RequestDrops \/ (\E d \in Drops : AskDrop(d)) \/ WriteCompanion \/ Build

Spec == Init /\ [][Next]_vars
-----------------------------------------------------------------------------
(* Properties.                                                               *)

\* The transactions of captureShard and resetMismatchedShards: wherever a run stopped,
\* a shard's cursor, its count and the rows in its range describe the same pages, so a
\* resumed shard neither repeats a row nor steps over one.
CursorIsExact ==
    schema = "ready" =>
        /\ tokens = InBound(tokens)
        /\ \A s \in Shards :
              /\ captured[s] = Cardinality(InShard(tokens, s))
              /\ \A r \in InShard(tokens, s) : r = cursor[s] \/ Before(r, cursor[s])

\* The keyset of captureShard: a row that was at the source during a shard's whole
\* pass, over all the runs and answers that the pass took, is captured.
StandingRowsAreCaptured == \A s \in finished : standing[s] \subseteq tokens

\* verifyFinalCounts and the manifest: what is built has, range by range, as many rows
\* as the source had when the range was counted last, each identity once, and exactly
\* the source's rows if none ever disappeared.
BuildIsCounted ==
    built' # built =>
        \A s \in Shards :
           /\ Cardinality(InShard(built'.tokens, s)) = Cardinality(seen[s])
           /\ ~burned => InShard(built'.tokens, s) = seen[s]

\* README.md, "refusing to finalize after repeated instability" and "resumable": a run
\* that finds a contradicted range, with attempts left, can reset that range.
ContradictedShardsCanBeReset ==
    phase = "reset" => \A s \in contradicted : <<attempt, s>> \notin journal
=============================================================================
