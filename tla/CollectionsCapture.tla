------------------------ MODULE CollectionsCapture ------------------------
(***************************************************************************)
(* tools/collections-backup snapshot and verify: the capture of the        *)
(* Collections tables from an API that offers no transaction.  Each table  *)
(* gets an upper key and, where the API has an aggregate, a count of the   *)
(* rows below it; its pages are then walked in key order, a page file      *)
(* first and the state that commits it second.  The rows are derived from  *)
(* the page files that exist, the counts from the state, and the Drops the *)
(* rows name are fetched last.  verify puts the two accounts side by side. *)
(*                                                                         *)
(* Rows are keys; a row never changes, it appears and disappears.          *)
(***************************************************************************)
EXTENDS Integers, FiniteSets, FiniteSetsExt, Sequences, SequencesExt

CONSTANTS
    Entities,    \* the tables in the order they are captured
    Rows,        \* the keys each table may hold (positive integers)
    Counted,     \* the tables the API counts
    CollectionOf,\* table and row to the collection it belongs to
    DropOf,      \* row of items to the Drop it names
    PageSize,    \* rows of a page
    DropBatch,   \* Drops of one request
    MaxChanges,  \* bound: rows that appear or disappear
    MaxFaults    \* bound: kills and requests that fail for good

VARIABLES
    src,         \* the tables and the Drops at the source
    state,       \* state/<table>.json
    pages,       \* raw/<table>/: the rows of each page file
    drops,       \* state/referenced_drops.json
    dropPages,   \* raw/referenced_drops/
    manifest,    \* manifest.json and the normalized rows it lists
    verified,    \* the verdict of the last verify, FALSE before it
    proc,        \* the running capture
    side,        \* source.json and queries/; whether a killed command left a temporary file
    standing,    \* rows at the source ever since this directory was started
    changes, faults

vars == <<src, state, pages, drops, dropPages, manifest, verified, proc, side, standing,
          changes, faults>>

Tables == Range(Entities)
Drops == {DropOf[r] : r \in Rows["items"]}

CollectionsCaptureAssumption ==
    /\ Entities \in Seq(Tables) /\ MaxChanges \in Nat /\ MaxFaults \in Nat
    /\ PageSize \in Nat \ {0} /\ DropBatch \in Nat \ {0}
    /\ {"collections", "items"} \subseteq Tables
    /\ \A e \in Tables : Rows[e] \subseteq Nat \ {0} /\ IsFiniteSet(Rows[e])

Unstarted == [made |-> FALSE, upper |-> 0, expected |-> -1, cursor |-> 0, rows |-> 0,
              pages |-> 0, complete |-> FALSE]
UnstartedDrops == [made |-> FALSE, ids |-> {}, asked |-> {}, pages |-> 0, missing |-> {},
                   complete |-> FALSE]
NoManifest == [made |-> FALSE]
Stopped == [step |-> "stopped"]
NewDirectory == [made |-> "nothing", temporary |-> FALSE]

Init ==
    /\ src \in [tables : {[e \in Tables |-> Rows[e]],
                          [e \in Tables |-> Rows[e] \ {Max(Rows[e])}]},
                drops : {Drops}]
    /\ state = [e \in Tables |-> Unstarted]
    /\ pages = [e \in Tables |-> <<>>]
    /\ drops = UnstartedDrops /\ dropPages = <<>>
    /\ manifest = NoManifest /\ verified = FALSE
    /\ proc = Stopped /\ side = NewDirectory
    /\ standing = src.tables
    /\ changes = 0 /\ faults = 0

----------------------------------------------------------------------------
(* The source.                                                             *)

Below(e, upper) == {r \in src.tables[e] : r <= upper}

\* Mutant: a page asks for one row too few.
PageShort(e, cursor, upper) ==
    LET rest == {r \in Below(e, upper) : r > cursor}
    IN {r \in rest : Cardinality({q \in rest : q < r}) < PageSize - 1}

(* A bounded keyset page: the first rows after the cursor, up to the bound.  *)
PageAfter(e, cursor, upper) ==
    LET rest == {r \in Below(e, upper) : r > cursor}
    IN {r \in rest : Cardinality({q \in rest : q < r}) < PageSize}

(* The source keeps its own relations: what a row belongs to exists.       *)
Closed(tables, ds) ==
    /\ \A e \in Tables \ {"collections"} : \A r \in tables[e] : CollectionOf[e][r] \in tables["collections"]
    /\ \A r \in tables["items"] : DropOf[r] \in ds

Cascade(tables, ds) ==
    [t \in Tables |->
        {q \in tables[t] : /\ t = "collections" \/ CollectionOf[t][q] \in tables["collections"]
                           /\ t = "items" => DropOf[q] \in ds}]

Change ==
    /\ changes < MaxChanges /\ changes' = changes + 1
    /\ \/ \E e \in Tables : \E r \in Rows[e] \ src.tables[e] :
             LET grown == [src.tables EXCEPT ![e] = @ \cup {r}]
             IN Closed(grown, src.drops) /\ src' = [src EXCEPT !.tables = grown]
       \/ \E e \in Tables : \E r \in src.tables[e] :
             LET cut == [src.tables EXCEPT ![e] = @ \ {r}]
             IN src' = [src EXCEPT !.tables = Cascade(cut, src.drops)]
       \/ \E d \in src.drops :
             src' = [tables |-> Cascade(src.tables, src.drops \ {d}), drops |-> src.drops \ {d}]
       \/ \E d \in Drops \ src.drops : src' = [src EXCEPT !.drops = @ \cup {d}]
    /\ standing' = IF manifest.made THEN standing
                   ELSE [e \in Tables |-> standing[e] \cap src'.tables[e]]
    /\ UNCHANGED <<state, pages, drops, dropPages, manifest, verified, proc, side, faults>>

----------------------------------------------------------------------------
(* captureCollectionsSnapshot.                                             *)

Open(e) == ~state[e].complete
Current == Entities[Min({i \in DOMAIN Entities : Open(Entities[i])})]
AllCaptured == \A e \in Tables : ~Open(e)

(* The committed page of a table is what its state says it is: the file    *)
(* after it may be there or not.  A directory without source.json has to   *)
(* be empty, and a query that is there has to be whole.                    *)
Start ==
    /\ proc = Stopped /\ ~manifest.made
    /\ side.made # "torn query" /\ (side.made = "nothing" => ~side.temporary)
    /\ proc' = [step |-> IF side.made = "queries" THEN "run" ELSE "prepare"]
    /\ UNCHANGED <<src, state, pages, drops, dropPages, manifest, verified, side, standing,
                   changes, faults>>

(* source.json first, the schema and the queries after it.                 *)
Prepare ==
    /\ proc.step = "prepare"
    /\ IF side.made = "nothing"
       THEN side' = [side EXCEPT !.made = "source"] /\ proc' = proc
       ELSE side' = [side EXCEPT !.made = "queries"] /\ proc' = [step |-> "run"]
    /\ UNCHANGED <<src, state, pages, drops, dropPages, manifest, verified, standing, changes,
                   faults>>

\* Mutant: the bound is the lowest key instead of the highest.
FetchLowest ==
    /\ proc.step = "run" /\ ~AllCaptured /\ ~state[Current].made
    /\ proc' = [step |-> "bound",
                upper |-> IF src.tables[Current] = {} THEN 0 ELSE Min(src.tables[Current])]
    /\ UNCHANGED <<src, state, pages, drops, dropPages, manifest, verified, side, standing,
                   changes, faults>>

(* The bound and the count are two requests.                               *)
FetchBound ==
    /\ proc.step = "run" /\ ~AllCaptured /\ ~state[Current].made
    /\ proc' = [step |-> "bound",
                upper |-> IF src.tables[Current] = {} THEN 0 ELSE Max(src.tables[Current])]
    /\ UNCHANGED <<src, state, pages, drops, dropPages, manifest, verified, side, standing,
                   changes, faults>>

FetchCount ==
    /\ proc.step = "bound"
    /\ state' = [state EXCEPT ![Current] =
          [Unstarted EXCEPT !.made = TRUE, !.upper = proc.upper,
             !.expected = IF proc.upper = 0 THEN 0
                          ELSE IF Current \in Counted
                          THEN Cardinality(Below(Current, proc.upper))
                          ELSE -1,
             !.complete = (proc.upper = 0)]]
    /\ proc' = [step |-> "run"]
    /\ UNCHANGED <<src, pages, drops, dropPages, manifest, verified, side, standing, changes,
                   faults>>

FetchPage ==
    /\ proc.step = "run" /\ ~AllCaptured /\ state[Current].made
    /\ proc' = [step |-> "page",
                got |-> PageAfter(Current, state[Current].cursor, state[Current].upper)]
    /\ UNCHANGED <<src, state, pages, drops, dropPages, manifest, verified, side, standing,
                   changes, faults>>

CountHolds(st) == st.expected # -1 => st.rows = st.expected

(* An empty page ends the table below its bound.  A count that does not    *)
(* hold ends the command instead, and every later one at the same place.   *)
EndOfTable ==
    /\ proc.step = "page" /\ proc.got = {}
    /\ IF CountHolds(state[Current])
       THEN state' = [state EXCEPT ![Current].complete = TRUE] /\ proc' = [step |-> "run"]
       ELSE state' = state /\ proc' = Stopped
    /\ UNCHANGED <<src, pages, drops, dropPages, manifest, verified, side, standing, changes,
                   faults>>

\* Mutant: a page gets the next free file name.
WriteNextFile ==
    /\ proc.step = "page" /\ proc.got # {}
    /\ pages' = [pages EXCEPT ![Current] = Append(@, proc.got)]
    /\ proc' = [proc EXCEPT !.step = "commit"]
    /\ UNCHANGED <<src, state, drops, dropPages, manifest, verified, side, standing, changes,
                   faults>>

(* The page file replaces one that a killed command left uncommitted.      *)
WritePage ==
    /\ proc.step = "page" /\ proc.got # {}
    /\ pages' = [pages EXCEPT ![Current] =
                    Append(SubSeq(@, 1, state[Current].pages), proc.got)]
    /\ proc' = [proc EXCEPT !.step = "commit"]
    /\ UNCHANGED <<src, state, drops, dropPages, manifest, verified, side, standing, changes,
                   faults>>

Advanced ==
    LET st == state[Current]
    IN [st EXCEPT !.cursor = Max(proc.got), !.pages = @ + 1,
                  !.rows = @ + Cardinality(proc.got),
                  !.complete = (Max(proc.got) = st.upper)]

CommitPage ==
    /\ proc.step = "commit"
    /\ IF Advanced.complete /\ ~CountHolds(Advanced)
       THEN state' = state /\ proc' = Stopped
       ELSE state' = [state EXCEPT ![Current] = Advanced] /\ proc' = [step |-> "run"]
    /\ UNCHANGED <<src, pages, drops, dropPages, manifest, verified, side, standing, changes,
                   faults>>

(* normalizeEntities reads every page file there is.                       *)
Normalized(e) == UNION Range(pages[e])
Named == {DropOf[r] : r \in Normalized("items")}

StartDrops ==
    /\ proc.step = "run" /\ AllCaptured /\ ~drops.made
    /\ drops' = [UnstartedDrops EXCEPT !.made = TRUE, !.ids = Named, !.complete = (Named = {})]
    /\ UNCHANGED <<src, state, pages, dropPages, manifest, verified, proc, side, standing, changes,
                   faults>>

NextBatch ==
    LET rest == drops.ids \ drops.asked
    IN {d \in rest : Cardinality({q \in rest : q < d}) < DropBatch}

FetchDrops ==
    /\ proc.step = "run" /\ AllCaptured /\ drops.made /\ ~drops.complete
    /\ drops.ids = Named
    /\ proc' = [step |-> "drops", asked |-> NextBatch, got |-> NextBatch \cap src.drops]
    /\ UNCHANGED <<src, state, pages, drops, dropPages, manifest, verified, side, standing,
                   changes, faults>>

WriteDrops ==
    /\ proc.step = "drops"
    /\ dropPages' = Append(SubSeq(dropPages, 1, drops.pages), proc.got)
    /\ proc' = [proc EXCEPT !.step = "commit drops"]
    /\ UNCHANGED <<src, state, pages, drops, manifest, verified, side, standing, changes,
                   faults>>

CommitDrops ==
    /\ proc.step = "commit drops"
    /\ drops' = [drops EXCEPT !.asked = @ \cup proc.asked, !.pages = @ + 1,
                              !.missing = @ \cup (proc.asked \ proc.got),
                              !.complete = (drops.ids \subseteq drops.asked \cup proc.asked)]
    /\ proc' = [step |-> "run"]
    /\ UNCHANGED <<src, state, pages, dropPages, manifest, verified, side, standing, changes,
                   faults>>

WriteManifest ==
    /\ proc.step = "run" /\ AllCaptured /\ drops.complete
    /\ manifest' = [made |-> TRUE,
                    rows |-> [e \in Tables |-> Normalized(e)],
                    counts |-> [e \in Tables |-> state[e].rows],
                    expected |-> [e \in Tables |-> state[e].expected],
                    ids |-> Named, drops |-> UNION Range(dropPages), missing |-> drops.missing]
    /\ proc' = Stopped
    /\ UNCHANGED <<src, state, pages, drops, dropPages, verified, side, standing, changes,
                   faults>>

----------------------------------------------------------------------------
(* verifyCollectionsSnapshot.  It refuses a temporary file anywhere.       *)

CountsAgree ==
    \A e \in Tables :
        /\ Cardinality(manifest.rows[e]) = manifest.counts[e]
        /\ manifest.expected[e] # -1 => Cardinality(manifest.rows[e]) = manifest.expected[e]

RelationsHold ==
    \A e \in Tables \ {"collections"} : \A r \in manifest.rows[e] :
        CollectionOf[e][r] \in manifest.rows["collections"]

UnionHolds ==
    /\ manifest.ids = {DropOf[r] : r \in manifest.rows["items"]}
    /\ manifest.drops = manifest.ids /\ manifest.missing = {}

Verify ==
    /\ proc = Stopped /\ manifest.made /\ ~verified /\ ~side.temporary
    /\ CountsAgree /\ RelationsHold /\ UnionHolds
    /\ verified' = TRUE
    /\ UNCHANGED <<src, state, pages, drops, dropPages, manifest, proc, side, standing, changes,
                   faults>>

----------------------------------------------------------------------------
(* A kill between writing a file and renaming it leaves the temporary      *)
(* file; the queries are written in place.                                 *)
Leavings ==
    (IF proc.step # "run" \/ AllCaptured THEN {[side EXCEPT !.temporary = TRUE]} ELSE {})
    \cup (IF proc.step = "prepare" /\ side.made = "source"
          THEN {[side EXCEPT !.made = "torn query"]} ELSE {})

(* A command is killed, or GraphqlClient gives up on a request.            *)
Abort ==
    /\ proc # Stopped
    /\ faults < MaxFaults /\ faults' = faults + 1
    /\ proc' = Stopped
    /\ side' \in {side} \cup Leavings
    /\ UNCHANGED <<src, state, pages, drops, dropPages, manifest, verified, standing, changes>>

(* No command removes what a killed one left, and none goes on with a torn *)
(* query: the operator does it by hand, which no document tells him.       *)
Tidy ==
    /\ proc = Stopped
    /\ side.temporary \/ side.made = "torn query"
    /\ side' = [made |-> IF side.made = "torn query" THEN "source" ELSE side.made,
                temporary |-> FALSE]
    /\ UNCHANGED <<src, state, pages, drops, dropPages, manifest, verified, proc, standing,
                   changes, faults>>

(* A directory whose counts cannot come right, or whose verification       *)
(* fails, is given up for a fresh one.                                     *)
Fails ==
    \/ manifest.made /\ ~(CountsAgree /\ RelationsHold /\ UnionHolds)
    \/ ~AllCaptured /\ state[Current].made
       /\ LET st == state[Current]
              page == PageAfter(Current, st.cursor, st.upper)
          IN st.expected # -1
             /\ st.rows + Cardinality({r \in Below(Current, st.upper) : r > st.cursor}) # st.expected
    \/ drops.made /\ ~drops.complete /\ drops.ids # Named

Fresh ==
    /\ proc = Stopped /\ ~verified /\ Fails
    /\ state' = [e \in Tables |-> Unstarted]
    /\ pages' = [e \in Tables |-> <<>>]
    /\ drops' = UnstartedDrops /\ dropPages' = <<>>
    /\ manifest' = NoManifest /\ side' = NewDirectory
    /\ standing' = src.tables
    /\ UNCHANGED <<src, verified, proc, changes, faults>>

CaptureStep ==
    \/ Prepare \/ FetchBound \/ FetchCount \/ FetchPage \/ EndOfTable \/ WritePage
    \/ CommitPage \/ StartDrops \/ FetchDrops \/ WriteDrops \/ CommitDrops \/ WriteManifest

Finished == verified /\ UNCHANGED vars

Next == Start \/ CaptureStep \/ Verify \/ Fresh \/ Tidy \/ Change \/ Abort \/ Finished

Spec == Init /\ [][Next]_vars
FairSpec ==
    /\ Spec /\ WF_vars(Start) /\ WF_vars(CaptureStep) /\ WF_vars(Verify)
    /\ SF_vars(Tidy \/ Fresh)

----------------------------------------------------------------------------
TypeOK ==
    /\ src \in [tables : [Tables -> SUBSET UNION {Rows[e] : e \in Tables}], drops : SUBSET Drops]
    /\ \A e \in Tables : state[e].cursor \in Nat /\ state[e].rows \in Nat
    /\ side \in [made : {"nothing", "source", "torn query", "queries"}, temporary : BOOLEAN]
    /\ verified \in BOOLEAN /\ changes \in 0..MaxChanges /\ faults \in 0..MaxFaults

(* The state never commits a page that is not on disk, and never counts    *)
(* rows that the page files before it do not hold: whatever the kills, a   *)
(* resume goes on exactly where the committed rows end.                    *)
CommittedPagesAreKept ==
    \A e \in Tables :
        /\ state[e].pages <= Len(pages[e]) /\ Len(pages[e]) <= state[e].pages + 1
        /\ LET committed == UNION Range(SubSeq(pages[e], 1, state[e].pages))
           IN /\ Cardinality(committed) = state[e].rows
              /\ state[e].rows > 0 => state[e].cursor = Max(committed)

(* A verified snapshot holds no row of a page that was never committed,    *)
(* although the normalized rows are read from whatever files there are.    *)
VerifiedRowsAreCommitted ==
    verified => \A e \in Tables :
        manifest.rows[e] = UNION Range(SubSeq(pages[e], 1, state[e].pages))

(* A row that stood at the source from the start of a directory to its     *)
(* manifest is in its verified rows, and so is every Drop it names.        *)
StandingRowsAreVerified ==
    verified => /\ \A e \in Tables : standing[e] \subseteq manifest.rows[e]
                /\ {DropOf[r] : r \in standing["items"]} \subseteq manifest.drops

=============================================================================
