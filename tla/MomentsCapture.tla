--------------------------- MODULE MomentsCapture ----------------------------
(***************************************************************************)
(* Capturing the Moments metadata twice: each capture pages through its    *)
(* entities, one after the other, up to a bound frozen when the entity is  *)
(* begun, and may be stopped and resumed while the source changes.  Two    *)
(* captures that agree are a proof of stability, which the D1 build asks   *)
(* for because the source has no transaction over more than one query.     *)
(***************************************************************************)
EXTENDS Naturals, FiniteSets

CONSTANTS
    EntityCount,   \* entities, in the order of their capture
    Counted,       \* the entities for which the source counts rows
    MaxKey,        \* largest key of an entity
    FirstRows,     \* [entity -> keys there at first]
    Captures,      \* output directories
    PageSize,      \* rows of one page
    MaxChanges,    \* bound: rows written or removed
    MaxRuns        \* bound: runs of the snapshot command, all captures together

Entities == 1 .. EntityCount

MomentsCaptureAssumption ==
    /\ EntityCount \in Nat /\ Counted \subseteq Entities
    /\ MaxKey \in Nat /\ FirstRows \in [Entities -> SUBSET (1 .. MaxKey)]
    /\ PageSize \in Nat \ {0} /\ MaxChanges \in Nat /\ MaxRuns \in Nat

VARIABLES
    source, changes,   \* the rows of each entity, and the changes made to them
    marker,            \* source.json: the manifests that were finished before
    state,             \* state/<entity>.json and the pages it lists
    run,               \* the runs of the snapshot command
    edition,           \* manifest.json: how often it was written
    report,            \* validation/stability.json in each directory
    built,             \* the captures that a D1 package was built from
    runs,              \* runs begun so far
    base               \* history: the source when a capture was initialized

captureVars == <<marker, state, run, edition, runs, base>>
vars == <<source, changes, captureVars, report, built>>

\* A row and its content.  A content that was overwritten never comes back.
Row(k, v) == [key |-> k, version |-> v]
Rows == [key : 1 .. MaxKey, version : 0 .. MaxChanges]
KeysUpTo(set, k) == {r \in set : r.key <= k}

Unknown == [known |-> FALSE, upper |-> 0, expected |-> 0, cursor |-> 0, rows |-> {},
            complete |-> FALSE]
States == [known : BOOLEAN, upper : 0 .. MaxKey, expected : 0 .. MaxKey + 1,
           cursor : 0 .. MaxKey, rows : SUBSET Rows, complete : BOOLEAN]
Uncounted == MaxKey + 1
Off == [at |-> "off", upper |-> 0]
NoMarker == [written |-> FALSE, after |-> {}]
Manifests == Captures \X (1 .. MaxRuns)
Unstable == [primary |-> 0, secondary |-> {}]

TypeOK ==
    /\ source \in [Entities -> SUBSET Rows] /\ changes \in 0 .. MaxChanges
    /\ marker \in [Captures -> [written : BOOLEAN, after : SUBSET Manifests]]
    /\ state \in [Captures -> [Entities -> States]]
    /\ \A c \in Captures, e \in Entities : state[c][e].cursor <= state[c][e].upper
    /\ run \in [Captures -> [at : {"off", "entity", "count"}, upper : 0 .. MaxKey]]
    /\ edition \in [Captures -> 0 .. MaxRuns] /\ runs \in 0 .. MaxRuns
    /\ report \in [Captures -> [primary : 0 .. MaxRuns, secondary : SUBSET Manifests]]
    /\ built \subseteq Captures
    /\ base \in [Captures -> [Entities -> SUBSET Rows]]

Init ==
    /\ source = [e \in Entities |-> {Row(k, 0) : k \in FirstRows[e]}] /\ changes = 0
    /\ marker = [c \in Captures |-> NoMarker]
    /\ state = [c \in Captures |-> [e \in Entities |-> Unknown]]
    /\ run = [c \in Captures |-> Off] /\ edition = [c \in Captures |-> 0] /\ runs = 0
    /\ report = [c \in Captures |-> Unstable] /\ built = {}
    /\ base = [c \in Captures |-> [e \in Entities |-> {}]]
-----------------------------------------------------------------------------
(* The source.                                                               *)

Change(e, set) ==
    /\ changes < MaxChanges /\ changes' = changes + 1
    /\ source' = [source EXCEPT ![e] = set]
    /\ UNCHANGED <<captureVars, report, built>>

Others(e, k) == {r \in source[e] : r.key # k}

Write(e, k) == Change(e, Others(e, k) \cup {Row(k, changes + 1)})
Remove(e, k) == Others(e, k) # source[e] /\ Change(e, Others(e, k))
-----------------------------------------------------------------------------
(* A run of the snapshot command.                                            *)

Calm == UNCHANGED <<source, changes, report, built>>

\* prepareOutput: a new directory gets its marker, an old one is resumed.
Begin(c) ==
    /\ run[c].at = "off" /\ runs < MaxRuns /\ runs' = runs + 1
    /\ run' = [run EXCEPT ![c].at = "entity"]
    /\ IF marker[c].written THEN UNCHANGED <<marker, base>>
       ELSE /\ marker' = [marker EXCEPT ![c] =
                            [written |-> TRUE,
                             after   |-> {m \in Manifests : m[2] <= edition[m[1]]}]]
            /\ base' = [base EXCEPT ![c] = source]
    /\ UNCHANGED <<state, edition>> /\ Calm

\* The run is killed, or a request or a check of it fails.
Stop(c) ==
    /\ run[c].at # "off" /\ run' = [run EXCEPT ![c] = Off]
    /\ UNCHANGED <<marker, state, edition, runs, base>> /\ Calm

\* captureMomentsSnapshot: the entities are captured one after the other.
Turn(c, e) == ~state[c][e].complete /\ \A f \in Entities : f < e => state[c][f].complete

Save(c, e, s) ==
    /\ state' = [state EXCEPT ![c][e] = s]
    /\ UNCHANGED <<marker, edition, runs, base>> /\ Calm

\* captureEntity: the bound is the largest key; an empty entity is complete.
ReadUpperBound(c, e) ==
    /\ run[c].at = "entity" /\ Turn(c, e) /\ ~state[c][e].known
    /\ \E k \in 0 .. MaxKey :
          /\ \A r \in source[e] : r.key <= k
          /\ k # 0 => \E r \in source[e] : r.key = k
          /\ IF k # 0 /\ e \in Counted
               THEN /\ run' = [run EXCEPT ![c] = [at |-> "count", upper |-> k]]
                    /\ UNCHANGED <<marker, state, edition, runs, base>> /\ Calm
               ELSE /\ Save(c, e, [Unknown EXCEPT
                          !.known = TRUE, !.upper = k, !.complete = (k = 0),
                          !.expected = IF k = 0 THEN 0 ELSE Uncounted])
                    /\ UNCHANGED run

\* The rows up to the bound are counted, and the state is written.
ReadCount(c, e) ==
    /\ run[c].at = "count" /\ Turn(c, e)
    /\ Save(c, e, [Unknown EXCEPT !.known = TRUE, !.upper = run[c].upper,
                     !.expected = Cardinality(KeysUpTo(source[e], run[c].upper))])
    /\ run' = [run EXCEPT ![c] = [at |-> "entity", upper |-> 0]]

\* Mutant: the cursor is taken for the next key.
PagePastNext(e, cursor, upper) ==
    LET rest == {r \in KeysUpTo(source[e], upper) : cursor + 1 < r.key}
    IN  {r \in rest : Cardinality(KeysUpTo(rest, r.key)) <= PageSize}

\* makePageQuery: the first rows after the cursor, up to the bound.
Page(e, cursor, upper) ==
    LET rest == {r \in KeysUpTo(source[e], upper) : cursor < r.key}
    IN  {r \in rest : Cardinality(KeysUpTo(rest, r.key)) <= PageSize}

LastKey(page) == CHOOSE k \in {r.key : r \in page} : \A r \in page : r.key <= k

\* assertExpectedCount
Expected(s) == s.expected = Uncounted \/ Cardinality(s.rows) = s.expected

\* A page is written, then the state that lists it: a page that no state lists is
\* written again.  The row with the largest key completes the entity if the count
\* agrees; a page without rows, or another count, fails the run.
ReadPage(c, e) ==
    LET s == state[c][e]
        page == Page(e, s.cursor, s.upper)
        next == [s EXCEPT !.rows = @ \cup page, !.cursor = LastKey(page),
                          !.complete = (LastKey(page) = s.upper)]
    IN  /\ run[c].at = "entity" /\ Turn(c, e) /\ s.known /\ page # {}
        /\ next.complete => Expected(next)
        /\ Save(c, e, next) /\ UNCHANGED run

\* normalizeAll and the manifest, with the instant at which the capture was finished.
WriteManifest(c) ==
    /\ run[c].at = "entity" /\ \A e \in Entities : state[c][e].complete
    /\ edition' = [edition EXCEPT ![c] = @ + 1]
    /\ run' = [run EXCEPT ![c] = Off]
    /\ UNCHANGED <<marker, state, runs, base>> /\ Calm
-----------------------------------------------------------------------------
(* The proof of stability and the build.                                     *)

\* compareMomentsSnapshots: bounds, counts and normalized rows.
Same(a, b) ==
    \A e \in Entities : /\ state[a][e].upper = state[b][e].upper
                        /\ state[a][e].expected = state[b][e].expected
                        /\ state[a][e].rows = state[b][e].rows

\* The report goes into the first directory; one that lists differences proves nothing.
Compare(a, b) ==
    /\ edition[a] > 0 /\ edition[b] > 0
    /\ report' = [report EXCEPT ![a] =
                    IF Same(a, b) THEN [primary |-> edition[a], secondary |-> {<<b, edition[b]>>}]
                    ELSE Unstable]
    /\ UNCHANGED <<source, changes, captureVars, built>>

\* Mutant: the captures' windows are not compared.
ProvesDistinct(a) ==
    /\ report[a] # Unstable /\ report[a].primary = edition[a]
    /\ <<a, edition[a]>> \notin report[a].secondary

\* readStabilityProof: the report is of the manifest that is built, and the other
\* capture was initialized after this one was finished.
Proves(a) ==
    /\ report[a] # Unstable /\ report[a].primary = edition[a]
    /\ \A m \in report[a].secondary :
          /\ m # <<a, edition[a]>>
          /\ <<a, edition[a]>> \in marker[m[1]].after

\* buildMomentsD1.
Build(a) ==
    /\ edition[a] > 0 /\ Proves(a) /\ built' = built \cup {a}
    /\ UNCHANGED <<source, changes, captureVars, report>>

Next ==
    \/ \E e \in Entities, k \in 1 .. MaxKey : Write(e, k) \/ Remove(e, k)
    \/ \E c \in Captures :
          \/ Begin(c) \/ Stop(c) \/ WriteManifest(c) \/ Build(c)
          \/ \E e \in Entities : ReadUpperBound(c, e) \/ ReadCount(c, e) \/ ReadPage(c, e)
    \/ \E a, b \in Captures : Compare(a, b)

Spec == Init /\ [][Next]_vars
-----------------------------------------------------------------------------
(* Properties.                                                               *)

\* captureEntity: a row that was there when the capture was initialized, and has
\* stayed as it was, is in every capture of its entity, however often that capture
\* was stopped and resumed.
StandingRowsAreCaptured ==
    \A c \in Captures, e \in Entities :
        state[c][e].complete => base[c][e] \cap source[e] \subseteq state[c][e].rows

\* readStabilityProof, "a complete stable two-pass report": the rows of a built
\* capture, of all its entities, were at the source together at one instant, when the
\* second capture was initialized; what else was there then is there no more.
BuildIsASnapshot ==
    \A a \in Captures : a \in built' \ built =>
        \A m \in report[a].secondary, e \in Entities :
           /\ state[a][e].rows \subseteq base[m[1]][e]
           /\ base[m[1]][e] \cap source[e] \subseteq state[a][e].rows
BuildsAreSnapshots == [][BuildIsASnapshot]_vars
=============================================================================
