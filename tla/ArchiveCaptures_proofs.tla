------------------------- MODULE ArchiveCaptures_proofs ------------------------
(***************************************************************************)
(* The commands that bring an archive in, in their composition, for any    *)
(* rows, keys, page sizes, media, answers, archives, workers and faults.   *)
(*   The Moments captures: a content that was overwritten never comes back,*)
(*   so what a capture read after it was initialized, and another capture  *)
(*   had read before, was at the source when it was initialized.           *)
(*   The originals of the Moments: what is in R2 was put there under the   *)
(*   bucket that the plan decides on; a report takes a stamp that nothing  *)
(*   names yet, so a second report names the first one only as long as it  *)
(*   is that very report.                                                  *)
(*   The snapshot of the holdings: as HoldingsCapture_proofs has it.       *)
(*   The Collections: the committed pages of a table are its first rows    *)
(*   up to the cursor, without a standing row between them.                *)
(*   The import: a statement is written when it is full, so that none and  *)
(*   no shard grows over its bound.                                        *)
(*   The backfill: an owner who is not written yet is in a range that is   *)
(*   still to be done, however the ranges were split.                      *)
(*   The supplement of the Drops: what a run has behind it is what the     *)
(*   directory holds of that run's inputs, and a manifest that was written *)
(*   stays bound to the files until a run rewrites them; its pages are the *)
(*   Drops in their order, a full page at a time.                          *)
(***************************************************************************)
EXTENDS ArchiveCaptures, FiniteSetTheorems, FunctionTheorems, SequenceTheorems,
    WellFoundedInduction, TLAPS

-----------------------------------------------------------------------------
(* The inductive invariant.                                                  *)

\* One row for each key; and no row has a version that is still to be written.
VersionsArePast ==
    /\ \A e \in Entities :
          /\ \A r \in source[e] : r.version <= changes
          /\ \A r, t \in source[e] : r.key = t.key => r = t
    /\ \A c \in Captures, e \in Entities :
          \A r \in base[c][e] \cup state[c][e].rows : r.version <= changes

\* A manifest is the end of a run.
EditionsAreRuns ==
    \A c \in Captures : /\ edition[c] <= runs
                        /\ run[c].at # "off" => edition[c] < runs

\* A directory without a marker is empty.
UnmarkedIsEmpty ==
    \A c \in Captures : ~marker[c].written =>
        run[c].at = "off" /\ \A e \in Entities : state[c][e] = Unknown

Standing(c, e) == base[c][e] \cap source[e]

\* The bound of an entity is above every row that stood, and its cursor has passed none
\* that is not captured.
PassesAreExact ==
    \A c \in Captures, e \in Entities :
        /\ state[c][e].complete => state[c][e].known /\ state[c][e].cursor = state[c][e].upper
        /\ state[c][e].known =>
              \A r \in Standing(c, e) :
                 /\ r.key <= state[c][e].upper
                 /\ r.key <= state[c][e].cursor => r \in state[c][e].rows
        /\ run[c].at = "count" /\ Turn(c, e) => \A r \in Standing(c, e) : r.key <= run[c].upper

ManifestsAreComplete ==
    \A c \in Captures : edition[c] > 0 => \A e \in Entities : state[c][e].complete

\* Of a capture that was finished before another was initialized, what the other has
\* read, or could still read, was at the source at that instant.
WindowsAreApart ==
    \A b \in Captures : \A m \in marker[b].after :
        /\ edition[m[1]] > 0
        /\ \A e \in Entities :
              state[m[1]][e].rows \cap (source[e] \cup state[b][e].rows) \subseteq base[b][e]

\* A report is of manifests that agree, and they stay as they are.
ReportsHold ==
    \A a \in Captures : \A m \in report[a].secondary :
        edition[a] > 0 /\ edition[m[1]] > 0 /\ Same(a, m[1])

IInv ==
    /\ TypeOK
    /\ VersionsArePast /\ EditionsAreRuns /\ UnmarkedIsEmpty /\ PassesAreExact
    /\ ManifestsAreComplete /\ WindowsAreApart /\ ReportsHold

-----------------------------------------------------------------------------
(* Keys and pages.                                                           *)

\* Numbers that have a bound have a largest one.
LEMMA GreatestExists ==
    ASSUME NEW n \in Nat, NEW K, K \subseteq 0 .. n, K # {}
    PROVE  \E k \in K : \A x \in K : x <= k
  <1> DEFINE R == {ss \in Nat \X Nat : ss[1] < ss[2]}
             T == {n - k : k \in K}
  <1>1. IsWellFoundedOn(R, Nat)
    BY NatLessThanWellFounded DEF OpToRel
  <1>2. T \subseteq Nat /\ T # {}
    <2>1. \A k \in K : n - k \in Nat
      OBVIOUS
    <2> QED
      BY <2>1
  <1>3. PICK t \in T : \A y \in T : ~(<<y, t>> \in R)
    <2> HIDE DEF R, T
    <2> QED
      BY <1>1, <1>2, WFMin
  <1>4. PICK k \in K : t = n - k
    BY <1>3
  <1>5. ASSUME NEW x \in K
        PROVE  x <= k
    <2>1. n - x \in T /\ n - x \in Nat /\ t \in Nat
      BY <1>2, <1>3
    <2>2. ~(n - x < t)
      BY <1>3, <2>1
    <2> QED
      BY <1>4, <2>2
  <1> QED
    BY <1>5

\* The key of the last row of a page.
LEMMA LastKeyIsLast ==
    ASSUME MomentsCaptureAssumption, NEW page, page \subseteq Rows, page # {}
    PROVE  /\ LastKey(page) \in 1 .. MaxKey
           /\ \E r \in page : r.key = LastKey(page)
           /\ \A r \in page : r.key <= LastKey(page)
  <1> DEFINE K == {r.key : r \in page}
  <1>1. K \subseteq 1 .. MaxKey /\ K # {}
    BY DEF Rows
  <1>2. \E k \in K : \A x \in K : x <= k
    <2>1. K \subseteq 0 .. MaxKey /\ MaxKey \in Nat
      BY <1>1 DEF MomentsCaptureAssumption
    <2> HIDE DEF K
    <2> QED
      BY <1>1, <2>1, GreatestExists
  <1>3. \E k \in K : \A r \in page : r.key <= k
    BY <1>2
  <1>4. LastKey(page) \in K /\ \A r \in page : r.key <= LastKey(page)
    BY <1>3 DEF LastKey
  <1> QED
    BY <1>1, <1>4

LEMMA RowsAreFinite ==
    ASSUME MomentsCaptureAssumption, NEW S, S \subseteq Rows
    PROVE  IsFiniteSet(S) /\ Cardinality(S) \in Nat
  <1> DEFINE V == 0 .. MaxChanges
             K == 1 .. MaxKey
             f == [r \in Rows |-> <<r.key, r.version>>]
  <1>1. IsFiniteSet(V) /\ IsFiniteSet(K)
    BY FS_Interval DEF MomentsCaptureAssumption
  <1>2. IsFiniteSet(K \X V)
    <2> HIDE DEF K, V
    <2> QED
      BY <1>1, FS_Product
  <1>3. f \in Injection(Rows, K \X V)
    BY DEF Injection, IsInjective, Rows
  <1>4. IsFiniteSet(Rows)
    BY <1>2, <1>3, FS_Injection
  <1> QED
    BY <1>4, FS_Subset, FS_CardinalityType

\* A source has at most as many rows as keys.
LEMMA CountsAreBounded ==
    ASSUME MomentsCaptureAssumption, IInv, NEW e \in Entities, NEW k
    PROVE  Cardinality(KeysUpTo(source[e], k)) \in 0 .. MaxKey
  <1> DEFINE S == KeysUpTo(source[e], k)
             K == 1 .. MaxKey
             f == [r \in S |-> r.key]
  <1>1. S \subseteq source[e] /\ source[e] \subseteq Rows
    BY DEF KeysUpTo, IInv, TypeOK
  <1>2. f \in Injection(S, K)
    <2>1. \A r, t \in S : r.key = t.key => r = t
      BY <1>1 DEF IInv, VersionsArePast
    <2>2. \A r \in S : r.key \in K
      BY <1>1 DEF Rows
    <2> HIDE DEF S
    <2> QED
      BY <2>1, <2>2 DEF Injection, IsInjective
  <1>3. IsFiniteSet(K) /\ Cardinality(K) <= MaxKey /\ MaxKey \in Nat
    BY FS_Interval DEF MomentsCaptureAssumption
  <1>4. Cardinality(S) <= Cardinality(K) /\ Cardinality(S) \in Nat /\ Cardinality(K) \in Nat
    <2> HIDE DEF S, K, f
    <2>1. IsFiniteSet(S) /\ Cardinality(S) <= Cardinality(K)
      BY <1>2, <1>3, FS_Injection
    <2> QED
      BY <1>3, <2>1, FS_CardinalityType
  <1> QED
    BY <1>3, <1>4

\* A page passes over no row between the cursor and its own last row.
LEMMA PagesSkipNothing ==
    ASSUME MomentsCaptureAssumption, IInv, NEW e \in Entities, NEW low, NEW high,
           low \in 0 .. MaxKey, high \in 0 .. MaxKey, Page(e, low, high) # {}
    PROVE  /\ Page(e, low, high) \subseteq source[e]
           /\ LastKey(Page(e, low, high)) \in 1 .. high
           /\ low < LastKey(Page(e, low, high))
           /\ \A r \in source[e] :
                 low < r.key /\ r.key <= LastKey(Page(e, low, high)) =>
                    r \in Page(e, low, high)
  <1> DEFINE rest == {r \in KeysUpTo(source[e], high) : low < r.key}
             page == Page(e, low, high)
             last == LastKey(page)
  <1>1. rest \subseteq source[e] /\ source[e] \subseteq Rows /\ rest \subseteq Rows
    BY DEF KeysUpTo, IInv, TypeOK
  <1>2. page = {r \in rest : Cardinality(KeysUpTo(rest, r.key)) <= PageSize}
    BY DEF Page
  <1>3. /\ last \in 1 .. MaxKey /\ \E r \in page : r.key = last
        /\ \A r \in page : r.key <= last
    <2> HIDE DEF page, rest
    <2> QED
      BY <1>1, <1>2, LastKeyIsLast DEF page
  <1>4. PICK z \in page : z.key = last
    BY <1>3
  <1>5. z \in rest /\ Cardinality(KeysUpTo(rest, last)) <= PageSize
    BY <1>2, <1>4
  <1>6. last <= high /\ low < last
    BY <1>4, <1>5 DEF KeysUpTo
  <1>7. ASSUME NEW r \in source[e], low < r.key, r.key <= last
        PROVE  r \in page
    <2>1. r \in Rows /\ r.key \in 1 .. MaxKey
      BY <1>1 DEF Rows
    <2>2. r \in rest
      BY <1>3, <1>6, <1>7, <2>1 DEF KeysUpTo
    <2>3. KeysUpTo(rest, r.key) \subseteq KeysUpTo(rest, last)
      <3>1. \A t \in rest : t.key \in 1 .. MaxKey
        BY <1>1 DEF Rows
      <3> HIDE DEF rest, last, page
      <3> QED
        BY <1>3, <1>7, <2>1, <3>1 DEF KeysUpTo
    <2>4. /\ KeysUpTo(rest, last) \subseteq Rows
          /\ KeysUpTo(rest, r.key) \subseteq Rows
      BY <1>1 DEF KeysUpTo
    <2>5. Cardinality(KeysUpTo(rest, r.key)) <= Cardinality(KeysUpTo(rest, last))
      <3> HIDE DEF rest, last, page
      <3> QED
        BY <2>3, <2>4, RowsAreFinite, FS_Subset
    <2>6. /\ Cardinality(KeysUpTo(rest, r.key)) \in Nat
          /\ Cardinality(KeysUpTo(rest, last)) \in Nat
      <3> HIDE DEF rest, last, page
      <3> QED
        BY <2>4, RowsAreFinite
    <2>7. Cardinality(KeysUpTo(rest, r.key)) <= PageSize
      <3> HIDE DEF rest, last, page
      <3> QED
        BY <1>5, <2>5, <2>6 DEF MomentsCaptureAssumption
    <2> HIDE DEF rest, last, page
    <2> QED
      BY <1>2, <2>2, <2>7
  <1> HIDE DEF rest, last
  <1>8. page \subseteq source[e]
    BY <1>1, <1>2
  <1>9. last \in 1 .. high
    BY <1>3, <1>6
  <1> QED
    BY <1>6, <1>7, <1>8, <1>9 DEF last

-----------------------------------------------------------------------------
(* The source and the runs.                                                  *)

LEMMA InitHolds ==
    ASSUME MomentsCaptureAssumption, Init
    PROVE  IInv
  <1>1. TypeOK
    <2>1. source \in [Entities -> SUBSET Rows]
      <3>1. \A e \in Entities : \A k \in FirstRows[e] : Row(k, 0) \in Rows
        BY DEF MomentsCaptureAssumption, Row, Rows
      <3> QED
        BY <3>1 DEF Init
    <2>2. /\ state \in [Captures -> [Entities -> States]]
          /\ \A c \in Captures, e \in Entities : state[c][e].cursor <= state[c][e].upper
      BY DEF Init, Unknown, States, MomentsCaptureAssumption
    <2>3. /\ marker \in [Captures -> [written : BOOLEAN, after : SUBSET Manifests]]
          /\ report \in [Captures -> [primary : 0 .. MaxRuns, secondary : SUBSET Manifests]]
      BY DEF Init, NoMarker, Unstable, MomentsCaptureAssumption
    <2>4. /\ run \in [Captures -> [at : {"off", "entity", "count"}, upper : 0 .. MaxKey]]
          /\ edition \in [Captures -> 0 .. MaxRuns] /\ runs \in 0 .. MaxRuns
          /\ changes \in 0 .. MaxChanges /\ built \subseteq Captures
          /\ base \in [Captures -> [Entities -> SUBSET Rows]]
      BY DEF Init, Off, MomentsCaptureAssumption
    <2> QED
      BY <2>1, <2>2, <2>3, <2>4 DEF TypeOK
  <1>2. VersionsArePast
    <2>1. \A e \in Entities : \A r, t \in source[e] :
             r.version = 0 /\ (r.key = t.key => r = t)
      BY DEF Init, Row
    <2>2. \A c \in Captures, e \in Entities : base[c][e] = {} /\ state[c][e].rows = {}
      BY DEF Init, Unknown
    <2> QED
      BY <2>1, <2>2 DEF VersionsArePast, Init
  <1>3. EditionsAreRuns /\ UnmarkedIsEmpty /\ ManifestsAreComplete
    BY DEF Init, Off, EditionsAreRuns, UnmarkedIsEmpty, ManifestsAreComplete
  <1>4. PassesAreExact
    BY DEF Init, Off, Unknown, PassesAreExact
  <1>5. WindowsAreApart /\ ReportsHold
    BY DEF Init, NoMarker, Unstable, WindowsAreApart, ReportsHold
  <1> QED
    BY <1>1, <1>2, <1>3, <1>4, <1>5 DEF IInv

\* A change brings only rows that nobody has read.
LEMMA ChangeKeeps ==
    ASSUME MomentsCaptureAssumption, IInv, NEW e \in Entities, NEW set, Change(e, set),
           set \subseteq Rows,
           \A r, t \in set : r.key = t.key => r = t,
           \A r \in set : r \in source[e] \/ r.version = changes + 1
    PROVE  IInv'
  <1>1. /\ changes' = changes + 1 /\ changes \in Nat /\ changes' \in 0 .. MaxChanges
        /\ UNCHANGED <<marker, state, run, edition, runs, base, report, built>>
    BY DEF Change, captureVars, IInv, TypeOK, MomentsCaptureAssumption
  <1>2. /\ source'[e] = set /\ \A f \in Entities \ {e} : source'[f] = source[f]
        /\ source' \in [Entities -> SUBSET Rows]
    BY DEF Change, IInv, TypeOK
  <1>3. \A r \in Rows : r.version \in Nat
    BY DEF Rows
  <1>4. \A f \in Entities : \A r \in source'[f] : r \in source[f] \/ r.version = changes + 1
    BY <1>2
  <1>5. \A c \in Captures, f \in Entities : base[c][f] \subseteq Rows /\
        state[c][f].rows \subseteq Rows
    BY DEF IInv, TypeOK, States
  <1>6. \A f \in Entities : source[f] \subseteq Rows /\ source'[f] \subseteq Rows
    BY <1>2 DEF IInv, TypeOK
  <1>7. \A c \in Captures, f \in Entities : \A r \in base[c][f] \cup state[c][f].rows :
           r.version # changes + 1
    BY <1>1, <1>3, <1>5 DEF IInv, VersionsArePast
  <1>8. TypeOK'
    BY <1>1, <1>2 DEF IInv, TypeOK
  <1>9. VersionsArePast'
    <2>1. \A f \in Entities : \A r \in source'[f] : r.version <= changes'
      BY <1>1, <1>3, <1>4, <1>6 DEF IInv, VersionsArePast
    <2>2. \A f \in Entities : \A r, t \in source'[f] : r.key = t.key => r = t
      BY <1>2 DEF IInv, VersionsArePast
    <2>3. \A c \in Captures, f \in Entities : \A r \in base[c][f] \cup state[c][f].rows :
             r.version <= changes'
      BY <1>1, <1>3, <1>5 DEF IInv, VersionsArePast
    <2> QED
      BY <1>1, <2>1, <2>2, <2>3 DEF VersionsArePast
  <1>10. PassesAreExact'
    <2>1. \A c \in Captures, f \in Entities : Standing(c, f)' \subseteq Standing(c, f)
      BY <1>1, <1>4, <1>7 DEF Standing
    <2>2. \A c \in Captures, f \in Entities : Turn(c, f)' <=> Turn(c, f)
      BY <1>1 DEF Turn
    <2> QED
      BY <1>1, <2>1, <2>2 DEF IInv, PassesAreExact
  <1>11. WindowsAreApart'
    <2>1. ASSUME NEW b \in Captures, NEW m \in marker[b].after, NEW f \in Entities
          PROVE  state[m[1]][f].rows \cap (source'[f] \cup state[b][f].rows) \subseteq base[b][f]
      <3>1. m[1] \in Captures
        BY DEF IInv, TypeOK, Manifests
      <3> QED
        BY <1>4, <1>7, <3>1 DEF IInv, WindowsAreApart
    <2> QED
      BY <1>1, <2>1 DEF IInv, WindowsAreApart
  <1>12. EditionsAreRuns' /\ UnmarkedIsEmpty' /\ ManifestsAreComplete' /\ ReportsHold'
    BY <1>1
       DEF IInv, EditionsAreRuns, UnmarkedIsEmpty, ManifestsAreComplete, ReportsHold, Same
  <1> QED
    BY <1>8, <1>9, <1>10, <1>11, <1>12 DEF IInv

LEMMA WriteKeeps ==
    ASSUME MomentsCaptureAssumption, IInv, NEW e \in Entities, NEW k \in 1 .. MaxKey,
           Write(e, k) \/ Remove(e, k)
    PROVE  IInv'
  <1> DEFINE o == Others(e, k)
             x == Row(k, changes + 1)
  <1>1. /\ o \subseteq source[e] /\ \A r \in o : r.key # k
        /\ source[e] \subseteq Rows
    BY DEF Others, IInv, TypeOK
  <1>2. \A r, t \in o : r.key = t.key => r = t
    BY <1>1 DEF IInv, VersionsArePast
  <1>3. CASE Write(e, k)
    <2>1. changes + 1 \in 0 .. MaxChanges
      BY <1>3 DEF Write, Change, IInv, TypeOK, MomentsCaptureAssumption
    <2>2. x \in Rows /\ x.key = k /\ x.version = changes + 1
      BY <2>1 DEF Row, Rows
    <2>3. Change(e, o \cup {x})
      BY <1>3 DEF Write
    <2> HIDE DEF o, x
    <2> QED
      BY <1>1, <1>2, <2>2, <2>3, ChangeKeeps
  <1>4. CASE Remove(e, k)
    <2>1. Change(e, o)
      BY <1>4 DEF Remove
    <2> HIDE DEF o
    <2> QED
      BY <1>1, <1>2, <2>1, ChangeKeeps
  <1> QED
    BY <1>3, <1>4

\* What a step that reads and writes nothing of the captures leaves as it is.
LEMMA RunsKept ==
    ASSUME IInv, UNCHANGED <<source, changes, marker, state, edition, base, report, built>>
    PROVE  /\ VersionsArePast' /\ ManifestsAreComplete' /\ WindowsAreApart' /\ ReportsHold'
           /\ \A c \in Captures, e \in Entities : (Turn(c, e)' <=> Turn(c, e))
                                                 /\ Standing(c, e)' = Standing(c, e)
  BY
     DEF IInv, VersionsArePast, ManifestsAreComplete, WindowsAreApart, ReportsHold, Same,
         Turn, Standing

LEMMA StopKeeps ==
    ASSUME MomentsCaptureAssumption, IInv, NEW c \in Captures, Stop(c)
    PROVE  IInv'
  <1>1. /\ run' = [run EXCEPT ![c] = Off]
        /\ UNCHANGED <<source, changes, marker, state, edition, runs, base, report, built>>
    BY DEF Stop, Calm
  <1>2. /\ run'[c].at = "off" /\ \A d \in Captures \ {c} : run'[d] = run[d]
        /\ Off \in [at : {"off", "entity", "count"}, upper : 0 .. MaxKey]
    BY <1>1 DEF Off, IInv, TypeOK, MomentsCaptureAssumption
  <1>3. TypeOK'
    BY <1>1, <1>2 DEF IInv, TypeOK
  <1>4. EditionsAreRuns' /\ UnmarkedIsEmpty'
    BY <1>1, <1>2 DEF IInv, TypeOK, EditionsAreRuns, UnmarkedIsEmpty
  <1>5. PassesAreExact'
    BY <1>1, <1>2, RunsKept DEF IInv, PassesAreExact
  <1> QED
    BY <1>1, <1>3, <1>4, <1>5, RunsKept DEF IInv

LEMMA BeginKeeps ==
    ASSUME MomentsCaptureAssumption, IInv, NEW c \in Captures, Begin(c)
    PROVE  IInv'
  <1>1. /\ run[c].at = "off" /\ runs < MaxRuns /\ runs' = runs + 1
        /\ run' = [run EXCEPT ![c].at = "entity"]
        /\ UNCHANGED <<source, changes, state, edition, report, built>>
    BY DEF Begin, Calm
  <1>2. /\ run'[c].at = "entity" /\ \A d \in Captures \ {c} : run'[d] = run[d]
        /\ run' \in [Captures -> [at : {"off", "entity", "count"}, upper : 0 .. MaxKey]]
    BY <1>1 DEF IInv, TypeOK
  <1>3. /\ runs \in Nat /\ runs' \in 0 .. MaxRuns /\ \A d \in Captures : edition[d] \in Nat
    BY <1>1 DEF IInv, TypeOK, MomentsCaptureAssumption
  <1>4. EditionsAreRuns'
    BY <1>1, <1>2, <1>3 DEF IInv, EditionsAreRuns
  <1>5. CASE marker[c].written /\ UNCHANGED <<marker, base>>
    <2>1. TypeOK'
      BY <1>1, <1>2, <1>3, <1>5 DEF IInv, TypeOK
    <2>2. UnmarkedIsEmpty'
      BY <1>1, <1>2, <1>5 DEF IInv, UnmarkedIsEmpty
    <2>3. PassesAreExact'
      BY <1>1, <1>2, <1>5, RunsKept DEF IInv, PassesAreExact
    <2> QED
      BY <1>1, <1>4, <1>5, <2>1, <2>2, <2>3, RunsKept DEF IInv
  <1>6. CASE /\ ~marker[c].written
             /\ marker' = [marker EXCEPT ![c] =
                              [written |-> TRUE,
                               after   |-> {m \in Manifests : m[2] <= edition[m[1]]}]]
             /\ base' = [base EXCEPT ![c] = source]
    <2> DEFINE A == {m \in Manifests : m[2] <= edition[m[1]]}
    <2>1. /\ marker'[c] = [written |-> TRUE, after |-> A]
          /\ \A d \in Captures \ {c} : marker'[d] = marker[d]
          /\ marker' \in [Captures -> [written : BOOLEAN, after : SUBSET Manifests]]
      BY <1>6 DEF IInv, TypeOK
    <2>2. /\ base'[c] = source /\ \A d \in Captures \ {c} : base'[d] = base[d]
          /\ base' \in [Captures -> [Entities -> SUBSET Rows]]
      BY <1>6 DEF IInv, TypeOK
    <2>3. \A e \in Entities : state[c][e] = Unknown
      BY <1>6 DEF IInv, UnmarkedIsEmpty
    <2>4. /\ Unknown.known = FALSE /\ Unknown.complete = FALSE /\ Unknown.rows = {}
      BY DEF Unknown
    <2>5. TypeOK'
      BY <1>1, <1>2, <1>3, <2>1, <2>2 DEF IInv, TypeOK
    <2>6. VersionsArePast'
      BY <1>1, <2>2, <2>3, <2>4 DEF IInv, VersionsArePast
    <2>7. UnmarkedIsEmpty'
      BY <1>1, <1>2, <2>1 DEF IInv, UnmarkedIsEmpty
    <2>8. PassesAreExact'
      <3>1. \A d \in Captures, e \in Entities : Turn(d, e)' <=> Turn(d, e)
        BY <1>1 DEF Turn
      <3>2. \A d \in Captures \ {c}, e \in Entities : Standing(d, e)' = Standing(d, e)
        BY <1>1, <2>2 DEF Standing
      <3> QED
        BY <1>1, <1>2, <2>3, <2>4, <3>1, <3>2 DEF IInv, PassesAreExact
    <2>9. ManifestsAreComplete' /\ ReportsHold'
      BY <1>1 DEF IInv, ManifestsAreComplete, ReportsHold, Same
    <2>10. WindowsAreApart'
      <3>1. ASSUME NEW b \in Captures, NEW m \in marker'[b].after
            PROVE  /\ edition[m[1]] > 0
                   /\ \A e \in Entities :
                         state[m[1]][e].rows \cap (source[e] \cup state[b][e].rows)
                            \subseteq base'[b][e]
        <4>1. CASE b # c
          BY <2>1, <2>2, <3>1, <4>1 DEF IInv, WindowsAreApart
        <4>2. CASE b = c
          <5>1. m \in A
            BY <2>1, <3>1, <4>2
          <5>2. m[1] \in Captures /\ m[2] \in 1 .. MaxRuns /\ m[2] <= edition[m[1]]
            BY <5>1 DEF Manifests
          <5>3. edition[m[1]] > 0
            BY <1>3, <5>2
          <5> QED
            BY <2>2, <2>3, <2>4, <4>2, <5>3
        <4> QED
          BY <4>1, <4>2
      <3> QED
        BY <1>1, <3>1 DEF WindowsAreApart
    <2> QED
      BY <1>4, <2>5, <2>6, <2>7, <2>8, <2>9, <2>10 DEF IInv
  <1> QED
    BY <1>5, <1>6 DEF Begin

-----------------------------------------------------------------------------
(* A capture of an entity.                                                   *)

\* Session c saves s as the state of entity e, whose turn it is.
LEMMA SaveKeeps ==
    ASSUME MomentsCaptureAssumption, IInv, NEW c \in Captures, NEW e \in Entities, Turn(c, e),
           NEW s \in States, state' = [state EXCEPT ![c][e] = s],
           run[c].at # "off", run'[c].at = "entity",
           \A d \in Captures \ {c} : run'[d] = run[d],
           run' \in [Captures -> [at : {"off", "entity", "count"}, upper : 0 .. MaxKey]],
           UNCHANGED <<source, changes, marker, edition, runs, base, report, built>>,
           s.known, s.cursor <= s.upper, s.complete => s.cursor = s.upper,
           s.rows \subseteq state[c][e].rows \cup source[e],
           \A r \in Standing(c, e) :
              /\ r.key <= s.upper
              /\ r.key <= s.cursor => r \in s.rows
    PROVE  IInv'
  <1>1. state \in [Captures -> [Entities -> States]]
    BY DEF IInv, TypeOK
  <1>2. /\ state' \in [Captures -> [Entities -> States]]
        /\ state'[c][e] = s
        /\ \A d \in Captures, f \in Entities : d # c \/ f # e => state'[d][f] = state[d][f]
    BY <1>1
  <1>3. TypeOK'
    BY <1>2 DEF IInv, TypeOK
  <1>4. edition[c] = 0
    <2>1. ~(edition[c] > 0)
      BY DEF Turn, IInv, ManifestsAreComplete
    <2>2. edition[c] \in Nat
      BY DEF IInv, TypeOK, MomentsCaptureAssumption
    <2> QED
      BY <2>1, <2>2
  <1>5. \A d \in Captures : edition[d] > 0 =>
        d # c /\ \A f \in Entities : state'[d][f] = state[d][f]
    BY <1>2, <1>4
  <1>6. VersionsArePast'
    <2>1. ASSUME NEW d \in Captures, NEW f \in Entities,
                 NEW r \in base[d][f] \cup state'[d][f].rows
          PROVE  r.version <= changes
      <3>1. CASE d = c /\ f = e
        BY <1>2, <2>1, <3>1 DEF IInv, VersionsArePast
      <3>2. CASE d # c \/ f # e
        BY <1>2, <2>1, <3>2 DEF IInv, VersionsArePast
      <3> QED
        BY <3>1, <3>2
    <2> QED
      BY <2>1 DEF IInv, VersionsArePast
  <1>7. EditionsAreRuns'
    BY DEF IInv, EditionsAreRuns
  <1>8. UnmarkedIsEmpty'
    BY <1>2 DEF IInv, UnmarkedIsEmpty
  <1>9. ManifestsAreComplete'
    BY <1>5 DEF IInv, ManifestsAreComplete
  <1>10. PassesAreExact'
    <2>1. \A d \in Captures, f \in Entities : Standing(d, f)' = Standing(d, f)
      BY DEF Standing
    <2>2. ASSUME NEW d \in Captures, d # c, NEW f \in Entities
          PROVE  Turn(d, f)' <=> Turn(d, f)
      BY <1>2, <2>2 DEF Turn
    <2>3. ASSUME NEW d \in Captures, NEW f \in Entities
          PROVE  /\ state'[d][f].complete =>
                       state'[d][f].known /\ state'[d][f].cursor = state'[d][f].upper
                 /\ state'[d][f].known =>
                       \A r \in Standing(d, f) :
                          /\ r.key <= state'[d][f].upper
                          /\ r.key <= state'[d][f].cursor => r \in state'[d][f].rows
      <3>1. CASE d = c /\ f = e
        BY <1>2, <3>1
      <3>2. CASE d # c \/ f # e
        BY <1>2, <3>2 DEF IInv, PassesAreExact
      <3> QED
        BY <3>1, <3>2
    <2>4. ASSUME NEW d \in Captures, NEW f \in Entities, run'[d].at = "count", Turn(d, f)'
          PROVE  \A r \in Standing(d, f) : r.key <= run'[d].upper
      BY <2>2, <2>4 DEF IInv, PassesAreExact
    <2> QED
      BY <2>1, <2>3, <2>4 DEF PassesAreExact
  <1>11. WindowsAreApart'
    <2>1. ASSUME NEW b \in Captures, NEW m \in marker[b].after, NEW f \in Entities
          PROVE  state'[m[1]][f].rows \cap (source[f] \cup state'[b][f].rows) \subseteq
                 base[b][f]
      <3>1. /\ m[1] \in Captures /\ edition[m[1]] > 0
            /\ state[m[1]][f].rows \cap (source[f] \cup state[b][f].rows) \subseteq base[b][f]
        BY DEF IInv, TypeOK, Manifests, WindowsAreApart
      <3>2. state'[m[1]][f] = state[m[1]][f]
        BY <1>5, <3>1
      <3>3. state'[b][f].rows \subseteq state[b][f].rows \cup source[f]
        BY <1>2
      <3> QED
        BY <3>1, <3>2, <3>3
    <2> QED
      BY <2>1 DEF IInv, WindowsAreApart
  <1>12. ReportsHold'
    <2>1. ASSUME NEW a \in Captures, NEW m \in report[a].secondary
          PROVE  edition[a] > 0 /\ edition[m[1]] > 0 /\ Same(a, m[1])'
      <3>1. m[1] \in Captures /\ edition[a] > 0 /\ edition[m[1]] > 0 /\ Same(a, m[1])
        BY DEF IInv, TypeOK, Manifests, ReportsHold
      <3> QED
        BY <1>5, <3>1 DEF Same
    <2> QED
      BY <2>1 DEF ReportsHold, Same
  <1> QED
    BY <1>3, <1>6, <1>7, <1>8, <1>9, <1>10, <1>11, <1>12 DEF IInv

\* The state before an entity is begun.
LEMMA UnknownIsEmpty ==
    ASSUME MomentsCaptureAssumption
    PROVE  /\ Unknown \in States /\ Unknown.cursor = 0 /\ Unknown.rows = {}
           /\ Unknown.complete = FALSE
  BY DEF Unknown, States, MomentsCaptureAssumption

LEMMA BasesAreMarked ==
    ASSUME IInv, NEW c \in Captures, NEW e \in Entities, NEW k,
           \A r \in source[e] : r.key <= k
    PROVE  \A r \in Standing(c, e) : r.key <= k
  BY DEF Standing

LEMMA ReadUpperBoundKeeps ==
    ASSUME MomentsCaptureAssumption, IInv, NEW c \in Captures, NEW e \in Entities,
           ReadUpperBound(c, e)
    PROVE  IInv'
  <1>1. run[c].at = "entity" /\ Turn(c, e) /\ ~state[c][e].known
    BY DEF ReadUpperBound
  <1>2. PICK k \in 0 .. MaxKey :
          /\ \A r \in source[e] : r.key <= k
          /\ IF k # 0 /\ e \in Counted
               THEN /\ run' = [run EXCEPT ![c] = [at |-> "count", upper |-> k]]
                    /\ UNCHANGED <<marker, state, edition, runs, base>> /\ Calm
               ELSE /\ Save(c, e, [Unknown EXCEPT
                          !.known = TRUE, !.upper = k, !.complete = (k = 0),
                          !.expected = IF k = 0 THEN 0 ELSE Uncounted])
                    /\ UNCHANGED run
    BY DEF ReadUpperBound
  <1>3. \A r \in Standing(c, e) : r.key <= k
    BY <1>2, BasesAreMarked
  <1>4. CASE k # 0 /\ e \in Counted
    <2>1. /\ run' = [run EXCEPT ![c] = [at |-> "count", upper |-> k]]
          /\ UNCHANGED <<source, changes, marker, state, edition, runs, base, report, built>>
      BY <1>2, <1>4 DEF Calm
    <2>2. /\ run'[c].at = "count" /\ run'[c].upper = k
          /\ \A d \in Captures \ {c} : run'[d] = run[d]
          /\ run' \in [Captures -> [at : {"off", "entity", "count"}, upper : 0 .. MaxKey]]
      BY <2>1 DEF IInv, TypeOK
    <2>3. TypeOK'
      BY <2>1, <2>2 DEF IInv, TypeOK
    <2>4. EditionsAreRuns' /\ UnmarkedIsEmpty'
      BY <1>1, <2>1, <2>2 DEF IInv, EditionsAreRuns, UnmarkedIsEmpty
    <2>5. \A f \in Entities : Turn(c, f) => f = e
      BY <1>1 DEF Turn, Entities
    <2>6. PassesAreExact'
      BY <1>3, <2>1, <2>2, <2>5, RunsKept DEF IInv, PassesAreExact
    <2> QED
      BY <2>1, <2>3, <2>4, <2>6, RunsKept DEF IInv
  <1>5. CASE ~(k # 0 /\ e \in Counted)
    <2> DEFINE x == IF k = 0 THEN 0 ELSE Uncounted
               z == (k = 0)
               s == [Unknown EXCEPT !.known = TRUE, !.upper = k, !.complete = z,
                                    !.expected = x]
    <2>1. x \in 0 .. MaxKey + 1 /\ z \in BOOLEAN
      BY DEF Uncounted, MomentsCaptureAssumption
    <2>2. Save(c, e, s) /\ UNCHANGED run
      BY <1>2, <1>5
    <2> HIDE DEF x
    <2> HIDE DEF z
    <2>3. Unknown \in States /\ Unknown.cursor = 0 /\ Unknown.rows = {}
      BY UnknownIsEmpty
    <2>4. /\ s \in States /\ s.known /\ s.cursor = 0 /\ s.upper = k /\ s.rows = {}
          /\ s.complete => k = 0
      <3>1. s \in States
        BY <2>1, <2>3 DEF States
      <3>2. s.known
        BY <2>3 DEF States
      <3>3. s.cursor = 0 /\ s.rows = {}
        BY <2>3 DEF States
      <3>4. s.upper = k
        BY <2>3 DEF States
      <3>5. s.complete = z
        BY <2>3 DEF States
      <3>6. z => k = 0
        BY DEF z
      <3> HIDE DEF s
      <3> QED
        BY <3>1, <3>2, <3>3, <3>4, <3>5, <3>6
    <2> HIDE DEF s
    <2>5. /\ state' = [state EXCEPT ![c][e] = s]
          /\ UNCHANGED <<run, source, changes, marker, edition, runs, base, report, built>>
      BY <2>2 DEF Save, Calm
    <2>6. \A r \in Standing(c, e) : r.key \in 1 .. MaxKey
      BY DEF Standing, IInv, TypeOK, Rows
    <2>7. \A r \in Standing(c, e) : r.key <= s.upper /\ (r.key <= s.cursor => r \in s.rows)
      BY <1>3, <2>4, <2>6
    <2>8. /\ run'[c].at = "entity" /\ \A d \in Captures \ {c} : run'[d] = run[d]
          /\ run' \in [Captures -> [at : {"off", "entity", "count"}, upper : 0 .. MaxKey]]
      BY <1>1, <2>5 DEF IInv, TypeOK
    <2>9. /\ run[c].at # "off" /\ s.cursor <= s.upper /\ s.rows \subseteq source[e]
          /\ s.complete => s.cursor = s.upper
      BY <1>1, <2>4
    <2> QED
      BY <1>1, <2>4, <2>5, <2>7, <2>8, <2>9, SaveKeeps
  <1> QED
    BY <1>4, <1>5

LEMMA ReadCountKeeps ==
    ASSUME MomentsCaptureAssumption, IInv, NEW c \in Captures, NEW e \in Entities,
           ReadCount(c, e)
    PROVE  IInv'
  <1> DEFINE k == run[c].upper
             n == Cardinality(KeysUpTo(source[e], k))
             s == [Unknown EXCEPT !.known = TRUE, !.upper = k, !.expected = n]
             x == [at |-> "entity", upper |-> 0]
  <1>1. /\ run[c].at = "count" /\ Turn(c, e) /\ Save(c, e, s)
        /\ run' = [run EXCEPT ![c] = x]
    BY DEF ReadCount
  <1>2. k \in 0 .. MaxKey /\ n \in 0 .. MaxKey /\ MaxKey \in Nat
    BY CountsAreBounded DEF IInv, TypeOK, MomentsCaptureAssumption
  <1> HIDE DEF n
  <1>3. /\ Unknown \in States /\ Unknown.cursor = 0 /\ Unknown.rows = {}
        /\ Unknown.complete = FALSE
    BY UnknownIsEmpty
  <1>4. /\ s \in States /\ s.known /\ s.cursor = 0 /\ s.upper = k /\ s.rows = {} /\ ~s.complete
    <2>1. n \in 0 .. MaxKey + 1 /\ k \in 0 .. MaxKey
      BY <1>2
    <2> HIDE DEF k
    <2>2. s \in States
      BY <1>3, <2>1 DEF States
    <2>3. s.known
      BY <1>3 DEF States
    <2>4. s.cursor = 0 /\ s.rows = {}
      BY <1>3 DEF States
    <2>5. s.upper = k
      BY <1>3 DEF States
    <2>6. s.complete = FALSE
      BY <1>3 DEF States
    <2> HIDE DEF s
    <2> QED
      BY <2>2, <2>3, <2>4, <2>5, <2>6
  <1> HIDE DEF s
  <1>5. /\ state' = [state EXCEPT ![c][e] = s]
        /\ UNCHANGED <<source, changes, marker, edition, runs, base, report, built>>
    BY <1>1 DEF Save, Calm
  <1>6. /\ run'[c].at = "entity" /\ \A d \in Captures \ {c} : run'[d] = run[d]
        /\ run' \in [Captures -> [at : {"off", "entity", "count"}, upper : 0 .. MaxKey]]
    BY <1>1, <1>2 DEF IInv, TypeOK
  <1>7. \A r \in Standing(c, e) : r.key \in 1 .. MaxKey
    BY DEF Standing, IInv, TypeOK, Rows
  <1>8. \A r \in Standing(c, e) : r.key <= s.upper /\ (r.key <= s.cursor => r \in s.rows)
    BY <1>1, <1>4, <1>7 DEF IInv, PassesAreExact
  <1>9. run[c].at # "off" /\ s.cursor <= s.upper /\ s.rows \subseteq source[e]
    BY <1>1, <1>2, <1>4
  <1> HIDE DEF k, x
  <1> QED
    BY <1>1, <1>4, <1>5, <1>6, <1>8, <1>9, SaveKeeps

LEMMA ReadPageKeeps ==
    ASSUME MomentsCaptureAssumption, IInv, NEW c \in Captures, NEW e \in Entities,
           ReadPage(c, e)
    PROVE  IInv'
  <1> DEFINE w == state[c][e]
             page == Page(e, w.cursor, w.upper)
             last == LastKey(page)
             z == (last = w.upper)
             s == [w EXCEPT !.rows = @ \cup page, !.cursor = last, !.complete = z]
  <1>1. /\ run[c].at = "entity" /\ Turn(c, e) /\ w.known /\ page # {}
        /\ Save(c, e, s) /\ UNCHANGED run
    BY DEF ReadPage
  <1>2. w \in States /\ w.cursor \in 0 .. MaxKey /\ w.upper \in 0 .. MaxKey
    BY DEF IInv, TypeOK, States
  <1>3. /\ page \subseteq source[e] /\ last \in 1 .. w.upper /\ w.cursor < last
        /\ \A r \in source[e] : w.cursor < r.key /\ r.key <= last => r \in page
    BY <1>1, <1>2, PagesSkipNothing
  <1>4. page \subseteq Rows /\ z \in BOOLEAN
    BY <1>3 DEF IInv, TypeOK
  <1> HIDE DEF page, last
  <1>5. last \in 0 .. MaxKey /\ w.rows \cup page \subseteq Rows
    <2>1. w.rows \subseteq Rows
      BY <1>2 DEF States
    <2>2. last \in 0 .. MaxKey
      <3> HIDE DEF w
      <3> QED
        BY <1>2, <1>3 DEF MomentsCaptureAssumption
    <2> QED
      BY <1>4, <2>1, <2>2
  <1>6. /\ s \in States /\ s.known /\ s.cursor = last /\ s.upper = w.upper
        /\ s.rows = w.rows \cup page /\ (s.complete => last = w.upper)
    <2>1. z => last = w.upper
      OBVIOUS
    <2> HIDE DEF w, z
    <2>2. s \in States
      BY <1>2, <1>4, <1>5 DEF States
    <2>3. s.known = w.known
      BY <1>2 DEF States
    <2>4. s.cursor = last
      BY <1>2 DEF States
    <2>5. s.upper = w.upper
      BY <1>2 DEF States
    <2>6. s.rows = w.rows \cup page
      BY <1>2 DEF States
    <2>7. s.complete = z
      BY <1>2 DEF States
    <2> HIDE DEF s
    <2> QED
      BY <1>1, <2>1, <2>2, <2>3, <2>4, <2>5, <2>6, <2>7
  <1> HIDE DEF s
  <1>7. /\ state' = [state EXCEPT ![c][e] = s]
        /\ UNCHANGED <<run, source, changes, marker, edition, runs, base, report, built>>
    BY <1>1 DEF Save, Calm
  <1>8. \A r \in Standing(c, e) : r.key \in 1 .. MaxKey /\ r \in source[e]
    BY DEF Standing, IInv, TypeOK, Rows
  <1>9. \A r \in Standing(c, e) : r.key <= w.upper /\ (r.key <= w.cursor => r \in w.rows)
    BY <1>1 DEF IInv, PassesAreExact
  <1>10. \A r \in Standing(c, e) : r.key <= s.upper /\ (r.key <= s.cursor => r \in s.rows)
    BY <1>2, <1>3, <1>6, <1>8, <1>9
  <1>11. s.cursor <= s.upper /\ s.rows \subseteq w.rows \cup source[e]
    BY <1>2, <1>3, <1>6
  <1> QED
    BY <1>1, <1>6, <1>7, <1>10, <1>11, SaveKeeps DEF IInv, TypeOK

LEMMA WriteManifestKeeps ==
    ASSUME MomentsCaptureAssumption, IInv, NEW c \in Captures, WriteManifest(c)
    PROVE  IInv'
  <1>1. /\ run[c].at = "entity" /\ \A e \in Entities : state[c][e].complete
        /\ edition' = [edition EXCEPT ![c] = @ + 1] /\ run' = [run EXCEPT ![c] = Off]
        /\ UNCHANGED <<source, changes, marker, state, runs, base, report, built>>
    BY DEF WriteManifest, Calm
  <1>2. /\ run'[c].at = "off" /\ \A d \in Captures \ {c} : run'[d] = run[d]
        /\ run' \in [Captures -> [at : {"off", "entity", "count"}, upper : 0 .. MaxKey]]
    BY <1>1 DEF Off, IInv, TypeOK, MomentsCaptureAssumption
  <1>3. /\ edition[c] < runs /\ runs \in 0 .. MaxRuns /\ edition[c] \in 0 .. MaxRuns
        /\ MaxRuns \in Nat
    BY <1>1 DEF IInv, TypeOK, EditionsAreRuns, MomentsCaptureAssumption
  <1>4. /\ edition'[c] = edition[c] + 1 /\ \A d \in Captures \ {c} : edition'[d] = edition[d]
        /\ edition' \in [Captures -> 0 .. MaxRuns]
    BY <1>1, <1>3 DEF IInv, TypeOK
  <1>5. TypeOK'
    BY <1>1, <1>2, <1>4 DEF IInv, TypeOK
  <1>6. EditionsAreRuns'
    BY <1>1, <1>2, <1>3, <1>4 DEF IInv, EditionsAreRuns
  <1>7. UnmarkedIsEmpty'
    BY <1>1, <1>2 DEF IInv, UnmarkedIsEmpty
  <1>8. ManifestsAreComplete'
    BY <1>1, <1>4 DEF IInv, ManifestsAreComplete
  <1>9. \A d \in Captures : edition[d] > 0 => edition'[d] > 0
    BY <1>3, <1>4
  <1>10. VersionsArePast'
    BY <1>1 DEF IInv, VersionsArePast
  <1>11. PassesAreExact'
    <2>1. \A d \in Captures, e \in Entities : /\ Turn(d, e)' <=> Turn(d, e)
                                             /\ Standing(d, e)' = Standing(d, e)
      BY <1>1 DEF Turn, Standing
    <2> QED
      BY <1>1, <1>2, <2>1 DEF IInv, PassesAreExact
  <1>12. WindowsAreApart'
    <2>1. \A b \in Captures : \A m \in marker[b].after : m[1] \in Captures
      BY DEF IInv, TypeOK, Manifests
    <2> QED
      BY <1>1, <1>9, <2>1 DEF IInv, WindowsAreApart
  <1>13. ReportsHold'
    <2>1. \A a \in Captures : \A m \in report[a].secondary : m[1] \in Captures
      BY DEF IInv, TypeOK, Manifests
    <2> QED
      BY <1>1, <1>9, <2>1 DEF IInv, ReportsHold, Same
  <1> QED
    BY <1>5, <1>6, <1>7, <1>8, <1>10, <1>11, <1>12, <1>13 DEF IInv

-----------------------------------------------------------------------------
(* The proof of stability and the build.                                     *)

LEMMA CompareKeeps ==
    ASSUME MomentsCaptureAssumption, IInv, NEW a \in Captures, NEW b \in Captures,
           Compare(a, b)
    PROVE  IInv'
  <1> DEFINE proven == [primary |-> edition[a], secondary |-> {<<b, edition[b]>>}]
  <1>1. /\ edition[a] > 0 /\ edition[b] > 0
        /\ report' = [report EXCEPT ![a] = IF Same(a, b) THEN proven ELSE Unstable]
        /\ UNCHANGED <<source, changes, marker, state, run, edition, runs, base, built>>
    BY DEF Compare, captureVars
  <1>2. edition[a] \in 1 .. MaxRuns /\ edition[b] \in 1 .. MaxRuns
    BY <1>1 DEF IInv, TypeOK, MomentsCaptureAssumption
  <1>3. /\ proven \in [primary : 0 .. MaxRuns, secondary : SUBSET Manifests]
        /\ Unstable \in [primary : 0 .. MaxRuns, secondary : SUBSET Manifests]
    BY <1>2 DEF Manifests, Unstable, MomentsCaptureAssumption
  <1>4. TypeOK'
    BY <1>1, <1>3 DEF IInv, TypeOK
  <1>5. ReportsHold'
    <2>1. ASSUME NEW d \in Captures, NEW m \in report'[d].secondary
          PROVE  edition[d] > 0 /\ edition[m[1]] > 0 /\ Same(d, m[1])
      <3>1. CASE d = a
        <4>1. report'[a] = IF Same(a, b) THEN proven ELSE Unstable
          BY <1>1 DEF IInv, TypeOK
        <4>2. Same(a, b) /\ m = <<b, edition[b]>>
          BY <2>1, <3>1, <4>1 DEF Unstable
        <4> QED
          BY <1>1, <3>1, <4>2
      <3>2. CASE d # a
        <4>1. report'[d] = report[d]
          BY <1>1, <3>2 DEF IInv, TypeOK
        <4> QED
          BY <2>1, <4>1 DEF IInv, ReportsHold
      <3> QED
        BY <3>1, <3>2
    <2> QED
      BY <1>1, <2>1 DEF ReportsHold, Same
  <1>6. /\ VersionsArePast' /\ EditionsAreRuns' /\ UnmarkedIsEmpty' /\ PassesAreExact'
        /\ ManifestsAreComplete' /\ WindowsAreApart'
    <2>1. \A c \in Captures, e \in Entities : /\ Turn(c, e)' <=> Turn(c, e)
                                             /\ Standing(c, e)' = Standing(c, e)
      BY <1>1 DEF Turn, Standing
    <2>2. PassesAreExact'
      BY <1>1, <2>1 DEF IInv, PassesAreExact
    <2> QED
      BY <1>1, <2>2 DEF IInv, VersionsArePast, EditionsAreRuns, UnmarkedIsEmpty,
         ManifestsAreComplete, WindowsAreApart
  <1> QED
    BY <1>4, <1>5, <1>6 DEF IInv

\* What a step that leaves the source, the captures and the reports alone keeps.
LEMMA OthersKeep ==
    ASSUME IInv, UNCHANGED <<source, changes, captureVars, report>>, built' \subseteq Captures
    PROVE  IInv'
  <1>1. UNCHANGED <<source, changes, marker, state, run, edition, runs, base, report>>
    BY DEF captureVars
  <1>2. TypeOK'
    BY <1>1 DEF IInv, TypeOK
  <1>3. \A c \in Captures, e \in Entities : /\ Turn(c, e)' <=> Turn(c, e)
                                           /\ Standing(c, e)' = Standing(c, e)
    BY <1>1 DEF Turn, Standing
  <1>4. PassesAreExact'
    BY <1>1, <1>3 DEF IInv, PassesAreExact
  <1>5. ReportsHold'
    BY <1>1 DEF IInv, ReportsHold, Same
  <1>6. /\ VersionsArePast' /\ EditionsAreRuns' /\ UnmarkedIsEmpty' /\ ManifestsAreComplete'
        /\ WindowsAreApart'
    BY <1>1
       DEF IInv, VersionsArePast, EditionsAreRuns, UnmarkedIsEmpty, ManifestsAreComplete,
           WindowsAreApart
  <1> QED
    BY <1>2, <1>4, <1>5, <1>6 DEF IInv

LEMMA BuildKeeps ==
    ASSUME IInv, NEW a \in Captures, Build(a)
    PROVE  IInv'
  <1>1. UNCHANGED <<source, changes, captureVars, report>> /\ built' \subseteq Captures
    BY DEF Build, IInv, TypeOK
  <1> QED
    BY <1>1, OthersKeep

LEMMA NextKeeps ==
    ASSUME MomentsCaptureAssumption, IInv, [Next]_vars
    PROVE  IInv'
  <1>1. CASE \E e \in Entities, k \in 1 .. MaxKey : Write(e, k) \/ Remove(e, k)
    BY <1>1, WriteKeeps
  <1>2. ASSUME NEW c \in Captures,
               Begin(c) \/ Stop(c) \/ WriteManifest(c) \/ Build(c)
        PROVE  IInv'
    BY <1>2, BeginKeeps, StopKeeps, WriteManifestKeeps, BuildKeeps
  <1>3. ASSUME NEW c \in Captures, NEW e \in Entities,
               ReadUpperBound(c, e) \/ ReadCount(c, e) \/ ReadPage(c, e)
        PROVE  IInv'
    BY <1>3, ReadUpperBoundKeeps, ReadCountKeeps, ReadPageKeeps
  <1>4. CASE \E a, b \in Captures : Compare(a, b)
    BY <1>4, CompareKeeps
  <1>5. CASE UNCHANGED vars
    <2>1. UNCHANGED <<source, changes, captureVars, report>> /\ built' \subseteq Captures
      BY <1>5 DEF vars, IInv, TypeOK
    <2> QED
      BY <2>1, OthersKeep
  <1> QED
    BY <1>1, <1>2, <1>3, <1>4, <1>5 DEF Next

-----------------------------------------------------------------------------
(* The theorems.                                                             *)

\* The types, and what each file of a capture says of the source, hold in every state.
THEOREM Invariance ==
    ASSUME MomentsCaptureAssumption
    PROVE  Spec => []IInv
  <1>1. Init => IInv
    BY InitHolds
  <1>2. IInv /\ [Next]_vars => IInv'
    BY NextKeeps
  <1> QED
    BY <1>1, <1>2, PTL DEF Spec

\* captureEntity: a completed entity has every row that was there when its capture was
\* initialized and has stayed as it was, whatever was written and removed around it,
\* and however often the capture was stopped and resumed.
THEOREM RowsThatStandAreCaptured ==
    ASSUME MomentsCaptureAssumption
    PROVE  Spec => []StandingRowsAreCaptured
  <1>1. ASSUME IInv
        PROVE  StandingRowsAreCaptured
    <2>1. ASSUME NEW c \in Captures, NEW e \in Entities, state[c][e].complete,
                 NEW r \in base[c][e] \cap source[e]
          PROVE  r \in state[c][e].rows
      <3>1. r \in Standing(c, e)
        BY DEF Standing
      <3>2. state[c][e].known /\ state[c][e].cursor = state[c][e].upper
        BY <1>1, <2>1 DEF IInv, PassesAreExact
      <3> QED
        BY <1>1, <3>1, <3>2 DEF IInv, PassesAreExact
    <2> QED
      BY <2>1 DEF StandingRowsAreCaptured
  <1>2. Spec => []IInv
    BY Invariance
  <1>3. IInv => StandingRowsAreCaptured
    BY <1>1
  <1> QED
    BY <1>2, <1>3, PTL

\* buildMomentsD1, readStabilityProof: a D1 package is built from rows that were all at the
\* source at one instant, when the second capture of the proof was initialized.
THEOREM BuildsAreOneInstant ==
    ASSUME MomentsCaptureAssumption
    PROVE  Spec => BuildsAreSnapshots
  <1>1. ASSUME IInv, [Next]_vars
        PROVE  BuildIsASnapshot
    <2> SUFFICES ASSUME NEW a \in Captures, a \in built' \ built
                 PROVE  \A m \in report[a].secondary, e \in Entities :
                           /\ state[a][e].rows \subseteq base[m[1]][e]
                           /\ base[m[1]][e] \cap source[e] \subseteq state[a][e].rows
      BY DEF BuildIsASnapshot
    <2>1. Build(a)
      <3>1. ASSUME UNCHANGED built
            PROVE  FALSE
        BY <3>1
      <3>2. built' # built
        BY <3>1
      <3>3. Next
        BY <1>1, <3>2 DEF vars
      <3>4. ASSUME NEW e \in Entities, NEW k \in 1 .. MaxKey, Write(e, k) \/ Remove(e, k)
            PROVE  UNCHANGED built
        BY <3>4 DEF Write, Remove, Change
      <3>5. ASSUME NEW c \in Captures, Begin(c) \/ Stop(c) \/ WriteManifest(c)
            PROVE  UNCHANGED built
        BY <3>5 DEF Begin, Stop, WriteManifest, Calm
      <3>6. ASSUME NEW c \in Captures, NEW e \in Entities, ReadUpperBound(c, e)
            PROVE  UNCHANGED built
        BY <3>6 DEF ReadUpperBound, Save, Calm
      <3>7. ASSUME NEW c \in Captures, NEW e \in Entities, ReadCount(c, e) \/ ReadPage(c, e)
            PROVE  UNCHANGED built
        BY <3>7 DEF ReadCount, ReadPage, Save, Calm
      <3>8. ASSUME NEW b \in Captures, NEW d \in Captures, Compare(b, d)
            PROVE  UNCHANGED built
        BY <3>8 DEF Compare
      <3>9. PICK d \in Captures : Build(d)
        BY <3>2, <3>3, <3>4, <3>5, <3>6, <3>7, <3>8 DEF Next
      <3>10. built' = built \cup {d}
        BY <3>9 DEF Build
      <3> QED
        BY <3>9, <3>10
    <2>2. TAKE m \in report[a].secondary, e \in Entities
    <2>3. /\ m[1] \in Captures /\ edition[a] > 0 /\ edition[m[1]] > 0 /\ Same(a, m[1])
          /\ <<a, edition[a]>> \in marker[m[1]].after
      <3>1. m[1] \in Captures
        <4>1. report[a].secondary \subseteq Manifests
          BY <1>1 DEF IInv, TypeOK
        <4> QED
          BY <4>1 DEF Manifests
      <3>2. edition[a] > 0 /\ edition[m[1]] > 0 /\ Same(a, m[1])
        BY <1>1 DEF IInv, ReportsHold
      <3>3. <<a, edition[a]>> \in marker[m[1]].after
        BY <2>1 DEF Build, Proves
      <3> QED
        BY <3>1, <3>2, <3>3
    <2>4. state[a][e].rows = state[m[1]][e].rows
      BY <2>3 DEF Same
    <2>5. state[a][e].rows \cap state[m[1]][e].rows \subseteq base[m[1]][e]
      <3>1. PICK p \in marker[m[1]].after : p = <<a, edition[a]>>
        BY <2>3
      <3>2. state[p[1]][e].rows \cap (source[e] \cup state[m[1]][e].rows) \subseteq base[m[1]][e]
        BY <1>1, <2>3 DEF IInv, WindowsAreApart
      <3> QED
        BY <3>1, <3>2
    <2>6. base[m[1]][e] \cap source[e] \subseteq state[m[1]][e].rows
      <3>1. state[m[1]][e].complete
        BY <1>1, <2>3 DEF IInv, ManifestsAreComplete
      <3>2. state[m[1]][e].known /\ state[m[1]][e].cursor = state[m[1]][e].upper
        BY <1>1, <2>3, <3>1 DEF IInv, PassesAreExact
      <3> QED
        BY <1>1, <2>3, <3>2 DEF IInv, PassesAreExact, Standing
    <2> QED
      BY <2>4, <2>5, <2>6
  <1>2. Spec => []IInv
    BY Invariance
  <1>3. IInv /\ [Next]_vars => [BuildIsASnapshot]_vars
    BY <1>1
  <1> QED
    BY <1>2, <1>3, PTL DEF Spec, BuildsAreSnapshots

-----------------------------------------------------------------------------
(* The originals of the Moments: the shapes of records, jobs and reports.    *)

Statuses == MomentsMedia!Terminal \cup {"failed", "unattempted"}
LastRecords == [MediaRows -> [status : Statuses, transient : BOOLEAN]]
Things == {"public", "private"} \X {BytesOfMedia[m] : m \in MediaRows}

Fetching == [step : {"fetch"}, m : MediaRows, attempt : Nat, file : BOOLEAN]
Outcomes == [step : {"record"}, m : MediaRows, status : Statuses, transient : BOOLEAN]
JobOK(j) ==
    \/ j = MomentsMedia!Idle
    \/ j \in Fetching
    \/ j \in [step : {"head", "upload"}, m : MediaRows]
    \/ j \in Outcomes

Bindings == [proof : Nat, latest : LastRecords, objects : SUBSET Things]
Checks == [step : {"head"}, pass : {1, 2}, binding : Bindings, left : SUBSET Things,
           failed : SUBSET Things, previous : Nat]
Reports == [at : Nat \ {0}, complete : BOOLEAN, binding : Bindings, previous : Nat]

-----------------------------------------------------------------------------
(* The inductive invariant.                                                  *)

CaptureOK ==
    /\ origin \in MediaAnswers
    /\ latest \in LastRecords /\ stored \subseteq Things
    /\ todo \subseteq MediaRows
    /\ command \in {"idle", "pool", "stopping", "proof", "report"} /\ faults \in 0 .. MaxFaults
    /\ jobs = [w \in Pool |-> jobs[w]] /\ \A w \in Pool : JobOK(jobs[w])

VerifyOK ==
    /\ proof.at \in Nat
    /\ check = MomentsMedia!Idle \/ check \in Checks
    /\ passes = [p \in {1, 2} |-> passes[p]]
    /\ \A p \in {1, 2} : passes[p] = MomentsMedia!NoPass \/ passes[p] \in Reports

\* Every object is where the plan wants the original of some media.
ObjectsArePlanned == bucket \subseteq {MomentsMedia!Object(m) : m \in MediaRows}

\* The second verification runs on the report it names.
SecondFollowsFirst ==
    check \in Checks /\ check.pass = 2 =>
        /\ passes[1] \in Reports /\ passes[1].complete
        /\ passes[1].binding = check.binding /\ check.previous = passes[1].at

\* A plan has a row for what its capture lacks.
NeededIn(l, m) ==
    /\ l[m].status # "unattempted"
    /\ \/ l[m].status \in {"failed", "oversize", "source_missing"}
       \/ MomentsMedia!Eligible(m) /\ l[m].status # "public_stored"

PlanIsOfItsCapture ==
    recovery.made => DOMAIN recovery.rows = {m \in MediaRows : NeededIn(recovery.latest, m)}

MediaInv ==
    /\ CaptureOK /\ VerifyOK
    /\ ObjectsArePlanned /\ SecondFollowsFirst /\ PlanIsOfItsCapture
    /\ MomentsMedia!AttestedIsOneState

-----------------------------------------------------------------------------
(* Stamps.                                                                   *)

\* Numbers have a least one.
\* The instance has its own copy of the operators of FiniteSets.
LEMMA MediaSizes ==
    \A S : /\ MomentsMedia!IsFiniteSet(S) <=> IsFiniteSet(S)
           /\ MomentsMedia!Cardinality(S) = Cardinality(S)
  <1>1. \A T : MomentsMedia!IsFiniteSet(T) <=> IsFiniteSet(T)
    BY DEF MomentsMedia!IsFiniteSet, IsFiniteSet
  <1> QED
    BY <1>1 DEF MomentsMedia!Cardinality, Cardinality, MomentsMedia!IsFiniteSet, IsFiniteSet

LEMMA LeastExists ==
    ASSUME NEW S, S \subseteq Nat, S # {}
    PROVE  MomentsMedia!Min(S) \in S
  <1> DEFINE R == {ss \in Nat \X Nat : ss[1] < ss[2]}
  <1>1. IsWellFoundedOn(R, Nat)
    BY NatLessThanWellFounded DEF OpToRel
  <1>2. PICK t \in S : \A y \in S : ~(<<y, t>> \in R)
    <2> HIDE DEF R
    <2> QED
      BY <1>1, WFMin
  <1>3. \A y \in S : t =< y
    <2> SUFFICES ASSUME NEW y \in S PROVE t =< y
      OBVIOUS
    <2>1. y \in Nat /\ t \in Nat /\ ~(<<y, t>> \in R)
      BY <1>2
    <2>2. ~(y < t)
      BY <2>1
    <2> QED
      BY <2>1, <2>2
  <1> QED
    BY <1>3 DEF MomentsMedia!Min

\* Of one more number than a set has, one is not in the set.
LEMMA NewNumber ==
    ASSUME NEW S, IsFiniteSet(S)
    PROVE  /\ MomentsMedia!Min((1..(Cardinality(S) + 1)) \ S) \in Nat \ {0}
           /\ MomentsMedia!Min((1..(Cardinality(S) + 1)) \ S) \notin S
  <1> DEFINE n == Cardinality(S) + 1
             T == (1 .. n) \ S
  <1>1. Cardinality(S) \in Nat
    BY FS_CardinalityType
  <1>2. IsFiniteSet(1 .. n) /\ Cardinality(1 .. n) = n
    <2>1. 1 \in Int /\ n \in Int /\ n >= 1
      BY <1>1
    <2> HIDE DEF n
    <2>2. IsFiniteSet(1 .. n) /\ Cardinality(1 .. n) = IF 1 > n THEN 0 ELSE n - 1 + 1
      BY <2>1, FS_Interval
    <2> QED
      BY <2>1, <2>2
  <1>3. T # {}
    <2> SUFFICES ASSUME 1 .. n \subseteq S PROVE FALSE
      OBVIOUS
    <2>1. Cardinality(1 .. n) <= Cardinality(S)
      BY FS_Subset
    <2> QED
      BY <1>1, <1>2, <2>1
  <1>4. T \subseteq Nat \ {0}
    BY <1>1
  <1>5. MomentsMedia!Min(T) \in T
    <2> HIDE DEF T
    <2>1. T \subseteq Nat
      BY <1>4
    <2> QED
      BY <1>3, <2>1, LeastExists
  <1>6. MomentsMedia!Min(T) \in Nat \ {0} /\ MomentsMedia!Min(T) \notin S
    BY <1>4, <1>5
  <1> QED
    BY <1>6

\* What a new report is stamped with, nothing that is written or running names.
LEMMA StampIsNew ==
    ASSUME VerifyOK
    PROVE  /\ MomentsMedia!Stamp \in Nat \ {0}
           /\ MomentsMedia!Stamp \notin MomentsMedia!Stamps
           /\ passes[2] \in Reports => passes[2].previous \in MomentsMedia!Stamps
  <1> DEFINE A == {proof.at, passes[1].at, passes[2].at}
             B == IF "binding" \in DOMAIN check THEN {check.binding.proof, check.previous} ELSE {}
             C(p) == IF "binding" \in DOMAIN passes[p]
                       THEN {passes[p].binding.proof, passes[p].previous} ELSE {}
  <1>1. MomentsMedia!Stamps = A \cup B \cup (C(1) \cup C(2))
    BY DEF MomentsMedia!Stamps
  <1>2. IsFiniteSet(A)
    <2>1. A = (({} \cup {proof.at}) \cup {passes[1].at}) \cup {passes[2].at}
      OBVIOUS
    <2>2. IsFiniteSet({} \cup {proof.at})
      BY FS_EmptySet, FS_AddElement
    <2>3. IsFiniteSet(({} \cup {proof.at}) \cup {passes[1].at})
      BY <2>2, FS_AddElement
    <2> QED
      BY <2>1, <2>3, FS_AddElement
  <1>3. IsFiniteSet(B) /\ IsFiniteSet(C(1)) /\ IsFiniteSet(C(2))
    <2>1. ASSUME NEW x, NEW y PROVE IsFiniteSet({x, y})
      <3>1. {x, y} = ({} \cup {x}) \cup {y}
        OBVIOUS
      <3>2. IsFiniteSet({} \cup {x})
        BY FS_EmptySet, FS_AddElement
      <3> QED
        BY <3>1, <3>2, FS_AddElement
    <2> QED
      BY <2>1, FS_EmptySet
  <1>4. IsFiniteSet(MomentsMedia!Stamps)
    <2> HIDE DEF A, B, C
    <2> QED
      BY <1>1, <1>2, <1>3, FS_Union
  <1>5. ASSUME passes[2] \in Reports PROVE passes[2].previous \in MomentsMedia!Stamps
    <2>1. "binding" \in DOMAIN passes[2]
      BY <1>5 DEF Reports
    <2> QED
      BY <1>1, <2>1
  <1> QED
    BY <1>4, <1>5, NewNumber, MediaSizes DEF MomentsMedia!Stamp

-----------------------------------------------------------------------------
(* The initial states, and what a capture does.                              *)

LEMMA MediaStarts ==
    ASSUME MomentsMedia!MediaCaptureAssumption, MomentsMedia!Init
    PROVE  MediaInv
  <1>1. CaptureOK
    BY
       DEF MomentsMedia!Init, MomentsMedia!MediaCaptureAssumption, CaptureOK, LastRecords,
           MomentsMedia!Unattempted, Statuses, JobOK
  <1>2. VerifyOK
    BY DEF MomentsMedia!Init, VerifyOK, MomentsMedia!NoProof, MomentsMedia!NoPass
  <1>3. check \notin Checks
    BY DEF MomentsMedia!Init, MomentsMedia!Idle, Checks
  <1>4. ObjectsArePlanned /\ SecondFollowsFirst
    BY <1>3 DEF MomentsMedia!Init, ObjectsArePlanned, SecondFollowsFirst
  <1>5. PlanIsOfItsCapture /\ MomentsMedia!AttestedIsOneState
    BY
       DEF MomentsMedia!Init, PlanIsOfItsCapture, MomentsMedia!NoReport,
           MomentsMedia!AttestedIsOneState, MomentsMedia!NoPass
  <1> QED
    BY <1>1, <1>2, <1>4, <1>5 DEF MediaInv

LEMMA ObjectsAreThings ==
    ASSUME NEW m \in MediaRows
    PROVE  MomentsMedia!Object(m) \in Things
  BY DEF MomentsMedia!Object, Things

\* The job of one worker.
LEMMA MediaJobsKept ==
    ASSUME CaptureOK, NEW w \in Pool, NEW j, JobOK(j), MomentsMedia!Run(w, j)
    PROVE  jobs' = [v \in Pool |-> jobs'[v]] /\ \A v \in Pool : JobOK(jobs'[v])
  <1>1. jobs = [v \in Pool |-> jobs[v]]
    BY DEF CaptureOK
  <1>2. jobs' = [v \in Pool |-> IF v = w THEN j ELSE jobs[v]]
    BY <1>1 DEF MomentsMedia!Run
  <1>3. \A v \in Pool : jobs'[v] = IF v = w THEN j ELSE jobs[v]
    BY <1>2
  <1>4. jobs' = [v \in Pool |-> jobs'[v]]
    BY <1>2
  <1> QED
    BY <1>3, <1>4 DEF CaptureOK

LEMMA OutcomesAreJobs ==
    ASSUME NEW m \in MediaRows, NEW s \in Statuses
    PROVE  /\ JobOK(MomentsMedia!Outcome(m, s)) /\ JobOK(MomentsMedia!Failure(m))
           /\ MomentsMedia!Outcome(m, s).step = "record"
           /\ MomentsMedia!Outcome(m, s).m = m /\ MomentsMedia!Outcome(m, s).status = s
  BY DEF JobOK, Outcomes, MomentsMedia!Outcome, MomentsMedia!Failure, Statuses

LEMMA AgainIsAJob ==
    ASSUME MomentsMedia!MediaCaptureAssumption, NEW w \in Pool, jobs[w] \in Fetching,
           NEW f \in BOOLEAN
    PROVE  JobOK(MomentsMedia!Again(w, f))
  <1>1. CASE jobs[w].attempt = MediaAttempts
    BY <1>1, OutcomesAreJobs DEF MomentsMedia!Again, Fetching, Statuses
  <1>2. CASE jobs[w].attempt # MediaAttempts
    <2>1. ASSUME NEW r \in Fetching PROVE [r EXCEPT !.attempt = @ + 1, !.file = f] \in Fetching
      <3>1. r.attempt + 1 \in Nat
        BY DEF Fetching
      <3>2. ASSUME NEW n \in Nat PROVE [r EXCEPT !.attempt = n, !.file = f] \in Fetching
        BY DEF Fetching
      <3> QED
        BY <3>1, <3>2
    <2> QED
      BY <1>2, <2>1 DEF MomentsMedia!Again, JobOK
  <1> QED
    BY <1>1, <1>2

\* What a step says of a job that is there.
LEMMA JobSteps ==
    ASSUME NEW j, JobOK(j)
    PROVE  /\ j.step = "fetch" => j \in Fetching
           /\ j.step \in {"fetch", "head", "upload", "record"} => j.m \in MediaRows
           /\ j.step = "record" => j.status \in Statuses /\ j.transient \in BOOLEAN
  BY DEF JobOK, MomentsMedia!Idle, Fetching, Outcomes

LEMMA StoredAsIsAStatus == \A m \in MediaRows :
MomentsMedia!StoredAs(m) \in MomentsMedia!Stored /\ MomentsMedia!StoredAs(m) \in Statuses
  BY DEF MomentsMedia!StoredAs, MomentsMedia!Stored, Statuses, MomentsMedia!Terminal

\* What a step may leave to the rest of the invariant when no report is written.
LEMMA EvidenceKept ==
    ASSUME MediaInv, CaptureOK', origin' = origin,
           proof'.at \in Nat, UNCHANGED <<recovery, check, passes>>,
           bucket' \subseteq bucket \cup {MomentsMedia!Object(m) : m \in MediaRows}
    PROVE  MediaInv'
  <1> USE DEF MediaInv
  <1>1. VerifyOK'
    BY DEF VerifyOK
  <1>2. ObjectsArePlanned'
    <2>1. \A m \in MediaRows : MomentsMedia!Object(m)' = MomentsMedia!Object(m)
      BY DEF MomentsMedia!Object
    <2>2. {MomentsMedia!Object(m) : m \in MediaRows} =
          {MomentsMedia!Object(m)' : m \in MediaRows}
      BY <2>1
    <2> HIDE DEF MediaInv
    <2>3. bucket \subseteq {MomentsMedia!Object(m) : m \in MediaRows}
      BY DEF MediaInv, ObjectsArePlanned
    <2>4. bucket' \subseteq {MomentsMedia!Object(m)' : m \in MediaRows}
      BY <2>2, <2>3
    <2> QED
      BY <2>4 DEF ObjectsArePlanned
  <1>3. SecondFollowsFirst'
    BY DEF SecondFollowsFirst
  <1>4. PlanIsOfItsCapture'
    BY DEF PlanIsOfItsCapture, NeededIn, MomentsMedia!Eligible
  <1>5. MomentsMedia!AttestedIsOneState'
    BY DEF MomentsMedia!AttestedIsOneState, MomentsMedia!Eligible
  <1> QED
    BY <1>1, <1>2, <1>3, <1>4, <1>5

\* A worker's step that leaves the run as it is.
LEMMA WorkKept ==
    ASSUME MediaInv, NEW w \in Pool, NEW j, JobOK(j), MomentsMedia!Run(w, j),
           UNCHANGED <<origin, command, proof, recovery, check, passes>>,
           todo' \subseteq todo, faults' \in 0 .. MaxFaults,
           latest' \in LastRecords, stored' \subseteq Things,
           bucket' \subseteq bucket \cup {MomentsMedia!Object(m) : m \in MediaRows}
    PROVE  MediaInv'
  <1>1. CaptureOK
    BY DEF MediaInv
  <1>2. jobs' = [v \in Pool |-> jobs'[v]] /\ \A v \in Pool : JobOK(jobs'[v])
    BY <1>1, MediaJobsKept
  <1>3. CaptureOK'
    BY <1>1, <1>2 DEF CaptureOK
  <1>4. proof'.at \in Nat
    BY DEF MediaInv, VerifyOK
  <1> QED
    BY <1>3, <1>4, EvidenceKept

LEMMA FaultCounts ==
    ASSUME MomentsMedia!MediaCaptureAssumption, CaptureOK, faults < MaxFaults,
           faults' = faults + 1
    PROVE  faults' \in 0 .. MaxFaults
  BY DEF MomentsMedia!MediaCaptureAssumption, CaptureOK

LEMMA MediaTakeKeeps ==
    ASSUME MomentsMedia!MediaCaptureAssumption, MediaInv, NEW w \in Pool, MomentsMedia!Take(w)
    PROVE  MediaInv'
  <1>1. PICK m \in todo :
          /\ todo' = todo \ {m}
          /\ MomentsMedia!Run(w, IF m \in Originals
                    THEN [step |-> "fetch", m |-> m, attempt |-> 1, file |-> FALSE]
                    ELSE MomentsMedia!Outcome(m, "source_missing"))
    BY DEF MomentsMedia!Take
  <1>2. CaptureOK /\ m \in MediaRows
    BY DEF MediaInv, CaptureOK
  <1>3. JobOK(IF m \in Originals
              THEN [step |-> "fetch", m |-> m, attempt |-> 1, file |-> FALSE]
              ELSE MomentsMedia!Outcome(m, "source_missing"))
    <2>1. JobOK([step |-> "fetch", m |-> m, attempt |-> 1, file |-> FALSE])
      BY <1>2 DEF JobOK, Fetching
    <2>2. JobOK(MomentsMedia!Outcome(m, "source_missing"))
      BY <1>2, OutcomesAreJobs DEF Statuses, MomentsMedia!Terminal
    <2> QED
      BY <2>1, <2>2
  <1> QED
    BY <1>1, <1>2, <1>3, WorkKept DEF MomentsMedia!Take, CaptureOK, MomentsMedia!evidence

LEMMA MediaFetchKeeps ==
    ASSUME MomentsMedia!MediaCaptureAssumption, MediaInv, NEW w \in Pool, MomentsMedia!Fetch(w)
    PROVE  MediaInv'
  <1> DEFINE m == jobs[w].m
             j == CASE origin[m] = "gone"    -> MomentsMedia!Outcome(m, "source_missing")
                    [] origin[m] = "refused" -> MomentsMedia!Outcome(m, "failed")
                    [] origin[m] = "large"   -> MomentsMedia!Outcome(m, "oversize")
                    [] OTHER -> IF jobs[w].file THEN MomentsMedia!Again(w, TRUE)
                                ELSE [step |-> "head", m |-> m]
  <1>1. CaptureOK /\ JobOK(jobs[w]) /\ jobs[w].step = "fetch"
    BY DEF MediaInv, CaptureOK, MomentsMedia!Fetch
  <1>2. jobs[w] \in Fetching /\ m \in MediaRows
    BY <1>1, JobSteps
  <1>3. JobOK(MomentsMedia!Outcome(m, "source_missing")) /\
        JobOK(MomentsMedia!Outcome(m, "failed"))
          /\ JobOK(MomentsMedia!Outcome(m, "oversize"))
    <2> HIDE DEF m
    <2> QED
      BY <1>2, OutcomesAreJobs DEF Statuses, MomentsMedia!Terminal
  <1>4. JobOK(MomentsMedia!Again(w, TRUE)) /\ JobOK([step |-> "head", m |-> m])
    BY <1>2, AgainIsAJob DEF JobOK
  <1>5. JobOK(j)
    <2>1. \/ j = MomentsMedia!Outcome(m, "source_missing") \/
               j = MomentsMedia!Outcome(m, "failed")
          \/ j = MomentsMedia!Outcome(m, "oversize") \/ j = MomentsMedia!Again(w, TRUE) \/
               j = [step |-> "head", m |-> m]
      OBVIOUS
    <2> HIDE DEF j
    <2> QED
      BY <1>3, <1>4, <2>1
  <1>6. MomentsMedia!Run(w, j)
    BY DEF MomentsMedia!Fetch
  <1> HIDE DEF j, m
  <1> QED
    BY <1>1, <1>5, <1>6, WorkKept DEF MomentsMedia!Fetch, CaptureOK, MomentsMedia!evidence

LEMMA MediaBreakKeeps ==
    ASSUME MomentsMedia!MediaCaptureAssumption, MediaInv, NEW w \in Pool, MomentsMedia!Break(w)
    PROVE  MediaInv'
  <1>1. PICK cut \in BOOLEAN : MomentsMedia!Run(w, MomentsMedia!Again(w, cut \/ jobs[w].file))
    BY DEF MomentsMedia!Break
  <1>2. CaptureOK /\ JobOK(jobs[w]) /\ jobs[w].step = "fetch"
    BY DEF MediaInv, CaptureOK, MomentsMedia!Break
  <1>3. jobs[w] \in Fetching
    BY <1>2, JobSteps
  <1>4. (cut \/ jobs[w].file) \in BOOLEAN
    OBVIOUS
  <1>5. JobOK(MomentsMedia!Again(w, cut \/ jobs[w].file))
    BY <1>3, <1>4, AgainIsAJob
  <1>6. faults' \in 0 .. MaxFaults
    BY <1>2, FaultCounts DEF MomentsMedia!Break
  <1> QED
    BY <1>1, <1>2, <1>5, <1>6, WorkKept
       DEF MomentsMedia!Break, CaptureOK, MomentsMedia!evidence

LEMMA HeadFirstKeeps ==
    ASSUME MediaInv, NEW w \in Pool, MomentsMedia!HeadFirst(w)
    PROVE  MediaInv'
  <1> DEFINE m == jobs[w].m
             j == IF MomentsMedia!Object(m) \in bucket THEN MomentsMedia!Outcome(m, MomentsMedia!StoredAs(m))
                  ELSE [step |-> "upload", m |-> m]
  <1>1. CaptureOK /\ JobOK(jobs[w]) /\ jobs[w].step = "head"
    BY DEF MediaInv, CaptureOK, MomentsMedia!HeadFirst
  <1>2. m \in MediaRows
    BY <1>1, JobSteps
  <1> HIDE DEF m
  <1>3. JobOK(MomentsMedia!Outcome(m, MomentsMedia!StoredAs(m))) /\
        JobOK([step |-> "upload", m |-> m])
    BY <1>2, OutcomesAreJobs, StoredAsIsAStatus DEF JobOK
  <1>4. JobOK(j)
    BY <1>3
  <1>5. MomentsMedia!Run(w, j)
    BY DEF MomentsMedia!HeadFirst, m
  <1> HIDE DEF j
  <1> QED
    BY <1>1, <1>4, <1>5, WorkKept
       DEF MomentsMedia!HeadFirst, CaptureOK, MomentsMedia!evidence

LEMMA UploadKeeps ==
    ASSUME MediaInv, NEW w \in Pool, MomentsMedia!Upload(w)
    PROVE  MediaInv'
  <1>1. CaptureOK /\ JobOK(jobs[w]) /\ jobs[w].step = "upload"
    BY DEF MediaInv, CaptureOK, MomentsMedia!Upload
  <1>2. PICK m \in MediaRows : m = jobs[w].m
    BY <1>1, JobSteps
  <1>3. JobOK(MomentsMedia!Outcome(m, MomentsMedia!StoredAs(m)))
    BY OutcomesAreJobs, StoredAsIsAStatus
  <1>4. MomentsMedia!Run(w, MomentsMedia!Outcome(m, MomentsMedia!StoredAs(m))) /\
        bucket' = bucket \cup {MomentsMedia!Object(m)}
    BY <1>2 DEF MomentsMedia!Upload
  <1> QED
    BY <1>1, <1>3, <1>4, WorkKept DEF MomentsMedia!Upload, CaptureOK, MomentsMedia!evidence

LEMMA BridgeFailsKeeps ==
    ASSUME MomentsMedia!MediaCaptureAssumption, MediaInv, NEW w \in Pool,
           MomentsMedia!BridgeFails(w)
    PROVE  MediaInv'
  <1>1. CaptureOK /\ JobOK(jobs[w]) /\ jobs[w].step \in {"head", "upload"}
    BY DEF MediaInv, CaptureOK, MomentsMedia!BridgeFails
  <1>2. PICK m \in MediaRows : m = jobs[w].m
    BY <1>1, JobSteps
  <1>3. JobOK(MomentsMedia!Failure(m))
    BY OutcomesAreJobs DEF Statuses
  <1>4. MomentsMedia!Run(w, MomentsMedia!Failure(m)) /\
        bucket' \subseteq bucket \cup {MomentsMedia!Object(m)}
    BY <1>2 DEF MomentsMedia!BridgeFails
  <1>5. faults' \in 0 .. MaxFaults
    BY <1>1, FaultCounts DEF MomentsMedia!BridgeFails
  <1> QED
    BY <1>1, <1>3, <1>4, <1>5, WorkKept
       DEF MomentsMedia!BridgeFails, CaptureOK, MomentsMedia!evidence

LEMMA RecordKeeps ==
    ASSUME MediaInv, NEW w \in Pool, MomentsMedia!Record(w)
    PROVE  MediaInv'
  <1> DEFINE j == jobs[w]
  <1>1. CaptureOK /\ JobOK(jobs[w]) /\ jobs[w].step = "record"
    BY DEF MediaInv, CaptureOK, MomentsMedia!Record
  <1>2. j.m \in MediaRows /\ j.status \in Statuses /\ j.transient \in BOOLEAN
    BY <1>1, JobSteps
  <1>3. latest' \in LastRecords
    BY <1>1, <1>2 DEF MomentsMedia!Record, CaptureOK, LastRecords
  <1>4. stored' \subseteq Things
    BY <1>1, <1>2, ObjectsAreThings DEF MomentsMedia!Record, CaptureOK
  <1>5. MomentsMedia!Run(w, MomentsMedia!Idle) /\ JobOK(MomentsMedia!Idle)
    BY DEF MomentsMedia!Record, JobOK
  <1> QED
    BY <1>1, <1>3, <1>4, <1>5, WorkKept
       DEF MomentsMedia!Record, CaptureOK, MomentsMedia!evidence

-----------------------------------------------------------------------------
(* The capture command, the plan and what disturbs them.                     *)

LEMMA StartCaptureKeeps ==
    ASSUME MediaInv, MomentsMedia!StartCapture, faults' \in 0 .. MaxFaults
    PROVE  MediaInv'
  <1>1. CaptureOK /\ proof.at \in Nat
    BY DEF MediaInv, CaptureOK, VerifyOK
  <1>2. CaptureOK'
    BY <1>1 DEF MomentsMedia!StartCapture, CaptureOK
  <1> QED
    BY <1>1, <1>2, EvidenceKept DEF MomentsMedia!StartCapture, MomentsMedia!evidence

LEMMA CaptureStepKeeps ==
    ASSUME MediaInv, MomentsMedia!CaptureStep
    PROVE  MediaInv'
  <1>1. CaptureOK /\ VerifyOK /\ proof.at \in Nat
    BY DEF MediaInv, CaptureOK, VerifyOK
  <1>2. CASE MomentsMedia!Stop \/ MomentsMedia!WriteManifest \/ MomentsMedia!WriteReport
    <2>1. CaptureOK'
      BY <1>1, <1>2
         DEF MomentsMedia!Stop, MomentsMedia!WriteManifest, MomentsMedia!WriteReport,
             CaptureOK
    <2>2. /\ origin' = origin /\ proof' = proof /\ bucket' = bucket
          /\ UNCHANGED <<recovery, check, passes>>
      BY <1>2
         DEF MomentsMedia!Stop, MomentsMedia!WriteManifest, MomentsMedia!WriteReport,
             MomentsMedia!evidence
    <2> QED
      BY <1>1, <2>1, <2>2, EvidenceKept
  <1>3. CASE MomentsMedia!WriteProof
    <2>1. CaptureOK'
      BY <1>1, <1>3 DEF MomentsMedia!WriteProof, CaptureOK
    <2>2. proof'.at \in Nat
      BY <1>1, <1>3, StampIsNew DEF MomentsMedia!WriteProof
    <2> QED
      BY <1>3, <2>1, <2>2, EvidenceKept DEF MomentsMedia!WriteProof
  <1> QED
    BY <1>2, <1>3 DEF MomentsMedia!CaptureStep

LEMMA PlanRecoveryKeeps ==
    ASSUME MediaInv, MomentsMedia!PlanRecovery
    PROVE  MediaInv'
  <1> USE DEF MomentsMedia!PlanRecovery, MomentsMedia!capture, MomentsMedia!evidence
  <1>1. CaptureOK'
    BY DEF MediaInv, CaptureOK
  <1>2. VerifyOK' /\ SecondFollowsFirst' /\ MomentsMedia!AttestedIsOneState'
    BY
       DEF MediaInv, VerifyOK, SecondFollowsFirst, MomentsMedia!AttestedIsOneState,
           MomentsMedia!Eligible
  <1>3. ObjectsArePlanned'
    BY DEF MediaInv, ObjectsArePlanned, MomentsMedia!Object, MomentsMedia!Eligible
  <1>4. PlanIsOfItsCapture'
    <2>1. {n \in MediaRows : MomentsMedia!NeedsRecovery(n)} =
          {n \in MediaRows : NeededIn(latest, n)}
      BY DEF MomentsMedia!NeedsRecovery, NeededIn, MomentsMedia!Status
    <2>2. /\ recovery'.latest = latest
          /\ DOMAIN recovery'.rows = {n \in MediaRows : MomentsMedia!NeedsRecovery(n)}
      OBVIOUS
    <2> QED
      BY <2>1, <2>2 DEF PlanIsOfItsCapture, NeededIn, MomentsMedia!Eligible
  <1> QED
    BY <1>1, <1>2, <1>3, <1>4 DEF MediaInv

LEMMA InterruptKeeps ==
    ASSUME MomentsMedia!MediaCaptureAssumption, MediaInv, MomentsMedia!Interrupt
    PROVE  MediaInv'
  <1>1. CaptureOK /\ proof.at \in Nat
    BY DEF MediaInv, CaptureOK, VerifyOK
  <1>2. ASSUME NEW w \in Pool
        PROVE  JobOK(IF jobs[w].step \in {"fetch", "head", "upload"} THEN MomentsMedia!Failure(jobs[w].m)
                     ELSE jobs[w])
    <2>1. CASE jobs[w].step \in {"fetch", "head", "upload"}
      <3>1. PICK m \in MediaRows : m = jobs[w].m
        BY <1>1, <2>1, JobSteps DEF CaptureOK
      <3>2. JobOK(MomentsMedia!Failure(m))
        BY OutcomesAreJobs DEF Statuses
      <3> QED
        BY <2>1, <3>1, <3>2
    <2>2. CASE jobs[w].step \notin {"fetch", "head", "upload"}
      BY <1>1, <2>2 DEF CaptureOK
    <2> QED
      BY <2>1, <2>2
  <1>3. faults' \in 0 .. MaxFaults
    BY <1>1, FaultCounts DEF MomentsMedia!Interrupt
  <1>4. \A w \in Pool : JobOK(jobs'[w])
    BY <1>2 DEF MomentsMedia!Interrupt
  <1>5. jobs' = [w \in Pool |-> jobs'[w]]
    BY DEF MomentsMedia!Interrupt
  <1>6. CaptureOK'
    BY <1>1, <1>3, <1>4, <1>5 DEF MomentsMedia!Interrupt, CaptureOK
  <1> QED
    BY <1>1, <1>6, EvidenceKept DEF MomentsMedia!Interrupt, MomentsMedia!evidence

LEMMA MediaKillKeeps ==
    ASSUME MomentsMedia!MediaCaptureAssumption, MediaInv, MomentsMedia!Kill
    PROVE  MediaInv'
  <1>1. CaptureOK /\ proof.at \in Nat
    BY DEF MediaInv, CaptureOK, VerifyOK
  <1>2. faults' \in 0 .. MaxFaults
    BY <1>1, FaultCounts DEF MomentsMedia!Kill
  <1>3. CaptureOK'
    BY <1>1, <1>2 DEF MomentsMedia!Kill, CaptureOK, JobOK
  <1> QED
    BY <1>1, <1>3, EvidenceKept DEF MomentsMedia!Kill, MomentsMedia!evidence

LEMMA RemoveKeeps ==
    ASSUME MomentsMedia!MediaCaptureAssumption, MediaInv, MomentsMedia!Remove
    PROVE  MediaInv'
  <1>1. CaptureOK /\ proof.at \in Nat
    BY DEF MediaInv, CaptureOK, VerifyOK
  <1>2. faults' \in 0 .. MaxFaults
    BY <1>1, FaultCounts DEF MomentsMedia!Remove
  <1>3. CaptureOK'
    BY <1>1, <1>2 DEF MomentsMedia!Remove, CaptureOK
  <1> QED
    BY <1>1, <1>3, EvidenceKept DEF MomentsMedia!Remove, MomentsMedia!evidence

-----------------------------------------------------------------------------
(* The verification.                                                         *)

LEMMA BindingIsABinding ==
    ASSUME CaptureOK, VerifyOK
    PROVE  MomentsMedia!Binding \in Bindings
  BY DEF CaptureOK, VerifyOK, MomentsMedia!Binding, Bindings

\* A step of a verification that is running writes no report.
LEMMA CheckKept ==
    ASSUME MediaInv, UNCHANGED <<origin, MomentsMedia!capture, MomentsMedia!evidence, recovery, passes>>,
           faults' \in 0 .. MaxFaults,
           check' = MomentsMedia!Idle \/ check' \in Checks,
           SecondFollowsFirst'
    PROVE  MediaInv'
  <1>1. CaptureOK'
    BY DEF MediaInv, CaptureOK, MomentsMedia!capture
  <1>2. VerifyOK'
    BY DEF MediaInv, VerifyOK, MomentsMedia!evidence
  <1>3. ObjectsArePlanned'
    BY
       DEF MediaInv, ObjectsArePlanned, MomentsMedia!Object, MomentsMedia!Eligible,
           MomentsMedia!capture
  <1>4. PlanIsOfItsCapture' /\ MomentsMedia!AttestedIsOneState'
    BY
       DEF MediaInv, PlanIsOfItsCapture, NeededIn, MomentsMedia!AttestedIsOneState,
           MomentsMedia!Eligible
  <1> QED
    BY <1>1, <1>2, <1>3, <1>4 DEF MediaInv

LEMMA StartVerifyKeeps ==
    ASSUME MediaInv, NEW p \in {1, 2}, MomentsMedia!StartVerify(p), faults' \in 0 .. MaxFaults,
           UNCHANGED <<origin, MomentsMedia!capture, MomentsMedia!evidence, recovery, passes>>
    PROVE  MediaInv'
  <1>1. CaptureOK /\ VerifyOK /\ MomentsMedia!Binding \in Bindings
    BY BindingIsABinding DEF MediaInv
  <1>2. p = 2 => passes[1] \in Reports
    BY <1>1
       DEF MomentsMedia!StartVerify, MomentsMedia!Predecessor, VerifyOK,
           MomentsMedia!NoPass
  <1>3. check' = [step |-> "head", pass |-> p, binding |-> MomentsMedia!Binding, left |-> stored, failed |-> {},
                  previous |-> IF p = 2 THEN passes[1].at ELSE 0]
    BY DEF MomentsMedia!StartVerify
  <1>4. (IF p = 2 THEN passes[1].at ELSE 0) \in Nat /\ stored \subseteq Things
    BY <1>1, <1>2 DEF Reports, CaptureOK
  <1>5. check' \in Checks
    <2> HIDE DEF MediaInv
    <2> QED
      BY <1>1, <1>3, <1>4 DEF Checks
  <1>6. SecondFollowsFirst'
    BY <1>2, <1>3 DEF MomentsMedia!StartVerify, SecondFollowsFirst, MomentsMedia!Predecessor
  <1> QED
    BY <1>5, <1>6, CheckKept

LEMMA HeadKeeps ==
    ASSUME MediaInv, NEW o \in check.left, check.step = "head",
           NEW some \in SUBSET Things, some \subseteq {o},
           check' = [check EXCEPT !.left = @ \ {o}, !.failed = @ \cup some],
           UNCHANGED <<origin, MomentsMedia!capture, MomentsMedia!evidence, recovery, passes>>,
           faults' \in 0 .. MaxFaults
    PROVE  MediaInv'
  <1>1. check \in Checks
    BY DEF MediaInv, VerifyOK, MomentsMedia!Idle
  <1>2. ASSUME NEW c \in Checks
        PROVE  /\ [c EXCEPT !.left = @ \ {o}, !.failed = @ \cup some] \in Checks
               /\ [c EXCEPT !.left = @ \ {o}, !.failed = @ \cup some].pass = c.pass
               /\ [c EXCEPT !.left = @ \ {o}, !.failed = @ \cup some].binding = c.binding
               /\ [c EXCEPT !.left = @ \ {o}, !.failed = @ \cup some].previous = c.previous
    <2>1. c.left \ {o} \in SUBSET Things /\ c.failed \cup some \in SUBSET Things
      BY DEF Checks
    <2>2. ASSUME NEW l \in SUBSET Things, NEW f \in SUBSET Things
          PROVE  /\ [c EXCEPT !.left = l, !.failed = f] \in Checks
                 /\ [c EXCEPT !.left = l, !.failed = f].pass = c.pass
                 /\ [c EXCEPT !.left = l, !.failed = f].binding = c.binding
                 /\ [c EXCEPT !.left = l, !.failed = f].previous = c.previous
      BY DEF Checks
    <2> QED
      BY <2>1, <2>2
  <1>3. /\ check' \in Checks
        /\ check'.pass = check.pass /\ check'.binding = check.binding
        /\ check'.previous = check.previous
    BY <1>1, <1>2
  <1>4. SecondFollowsFirst'
    BY <1>1, <1>3 DEF MediaInv, SecondFollowsFirst
  <1> QED
    BY <1>3, <1>4, CheckKept

LEMMA HeadStepsKeep ==
    ASSUME MomentsMedia!MediaCaptureAssumption, MediaInv,
           MomentsMedia!HeadStored \/ MomentsMedia!HeadFails
    PROVE  MediaInv'
  <1>1. CaptureOK /\ VerifyOK /\ check.step = "head"
    BY DEF MediaInv, MomentsMedia!HeadStored, MomentsMedia!HeadFails
  <1>2. check \in Checks
    BY <1>1 DEF VerifyOK, MomentsMedia!Idle
  <1>3. CASE MomentsMedia!HeadStored
    <2>1. PICK o \in check.left :
            check' = [check EXCEPT !.left = @ \ {o},
                                   !.failed = IF o \in bucket THEN @ ELSE @ \cup {o}]
      BY <1>3 DEF MomentsMedia!HeadStored
    <2> DEFINE some == IF o \in bucket THEN {} ELSE {o}
    <2>2. some \subseteq {o} /\ some \in SUBSET Things
      BY <1>2 DEF Checks
    <2>3. check' = [check EXCEPT !.left = @ \ {o}, !.failed = @ \cup some]
      <3>1. (IF o \in bucket THEN check.failed ELSE check.failed \cup {o}) =
            check.failed \cup some
        OBVIOUS
      <3> QED
        BY <2>1, <3>1
    <2>4. faults' \in 0 .. MaxFaults /\
          UNCHANGED <<origin, MomentsMedia!capture, MomentsMedia!evidence, recovery, passes>>
      BY <1>1, <1>3 DEF MomentsMedia!HeadStored, CaptureOK
    <2> HIDE DEF some
    <2> QED
      BY <1>1, <2>2, <2>3, <2>4, HeadKeeps
  <1>4. CASE MomentsMedia!HeadFails
    <2>1. PICK o \in check.left : check' = [check EXCEPT !.left = @ \ {o}, !.failed = @ \cup {o}]
      BY <1>4 DEF MomentsMedia!HeadFails
    <2>2. {o} \in SUBSET Things
      BY <1>2 DEF Checks
    <2>3. faults' \in 0 .. MaxFaults
      BY <1>1, <1>4, FaultCounts DEF MomentsMedia!HeadFails
    <2>4. UNCHANGED <<origin, MomentsMedia!capture, MomentsMedia!evidence, recovery, passes>>
      BY <1>4 DEF MomentsMedia!HeadFails
    <2> QED
      BY <1>1, <2>1, <2>2, <2>3, <2>4, HeadKeeps
  <1> QED
    BY <1>3, <1>4

\* The report that a verification writes, and what it does to the other one.
LEMMA NewReport ==
    ASSUME MediaInv, MomentsMedia!FinishVerify, passes' # passes
    PROVE  \E p \in {1, 2} :
             /\ check \in Checks /\ p = check.pass
             /\ MomentsMedia!EvidenceHolds /\ MomentsMedia!Binding = check.binding
             /\ passes' = [q \in {1, 2} |-> passes'[q]]
             /\ \A q \in {1, 2} : q # p => passes'[q] = passes[q]
             /\ passes'[p] \in Reports /\ passes'[p].at = MomentsMedia!Stamp
             /\ passes'[p].complete => MomentsMedia!Complete
             /\ passes'[p].binding = check.binding /\ passes'[p].previous = check.previous
  <1> DEFINE r == [at |-> MomentsMedia!Stamp, complete |-> MomentsMedia!Complete /\ check.failed = {},
                   binding |-> check.binding, previous |-> check.previous]
  <1>1. CaptureOK /\ VerifyOK /\ check \in Checks
    BY DEF MediaInv, VerifyOK, MomentsMedia!FinishVerify, MomentsMedia!Idle
  <1>2. /\ MomentsMedia!EvidenceHolds /\ MomentsMedia!Binding = check.binding
        /\ passes' = [passes EXCEPT ![check.pass] = r]
    BY DEF MomentsMedia!FinishVerify
  <1>3. PICK p \in {1, 2} : p = check.pass
    BY <1>1 DEF Checks
  <1>4. check.binding \in Bindings /\ check.previous \in Nat
    BY <1>1 DEF Checks
  <1>5. MomentsMedia!Stamp \in Nat \ {0}
    BY <1>1, StampIsNew
  <1>6. /\ r \in Reports /\ r.at = MomentsMedia!Stamp
        /\ r.complete = (MomentsMedia!Complete /\ check.failed = {})
        /\ r.binding = check.binding /\ r.previous = check.previous
    <2>1. (MomentsMedia!Complete /\ check.failed = {}) \in BOOLEAN
      OBVIOUS
    <2> QED
      BY <1>4, <1>5, <2>1 DEF Reports
  <1> HIDE DEF r
  <1>7. passes' = [q \in {1, 2} |-> IF q = p THEN r ELSE passes[q]]
    <2>1. passes = [q \in {1, 2} |-> passes[q]]
      BY <1>1 DEF VerifyOK
    <2> QED
      BY <1>2, <1>3, <2>1
  <1>8. passes' = [q \in {1, 2} |-> passes'[q]]
    BY <1>7
  <1>9. passes'[p] = r /\ \A q \in {1, 2} : q # p => passes'[q] = passes[q]
    BY <1>7
  <1>10. passes'[p] \in Reports
    BY <1>6, <1>9
  <1>11. passes'[p].at = MomentsMedia!Stamp /\ (passes'[p].complete => MomentsMedia!Complete)
    BY <1>6, <1>9
  <1>12. passes'[p].binding = check.binding /\ passes'[p].previous = check.previous
    BY <1>6, <1>9
  <1> QED
    BY <1>1, <1>2, <1>3, <1>8, <1>9, <1>10, <1>11, <1>12

\* A new first report has a stamp that the second one does not name; a new
\* second one is of the evidence of the first.
LEMMA NewReportAttests ==
    ASSUME MediaInv, MomentsMedia!FinishVerify, passes' # passes
    PROVE  MomentsMedia!AttestedIsOneState'
  <1>1. PICK p \in {1, 2} :
             /\ check \in Checks /\ p = check.pass
             /\ MomentsMedia!EvidenceHolds /\ MomentsMedia!Binding = check.binding
             /\ passes' = [q \in {1, 2} |-> passes'[q]]
             /\ \A q \in {1, 2} : q # p => passes'[q] = passes[q]
             /\ passes'[p] \in Reports /\ passes'[p].at = MomentsMedia!Stamp
             /\ passes'[p].complete => MomentsMedia!Complete
             /\ passes'[p].binding = check.binding /\ passes'[p].previous = check.previous
    BY NewReport
  <1>2. CASE p = 1
    <2>1. VerifyOK /\ passes'[2] = passes[2] /\ passes'[1].at = MomentsMedia!Stamp
      BY <1>1, <1>2 DEF MediaInv
    <2>2. CASE passes[2] = MomentsMedia!NoPass
      BY <2>1, <2>2 DEF MomentsMedia!NoPass, MomentsMedia!AttestedIsOneState
    <2>3. CASE passes[2] \in Reports
      <3>1. passes[2].previous # MomentsMedia!Stamp
        BY <2>1, <2>3, StampIsNew
      <3> QED
        BY <2>1, <3>1 DEF MomentsMedia!AttestedIsOneState
    <2> QED
      BY <2>1, <2>2, <2>3 DEF VerifyOK
  <1>3. CASE p = 2
    <2>1. /\ passes'[1] = passes[1] /\ passes[1].complete
          /\ passes[1].binding = check.binding
      BY <1>1, <1>3 DEF MediaInv, SecondFollowsFirst
    <2>2. ASSUME passes'[2].complete, NEW m \in MediaRows, MomentsMedia!Eligible(m)
          PROVE  passes'[2].binding.latest[m].status = "public_stored"
      <3>1. MomentsMedia!Status(m) = "public_stored"
        BY <1>1, <1>3, <2>2 DEF MomentsMedia!Complete, MomentsMedia!Ready
      <3>2. passes'[2].binding.latest = latest
        BY <1>1, <1>3 DEF MomentsMedia!Binding
      <3> QED
        BY <3>1, <3>2 DEF MomentsMedia!Status
    <2>3. passes'[2].binding = check.binding
      BY <1>1, <1>3
    <2> QED
      BY <2>1, <2>2, <2>3 DEF MomentsMedia!AttestedIsOneState, MomentsMedia!Eligible
  <1> QED
    BY <1>2, <1>3

LEMMA FinishVerifyKeeps ==
    ASSUME MediaInv, MomentsMedia!FinishVerify
    PROVE  MediaInv'
  <1> USE DEF MomentsMedia!FinishVerify, MomentsMedia!capture, MomentsMedia!evidence
  <1>1. CaptureOK'
    BY DEF MediaInv, CaptureOK
  <1>2. ObjectsArePlanned' /\ PlanIsOfItsCapture'
    BY
       DEF MediaInv, ObjectsArePlanned, MomentsMedia!Object, PlanIsOfItsCapture, NeededIn,
           MomentsMedia!Eligible
  <1>3. SecondFollowsFirst'
    BY DEF SecondFollowsFirst, Checks, MomentsMedia!Idle
  <1>4. CASE passes' = passes
    BY <1>1, <1>2, <1>3, <1>4
       DEF MediaInv, VerifyOK, MomentsMedia!AttestedIsOneState, MomentsMedia!Eligible
  <1>5. CASE passes' # passes
    <2>1. MomentsMedia!AttestedIsOneState'
      BY <1>5, NewReportAttests
    <2>2. PICK p \in {1, 2} :
             /\ passes' = [q \in {1, 2} |-> passes'[q]]
             /\ \A q \in {1, 2} : q # p => passes'[q] = passes[q]
             /\ passes'[p] \in Reports
      BY <1>5, NewReport
    <2>3. VerifyOK'
      BY <2>2 DEF MediaInv, VerifyOK
    <2> QED
      BY <1>1, <1>2, <1>3, <2>1, <2>3 DEF MediaInv
  <1> QED
    BY <1>4, <1>5

-----------------------------------------------------------------------------
(* Every step.                                                               *)

LEMMA OperateKeeps ==
    ASSUME MediaInv, MomentsMedia!Operate
    PROVE  MediaInv'
  <1>1. CaptureOK /\ faults \in 0 .. MaxFaults
    BY DEF MediaInv, CaptureOK
  <1>2. CASE MomentsMedia!StartCapture /\ UNCHANGED faults
    BY <1>1, <1>2, StartCaptureKeeps
  <1>3. ASSUME NEW p \in {1, 2}, MomentsMedia!StartVerify(p) PROVE MediaInv'
    BY <1>1, <1>3, StartVerifyKeeps DEF MomentsMedia!StartVerify
  <1>4. CASE MomentsMedia!PlanRecovery
    BY <1>4, PlanRecoveryKeeps
  <1> QED
    BY <1>2, <1>3, <1>4 DEF MomentsMedia!Operate

LEMMA MediaStepKeeps ==
    ASSUME MomentsMedia!MediaCaptureAssumption, MediaInv, [MomentsMedia!Next]_MomentsMedia!vars
    PROVE  MediaInv'
  <1>1. CaptureOK /\ VerifyOK
    BY DEF MediaInv
  <1>2. CASE MomentsMedia!Operate
    BY <1>2, OperateKeeps
  <1>3. CASE MomentsMedia!CaptureStep
    BY <1>3, CaptureStepKeeps
  <1>4. CASE MomentsMedia!VerifyStep
    BY <1>4, HeadStepsKeep, FinishVerifyKeeps DEF MomentsMedia!VerifyStep
  <1>5. ASSUME NEW w \in Pool, MomentsMedia!Work(w) PROVE MediaInv'
    BY <1>5, MediaTakeKeeps, MediaFetchKeeps, HeadFirstKeeps, UploadKeeps, RecordKeeps
       DEF MomentsMedia!Work
  <1>6. CASE MomentsMedia!Repeat
    <2>1. faults' \in 0 .. MaxFaults
      BY <1>1, <1>6, FaultCounts DEF MomentsMedia!Repeat
    <2> QED
      BY <1>6, <2>1, StartCaptureKeeps DEF MomentsMedia!Repeat
  <1>7. CASE MomentsMedia!Disturb
    <2>1. ASSUME NEW w \in Pool, MomentsMedia!Break(w) \/ MomentsMedia!BridgeFails(w)
          PROVE MediaInv'
      BY <2>1, MediaBreakKeeps, BridgeFailsKeeps
    <2> QED
      BY <1>6, <1>7, <2>1, InterruptKeeps, MediaKillKeeps, RemoveKeeps, HeadStepsKeep
         DEF MomentsMedia!Disturb
  <1>8. CASE UNCHANGED MomentsMedia!vars
    <2>1. CaptureOK'
      BY <1>1, <1>8 DEF CaptureOK, MomentsMedia!vars, MomentsMedia!capture
    <2>2. proof'.at \in Nat
      BY <1>1, <1>8 DEF VerifyOK, MomentsMedia!vars, MomentsMedia!evidence
    <2> QED
      BY <1>8, <2>1, <2>2, EvidenceKept
         DEF MomentsMedia!vars, MomentsMedia!capture, MomentsMedia!evidence
  <1> QED
    BY <1>2, <1>3, <1>4, <1>5, <1>7, <1>8 DEF MomentsMedia!Next, MomentsMedia!Finished

-----------------------------------------------------------------------------
(* What the invariant says of the capture and of its evidence.               *)

LEMMA VisibleFollows ==
    ASSUME MediaInv
    PROVE  MomentsMedia!PublicIsVisible
  <1>1. ASSUME NEW o \in bucket, o[1] = "public"
        PROVE  \E m \in Processed :
                 /\ BytesOfMedia[m] = o[2] /\ origin[m] # "mistyped"
                 /\ MomentOfMedia[m] # NoMoment
                 /\ DropsOfMoment[MomentOfMedia[m]] # {}
                 /\ \A d \in DropsOfMoment[MomentOfMedia[m]] : d \notin HiddenDrops
    <2>1. PICK m \in MediaRows : o = MomentsMedia!Object(m)
      BY DEF MediaInv, ObjectsArePlanned
    <2>2. o[2] = BytesOfMedia[m] /\ MomentsMedia!Eligible(m) /\ origin[m] # "mistyped"
      BY <1>1, <2>1 DEF MomentsMedia!Object
    <2> QED
      BY <2>2 DEF MomentsMedia!Eligible
  <1> QED
    BY <1>1 DEF MomentsMedia!PublicIsVisible

\* Only the end of a verification writes a report.
LEMMA ReportFollows ==
    ASSUME MediaInv, [MomentsMedia!Next]_MomentsMedia!vars
    PROVE  [MomentsMedia!ReportIsOfItsEvidence]_MomentsMedia!vars
  <1>1. CASE passes' = passes
    BY <1>1 DEF MomentsMedia!ReportIsOfItsEvidence
  <1>2. CASE passes' # passes
    <2>1. MomentsMedia!FinishVerify
      <3>1. ~MomentsMedia!Operate
        BY <1>2
           DEF MomentsMedia!Operate, MomentsMedia!StartCapture, MomentsMedia!StartVerify,
               MomentsMedia!PlanRecovery
      <3>2. ~MomentsMedia!CaptureStep
        BY <1>2
           DEF MomentsMedia!CaptureStep, MomentsMedia!Stop, MomentsMedia!WriteManifest,
               MomentsMedia!WriteProof, MomentsMedia!WriteReport
      <3>3. \A w \in Pool : ~MomentsMedia!Work(w)
        BY <1>2
           DEF MomentsMedia!Work, MomentsMedia!Take, MomentsMedia!Fetch,
               MomentsMedia!HeadFirst, MomentsMedia!Upload, MomentsMedia!Record
      <3>4. ~MomentsMedia!Disturb
        BY <1>2
           DEF MomentsMedia!Disturb, MomentsMedia!Interrupt, MomentsMedia!Kill,
               MomentsMedia!Remove, MomentsMedia!Repeat, MomentsMedia!StartCapture,
               MomentsMedia!HeadFails, MomentsMedia!Break, MomentsMedia!BridgeFails
      <3>5. ~MomentsMedia!HeadStored /\ ~MomentsMedia!Finished /\ ~UNCHANGED MomentsMedia!vars
        BY <1>2 DEF MomentsMedia!HeadStored, MomentsMedia!Finished, MomentsMedia!vars
      <3> QED
        BY <3>1, <3>2, <3>3, <3>4, <3>5 DEF MomentsMedia!Next, MomentsMedia!VerifyStep
    <2>2. PICK p \in {1, 2} :
            /\ MomentsMedia!Binding = check.binding
            /\ \A q \in {1, 2} : q # p => passes'[q] = passes[q]
            /\ passes'[p].binding = check.binding
      BY <1>2, <2>1, NewReport
    <2> QED
      BY <2>2 DEF MomentsMedia!ReportIsOfItsEvidence
  <1> QED
    BY <1>1, <1>2

LEMMA GapFollows ==
    ASSUME MediaInv
    PROVE  MomentsMedia!PlanCoversTheGap
  <1>1. ASSUME recovery.made, recovery.latest = latest, NEW m \in MediaRows,
               MomentsMedia!Requires(m), MomentsMedia!Status(m) # "unattempted"
        PROVE  m \in DOMAIN recovery.rows
    <2>1. latest[m].status \in Statuses
      BY DEF MediaInv, CaptureOK, LastRecords
    <2>2. NeededIn(latest, m)
      BY <1>1, <2>1
         DEF MomentsMedia!Requires, NeededIn, MomentsMedia!Status, MomentsMedia!Stored,
            Statuses, MomentsMedia!Terminal
    <2> QED
      BY <1>1, <2>2 DEF MediaInv, PlanIsOfItsCapture
  <1> QED
    BY <1>1 DEF MomentsMedia!PlanCoversTheGap
-----------------------------------------------------------------------------
(* The shapes of records, jobs and runs.                                     *)

Sequence(s) == \E S : s \in Seq(S)

Records ==
    [status : {"pending", "stored", "quarantined", "failed", "missing"},
     proof : {"none", "bytes", "lost", "empty", "barred"}]
RecordOK(r) ==
    /\ r \in Records
    /\ r.status = "stored" => r.proof = "bytes"
    /\ r.status = "quarantined" => r.proof # "none"

DownloadOK(j) ==
    \/ j = Supplement!Idle
    \/ /\ j \in [step : {"fetch"}, d : NamedDrops, i : Nat \ {0}, error : {"none", "failed", "barred"}]
       /\ j.i <= Candidates[j.d]
    \/ j \in [step : {"keep"}, d : NamedDrops, status : {"stored", "quarantined"}]
    \/ /\ j \in [step : {"record"}, d : NamedDrops, record : Records]
       /\ RecordOK(j.record) /\ j.record.proof # "lost" /\ Supplement!Evidenced(j.d, j.record)

\* The steps of a run, by what it has behind it.
Pooled == {"pool", "manifest"}
PlanIsFixed == {"checkpoint"} \cup Pooled
Catalogued == {"plan", "write plan"} \cup PlanIsFixed
Related == {"catalog"} \cup Catalogued
Copied == {"state", "relations", "page", "commit"} \cup Related
Inspected == {"copies"} \cup Copied
Queried == {"inspect"} \cup Inspected

CommandOK ==
    \/ command = Supplement!Idle
    \/ /\ command = [step |-> command.step, archive |-> command.archive, retry |-> command.retry]
       /\ command.step \in ({"query", "write query"} \cup Queried) \ {"page", "commit"}
       /\ command.archive \in ArtworkArchives
    \/ /\ command = [step |-> command.step, archive |-> command.archive, retry |-> command.retry,
                 got |-> command.got]
       /\ command.step \in {"page", "commit"} /\ command.archive \in ArtworkArchives

-----------------------------------------------------------------------------
(* The inductive invariant.                                                  *)

\* A record that speaks of bytes has its file, and the directories are as they were left.
JournalOK ==
    /\ journal = [header |-> journal.header, latest |-> journal.latest, torn |-> journal.torn]
    /\ journal.latest = [d \in NamedDrops |-> journal.latest[d]]
    /\ \A d \in NamedDrops : RecordOK(journal.latest[d]) /\
         Supplement!Evidenced(d, journal.latest[d])
    /\ journal.header = Supplement!Unmade \/ journal.header \in ArtworkArchives

DirectoryOK ==
    /\ frozen = [query |-> frozen.query, plan |-> frozen.plan, planTorn |-> frozen.planTorn]
    /\ progress = [made |-> progress.made, pages |-> progress.pages]
    /\ files = [rows |-> files.rows, catalog |-> files.catalog, references |-> files.references]
    /\ Sequence(pages) /\ Sequence(progress.pages) /\ Supplement!PagesAreKept
    /\ Len(progress.pages) <= Len(pages)
    /\ Sequence(copies) /\ Len(copies) <= 3

AskedOf(s) == UNION {DOMAIN p : p \in Supplement!Range(s)}

\* What a run that has come to a step has seen to.
RunIsAhead ==
    /\ command.step \in Queried => frozen.query = "whole"
    /\ command.step \in Inspected => command.archive.sound
    /\ command.step \in Copied /\ command.archive.upload # "none" =>
         copies = Supplement!ProofsOf(command.archive)
    /\ command.step \in {"page", "commit"} => AskedOf(progress.pages) # NamedDrops
    /\ command.step = "commit" => pages = Append(progress.pages, command.got)
    /\ command.step \in Related =>
          AskedOf(progress.pages) = NamedDrops /\ files.rows = Supplement!RowsOf(progress.pages)
    /\ command.step \in Catalogued => files.catalog = command.archive.catalog
    /\ command.step = "write plan" => frozen.plan = Supplement!Unmade
    /\ command.step \in PlanIsFixed => frozen.plan = Supplement!PlanOf(command.archive)
    /\ command.step \in Pooled => journal.header = command.archive /\ ~journal.torn

\* A Drop that is being downloaded has one worker, is not in the archive of the run, and
\* has nothing yet that it could keep.
Open(r) == r = Supplement!NoRecord \/ Supplement!Unproven(r) \/
           r.status \in {"failed", "missing"}
Waiting(d) == d \in todo \/ \E w \in Pool : jobs[w] # Supplement!Idle /\ jobs[w].d = d

PoolOK ==
    /\ todo \subseteq NamedDrops /\ jobs = [w \in Pool |-> jobs[w]]
    /\ \A w \in Pool : DownloadOK(jobs[w])
    /\ command.step # "pool" => todo = {} /\ \A w \in Pool : jobs[w] = Supplement!Idle
    /\ \A w \in Pool : jobs[w] # Supplement!Idle =>
          /\ jobs[w].d \notin todo
          /\ \A v \in Pool \ {w} : jobs[v] # Supplement!Idle => jobs[v].d # jobs[w].d
    /\ \A d \in NamedDrops : Waiting(d) =>
         d \notin command.archive.manifest /\ Open(journal.latest[d])
    /\ command.step \in Pooled =>
          \A d \in NamedDrops \ command.archive.manifest :
          Supplement!Unproven(journal.latest[d]) => Waiting(d)

\* The references a run has written, and those of the manifest.
ReferencesAre(written, e) ==
    /\ written = [d \in NamedDrops |-> written[d]]
    /\ \A d \in NamedDrops : IF d \in e.manifest THEN written[d] =
         [status |-> "reused", upload |-> e.upload]
                        ELSE RecordOK(written[d])

ReferencesOK ==
    command.step = "manifest" =>
        /\ ReferencesAre(files.references, command.archive)
        /\ \A d \in NamedDrops \ command.archive.manifest :
             files.references[d] = journal.latest[d]

ManifestOK ==
    \/ manifest = Supplement!NoManifest
    \/ LET e == manifest.archive
       IN /\ manifest.made
          /\ e \in ArtworkArchives /\ e.sound
          /\ frozen.query = "whole" /\ manifest.raw = progress.pages
          /\ AskedOf(progress.pages) = NamedDrops
          /\ frozen.plan = Supplement!PlanOf(e) /\ manifest.plan = Supplement!PlanOf(e)
          /\ journal.header = e
          /\ manifest.copies = Supplement!ProofsOf(e)
          /\ (e.upload # "none" => copies = Supplement!ProofsOf(e))
          /\ manifest.files = [rows |-> manifest.files.rows, catalog |-> manifest.files.catalog,
                               references |-> manifest.files.references]
          /\ manifest.files.rows = Supplement!RowsOf(progress.pages)
          /\ manifest.files.catalog = e.catalog
          /\ ReferencesAre(manifest.files.references, e)
          /\ manifest.complete =>
                \A d \in NamedDrops : manifest.files.references[d].status \notin Supplement!Incomplete

SupplementInv ==
    /\ origin \in ArtworkAnswers
    /\ CommandOK /\ JournalOK /\ DirectoryOK /\ RunIsAhead /\ PoolOK /\ ReferencesOK
    /\ ManifestOK

-----------------------------------------------------------------------------
(* Sequences.                                                                *)

\* What is appended comes after what is there.
LEMMA Appending ==
    ASSUME NEW s, NEW x, Sequence(s)
    PROVE  /\ Sequence(Append(s, x))
           /\ Len(s) \in Nat /\ Len(Append(s, x)) = Len(s) + 1
           /\ \A k \in 1 .. Len(s) : Append(s, x)[k] = s[k]
           /\ Append(s, x)[Len(s) + 1] = x
           /\ SubSeq(Append(s, x), 1, Len(s)) = s
           /\ SubSeq(s, 1, Len(s)) = s
  <1>1. PICK S : s \in Seq(S)
    BY DEF Sequence
  <1> DEFINE T == S \cup {x}
  <1>2. s \in Seq(T)
    BY <1>1
  <1>3. x \in T
    OBVIOUS
  <1> HIDE DEF T
  <1>4. /\ Append(s, x) \in Seq(T) /\ Len(Append(s, x)) = Len(s) + 1
        /\ \A k \in 1 .. Len(s) : Append(s, x)[k] = s[k]
        /\ Append(s, x)[Len(s) + 1] = x
    BY <1>2, <1>3, AppendProperties
  <1>5. Len(s) \in Nat
    BY <1>2
  <1>6. SubSeq(s, 1, Len(s)) = s
    BY <1>2, SubSeqFull
  <1>7. SubSeq(Append(s, x), 1, Len(s)) = s
    <2> DEFINE u == SubSeq(Append(s, x), 1, Len(s))
    <2>1. \A k \in 1 .. Len(s) : Append(s, x)[k] \in T
      BY <1>2, <1>4
    <2>2. /\ u \in Seq(T) /\ Len(u) = IF 1 <= Len(s) THEN Len(s) - 1 + 1 ELSE 0
          /\ \A k \in 1 .. Len(s) - 1 + 1 : u[k] = Append(s, x)[1 + k - 1]
      BY <1>5, <2>1, SubSeqProperties
    <2>3. Len(u) = Len(s)
      BY <1>5, <2>2
    <2>4. \A k \in 1 .. Len(s) : u[k] = s[k]
      <3> HIDE DEF u
      <3> TAKE k \in 1 .. Len(s)
      <3>1. k \in 1 .. Len(s) - 1 + 1 /\ 1 + k - 1 = k
        BY <1>5
      <3> QED
        BY <1>4, <2>2, <3>1
    <2> HIDE DEF u
    <2>5. u = s
      BY <1>2, <2>2, <2>3, <2>4
    <2> QED
      BY <2>5 DEF u
  <1> QED
    BY <1>4, <1>5, <1>6, <1>7 DEF Sequence

\* What a sequence starts with, without the rest.
LEMMA Starting ==
    ASSUME NEW s, Sequence(s), NEW n \in 0 .. Len(s)
    PROVE  Sequence(SubSeq(s, 1, n)) /\ Len(SubSeq(s, 1, n)) = n
  <1>1. PICK S : s \in Seq(S)
    BY DEF Sequence
  <1>2. \A k \in 1 .. n : s[k] \in S
    BY <1>1
  <1>3. n \in Int /\ Len(s) \in Nat
    BY <1>1
  <1>4. /\ SubSeq(s, 1, n) \in Seq(S)
        /\ Len(SubSeq(s, 1, n)) = IF 1 <= n THEN n - 1 + 1 ELSE 0
    BY <1>2, <1>3, SubSeqProperties
  <1> QED
    BY <1>3, <1>4 DEF Sequence

LEMMA NothingIsASequence == Sequence(<<>>) /\ Len(<<>>) = 0 /\ SubSeq(<<>>, 1, 0) = <<>>
  <1>1. <<>> \in Seq({})
    OBVIOUS
  <1>2. Len(<<>>) = 0
    OBVIOUS
  <1>3. SubSeq(<<>>, 1, Len(<<>>)) = <<>>
    BY <1>1, SubSeqFull
  <1> QED
    BY <1>1, <1>2, <1>3 DEF Sequence

-----------------------------------------------------------------------------
(* The first state.                                                          *)

LEMMA AskedIsOfThePages == Supplement!Asked = AskedOf(progress.pages)
  BY DEF Supplement!Asked, AskedOf

\* The instance has its own copy of the operators of FiniteSets.
LEMMA SameSizes ==
    ASSUME NEW S
    PROVE  /\ Supplement!IsFiniteSet(S) <=> IsFiniteSet(S)
           /\ Supplement!Cardinality(S) = Cardinality(S)
  <1>1. \A T : Supplement!IsFiniteSet(T) <=> IsFiniteSet(T)
    BY DEF Supplement!IsFiniteSet, IsFiniteSet
  <1> QED
    BY <1>1 DEF Supplement!Cardinality, Cardinality, Supplement!IsFiniteSet, IsFiniteSet

LEMMA PagesAreASequence ==
    ASSUME Supplement!DropSupplementAssumption, NEW v
    PROVE  Sequence(Supplement!PagesFrom(v))
  <1> DEFINE n == (Supplement!Cardinality(NamedDrops) + NamedPage - 1) \div NamedPage
  <1>1. Supplement!Cardinality(NamedDrops) \in Nat /\ NamedPage \in Nat \ {0}
    BY SameSizes, FS_CardinalityType DEF Supplement!DropSupplementAssumption
  <1>2. n \in Nat
    <2>1. \A a \in Nat, b \in Nat \ {0} : (a + b - 1) \div b \in Nat
      OBVIOUS
    <2> QED
      BY <1>1, <2>1
  <1> DEFINE p == Supplement!PagesFrom(v)
             S == {p[k] : k \in 1 .. n}
  <1>3. p = [k \in 1 .. n |-> p[k]]
    BY DEF Supplement!PagesFrom
  <1>4. p \in Seq(S)
    <2> HIDE DEF n, p
    <2> QED
      BY <1>2, <1>3
  <1> HIDE DEF S
  <1> QED
    BY <1>4 DEF Sequence

LEMMA SupplementStarts ==
    ASSUME Supplement!DropSupplementAssumption, Supplement!Init
    PROVE  SupplementInv
  <1> USE DEF Supplement!Init
  <1>1. CommandOK /\ manifest = Supplement!NoManifest /\ command.step = "idle"
    BY DEF CommandOK, Supplement!Idle
  <1>2. JournalOK
    <2>1. /\ journal = [header |-> journal.header, latest |-> journal.latest,
                        torn |-> journal.torn]
          /\ journal.latest = [d \in NamedDrops |-> journal.latest[d]]
          /\ journal.header = Supplement!Unmade \/ journal.header \in ArtworkArchives
      BY DEF Supplement!Untouched, Supplement!DropSupplementAssumption
    <2>2. ASSUME NEW d \in NamedDrops
          PROVE  journal.latest[d] = Supplement!NoRecord \/
                 journal.latest[d] = Supplement!Recorded("quarantined", "lost")
      BY DEF Supplement!Untouched
    <2>3. /\ RecordOK(Supplement!NoRecord) /\ Supplement!NoRecord.proof # "bytes"
          /\ RecordOK(Supplement!Recorded("quarantined", "lost"))
          /\ Supplement!Recorded("quarantined", "lost").proof # "bytes"
      BY DEF RecordOK, Records, Supplement!NoRecord, Supplement!Recorded
    <2>4. ASSUME NEW d \in NamedDrops
          PROVE  RecordOK(journal.latest[d]) /\ Supplement!Evidenced(d, journal.latest[d])
      BY <2>2, <2>3 DEF Supplement!Evidenced
    <2> QED
      BY <2>1, <2>4 DEF JournalOK
  <1>3. DirectoryOK
    <2>1. /\ frozen = [query |-> frozen.query, plan |-> frozen.plan, planTorn |-> frozen.planTorn]
          /\ progress = [made |-> progress.made, pages |-> progress.pages]
          /\ files = [rows |-> files.rows, catalog |-> files.catalog,
                      references |-> files.references]
      BY DEF Supplement!Unfrozen, Supplement!NoFiles
    <2>2. progress.pages = pages /\ Sequence(pages)
      BY PagesAreASequence, NothingIsASequence
    <2>3. Supplement!PagesAreKept /\ Len(progress.pages) \in Nat
      BY <2>2, Appending DEF Supplement!PagesAreKept
    <2>4. Sequence(copies) /\ Len(copies) <= 3
      BY NothingIsASequence
    <2> QED
      BY <2>1, <2>2, <2>3, <2>4 DEF DirectoryOK
  <1>4. RunIsAhead
    BY <1>1
       DEF RunIsAhead, Queried, Inspected, Copied, Related, Catalogued, PlanIsFixed, Pooled
  <1>5. PoolOK
    BY <1>1 DEF PoolOK, Supplement!Idle, DownloadOK, Waiting, Pooled
  <1> QED
    BY <1>1, <1>2, <1>3, <1>4, <1>5 DEF SupplementInv, ReferencesOK, ManifestOK

-----------------------------------------------------------------------------
(* What a step leaves alone.                                                 *)

LEMMA JournalKept ==
    ASSUME JournalOK, UNCHANGED <<journal, bucket>>
    PROVE  JournalOK'
  BY DEF JournalOK, Supplement!Evidenced, Supplement!FileOf

LEMMA DirectoryKept ==
    ASSUME DirectoryOK, UNCHANGED <<frozen, progress, files, pages, copies>>
    PROVE  DirectoryOK'
  BY DEF DirectoryOK, Supplement!PagesAreKept

\* Outside of the downloads the pool is empty.
LEMMA PoolStaysEmpty ==
    ASSUME PoolOK, command.step # "pool", UNCHANGED <<todo, jobs>>, command'.step \notin Pooled
    PROVE  PoolOK'
  BY DEF PoolOK, DownloadOK, Waiting, Pooled, Supplement!Idle

LEMMA ManifestKept ==
    ASSUME ManifestOK, UNCHANGED <<frozen, progress, journal, copies, manifest>>
    PROVE  ManifestOK'
  BY DEF ManifestOK, ReferencesAre, RecordOK

LEMMA RunKeeps ==
    ASSUME SupplementInv, UNCHANGED <<origin, frozen, copies, progress, pages, journal, bucket, todo, jobs,
                             files, manifest>>,
           command.step # "pool", command'.step \notin Pooled, CommandOK', RunIsAhead'
    PROVE  SupplementInv'
  <1>1. ReferencesOK'
    BY DEF ReferencesOK, Pooled
  <1> QED
    BY <1>1, JournalKept, DirectoryKept, PoolStaysEmpty, ManifestKept DEF SupplementInv

LEMMA RefusalKeeps ==
    ASSUME SupplementInv, UNCHANGED <<origin, frozen, copies, progress, pages, journal, bucket, todo, jobs,
                             files, manifest>>,
           command.step # "pool", command' = Supplement!Idle
    PROVE  SupplementInv'
  <1>1. CommandOK' /\ RunIsAhead' /\ command'.step \notin Pooled
    BY
       DEF CommandOK, Supplement!Idle, RunIsAhead, Queried, Inspected, Copied, Related,
           Catalogued, PlanIsFixed, Pooled
  <1> QED
    BY <1>1, RunKeeps

LEMMA Running ==
    ASSUME CommandOK, command.step # "idle"
    PROVE  command # Supplement!Idle /\ command.archive \in ArtworkArchives
  <1>1. Supplement!Idle.step = "idle"
    BY DEF Supplement!Idle
  <1> QED
    BY <1>1 DEF CommandOK

\* A run that goes on, goes on with its archive.
LEMMA Going ==
    ASSUME CommandOK, command.step \notin {"idle", "page", "commit"},
           NEW s \in ({"query", "write query"} \cup Queried) \ {"page", "commit"},
           command' = [command EXCEPT !.step = s]
    PROVE  /\ CommandOK' /\ command'.step = s /\ command'.archive = command.archive /\ command'.retry = command.retry
           /\ command.archive \in ArtworkArchives
  <1>1. /\ command = [step |-> command.step, archive |-> command.archive, retry |-> command.retry]
        /\ command.archive \in ArtworkArchives
    <2>1. Supplement!Idle.step = "idle"
      BY DEF Supplement!Idle
    <2>2. command # Supplement!Idle
      BY <2>1
    <2> QED
      BY <2>2 DEF CommandOK
  <1>2. command' = [step |-> s, archive |-> command.archive, retry |-> command.retry]
    BY <1>1
  <1>3. /\ command' = [step |-> command'.step, archive |-> command'.archive, retry |-> command'.retry]
        /\ command'.archive \in ArtworkArchives
    BY <1>1, <1>2
  <1> QED
    BY <1>1, <1>2, <1>3 DEF CommandOK

-----------------------------------------------------------------------------
(* The run, up to the relations.                                             *)

LEMMA EnrichKeeps ==
    ASSUME SupplementInv, NEW e \in ArtworkArchives, NEW retry \in BOOLEAN,
           Supplement!Begin(e, retry)
    PROVE  SupplementInv'
  <1> USE DEF Supplement!Begin, Supplement!origin, Supplement!graphql, Supplement!artwork,
      Supplement!pool
  <1>1. command.step = "idle" /\ command' = [step |-> "query", archive |-> e, retry |-> retry]
    BY DEF Supplement!Idle
  <1>2. CommandOK'
    BY <1>1 DEF CommandOK
  <1>3. RunIsAhead' /\ command'.step \notin Pooled
    BY <1>1
       DEF RunIsAhead, Queried, Inspected, Copied, Related, Catalogued, PlanIsFixed, Pooled
  <1> QED
    BY <1>1, <1>2, <1>3, RunKeeps

LEMMA InspectKeeps ==
    ASSUME SupplementInv, Supplement!InspectArchive
    PROVE  SupplementInv'
  <1> USE DEF Supplement!InspectArchive, Supplement!origin, Supplement!graphql,
      Supplement!artwork, Supplement!pool, Supplement!At
  <1>1. CASE command.archive.sound
    <2>1. CommandOK' /\ command'.step = "copies" /\ command'.archive = command.archive
      BY <1>1, Going DEF Supplement!GoTo, SupplementInv, Queried, Inspected
    <2>2. RunIsAhead' /\ command'.step \notin Pooled
      BY <1>1, <2>1
         DEF SupplementInv, RunIsAhead, Queried, Inspected, Copied, Related, Catalogued,
             PlanIsFixed, Pooled
    <2> QED
      BY <2>1, <2>2, RunKeeps
  <1>2. CASE ~command.archive.sound
    BY <1>2, RefusalKeeps DEF Supplement!Refuse
  <1> QED
    BY <1>1, <1>2

LEMMA FrozenKeeps ==
    ASSUME SupplementInv, Supplement!OpenQuery \/ Supplement!WriteQuery
    PROVE  SupplementInv'
  <1> USE DEF Supplement!OpenQuery, Supplement!WriteQuery, Supplement!origin,
      Supplement!graphql, Supplement!artwork, Supplement!pool, Supplement!At
  <1>1. CASE UNCHANGED frozen
    <2>1. CASE command' = Supplement!Idle
      BY <1>1, <2>1, RefusalKeeps
    <2>2. CASE command' # Supplement!Idle
      <3>1. Supplement!GoTo("inspect") /\ frozen.query = "whole" /\
            command.step \in {"query", "write query"}
        BY <1>1, <2>2 DEF SupplementInv, DirectoryOK, Supplement!Refuse
      <3>2. CommandOK' /\ command'.step = "inspect" /\ command'.archive = command.archive
        BY <3>1, Going DEF Supplement!GoTo, SupplementInv, Queried
      <3>3. RunIsAhead' /\ command'.step \notin Pooled
        BY <1>1, <3>1, <3>2 DEF RunIsAhead, Queried, Inspected, Copied, Related, Catalogued,
                                PlanIsFixed, Pooled
      <3> QED
        BY <1>1, <3>1, <3>2, <3>3, RunKeeps
    <2> QED
      BY <2>1, <2>2
  <1>2. CASE frozen' # frozen
    <2>1. /\ command.step \in {"query", "write query"}
          /\ command'.step \in {"write query", "inspect"}
          /\ command'.archive = command.archive /\ CommandOK'
          /\ command'.step = "inspect" => frozen'.query = "whole"
      <3>1. CASE Supplement!OpenQuery
        <4>1. Supplement!GoTo("write query") /\ command.step = "query"
          BY <1>2, <3>1
        <4> QED
          BY <4>1, Going DEF Supplement!GoTo, SupplementInv, Queried
      <3>2. CASE Supplement!WriteQuery
        <4>1. Supplement!GoTo("inspect") /\ command.step = "write query" /\
              frozen'.query = "whole"
          BY <1>2, <3>2 DEF SupplementInv, DirectoryOK
        <4> QED
          BY <4>1, Going DEF Supplement!GoTo, SupplementInv, Queried
      <3> QED
        BY <3>1, <3>2
    <2>2. /\ frozen' = [query |-> frozen'.query, plan |-> frozen'.plan,
                        planTorn |-> frozen'.planTorn]
          /\ frozen'.plan = frozen.plan
          /\ frozen.query = "none" \/ frozen'.query = "whole"
      BY <1>2 DEF SupplementInv, DirectoryOK
    <2>3. DirectoryOK'
      BY <2>2 DEF SupplementInv, DirectoryOK, Supplement!PagesAreKept
    <2>4. RunIsAhead' /\ command'.step \notin Pooled /\ command.step # "pool"
      BY <2>1 DEF RunIsAhead, Queried, Inspected, Copied, Related, Catalogued,
                              PlanIsFixed, Pooled
    <2>5. ManifestOK'
      BY <2>2 DEF SupplementInv, ManifestOK, ReferencesAre, RecordOK
    <2>6. ReferencesOK'
      BY <2>4 DEF ReferencesOK, Pooled
    <2> QED
      BY <2>1, <2>3, <2>4, <2>5, <2>6, JournalKept, PoolStaysEmpty DEF SupplementInv
  <1> QED
    BY <1>1, <1>2

\* The proofs of an archive are copied whole, and once.
LEMMA ProofsAreThree ==
    ASSUME NEW e \in ArtworkArchives
    PROVE  /\ e.upload = "none" => Supplement!ProofsOf(e) = <<>>
           /\ e.upload # "none" =>
                 /\ Len(Supplement!ProofsOf(e)) = 3 /\ Supplement!ProofsOf(e)[3] = e.upload
                 /\ DOMAIN Supplement!ProofsOf(e) = 1 .. 3
                 /\ \A s : Sequence(s) /\ Len(s) = 3 /\
                      (\A k \in 1 .. 3 : s[k] = Supplement!ProofsOf(e)[k])
                       => s = Supplement!ProofsOf(e)
           /\ Len(Supplement!ProofsOf(e)) <= 3
  <1>1. CASE e.upload = "none"
    BY <1>1, NothingIsASequence DEF Supplement!ProofsOf
  <1>2. CASE e.upload # "none"
    <2> DEFINE p == <<e.manifest, e.upload, e.upload>>
    <2>1. Supplement!ProofsOf(e) = p
      BY <1>2 DEF Supplement!ProofsOf
    <2>2. Len(p) = 3 /\ p[3] = e.upload /\ DOMAIN p = 1 .. 3
      OBVIOUS
    <2>3. ASSUME NEW s, Sequence(s), Len(s) = 3, \A k \in 1 .. 3 : s[k] = p[k]
          PROVE  s = p
      <3>1. PICK S : s \in Seq(S)
        BY <2>3 DEF Sequence
      <3> QED
        BY <2>3, <3>1
    <2> HIDE DEF p
    <2> QED
      BY <1>2, <2>1, <2>2, <2>3
  <1> QED
    BY <1>1, <1>2

LEMMA CopyProofKeeps ==
    ASSUME Supplement!DropSupplementAssumption, SupplementInv, Supplement!CopyProof
    PROVE  SupplementInv'
  <1> USE DEF Supplement!CopyProof, Supplement!origin, Supplement!graphql,
      Supplement!artwork, Supplement!pool, Supplement!At
  <1> DEFINE e == command.archive
             proofs == Supplement!ProofsOf(e)
  <1>1. command.step = "copies" /\ command # Supplement!Idle /\ e \in ArtworkArchives
    BY DEF SupplementInv, CommandOK, Supplement!Idle
  <1>2. Sequence(copies) /\ Len(copies) \in Nat /\ Len(copies) <= 3
    BY Appending DEF SupplementInv, DirectoryOK
  <1>3. CASE ~Supplement!Kept(e)
    BY <1>3, RefusalKeeps DEF Supplement!Refuse
  <1>4. CASE Supplement!Kept(e) /\ Len(copies) < Len(proofs)
    <2>1. copies' = Append(copies, proofs[Len(copies) + 1]) /\ command' = command
      BY <1>4
    <2>2. Sequence(copies') /\ Len(copies') = Len(copies) + 1
      <3> HIDE DEF proofs
      <3> QED
        BY <1>2, <2>1, Appending
    <2>3. Len(copies') <= 3 /\ Len(copies) < 3
      BY <1>1, <1>2, <1>4, <2>2, ProofsAreThree
    <2>4. DirectoryOK'
      BY <2>2, <2>3 DEF SupplementInv, DirectoryOK, Supplement!PagesAreKept
    <2>5. CommandOK' /\ RunIsAhead' /\ command'.step \notin Pooled
      BY <1>1, <2>1
         DEF SupplementInv, CommandOK, RunIsAhead, Queried, Inspected, Copied, Related,
             Catalogued, PlanIsFixed, Pooled
    <2>6. ManifestOK'
      <3>1. CASE manifest = Supplement!NoManifest
        BY <3>1 DEF ManifestOK
      <3>2. CASE manifest # Supplement!NoManifest
        <4>1. manifest.archive \in ArtworkArchives /\
              (manifest.archive.upload # "none" => copies = Supplement!ProofsOf(manifest.archive))
          BY <3>2 DEF SupplementInv, ManifestOK
        <4>2. manifest.archive.upload = "none"
          BY <1>1, <2>3, <4>1, ProofsAreThree
        <4> QED
          BY <3>2, <4>2 DEF SupplementInv, ManifestOK, ReferencesAre, RecordOK
      <3> QED
        BY <3>1, <3>2
    <2>7. ReferencesOK'
      BY <2>5 DEF ReferencesOK, Pooled
    <2> QED
      BY <1>1, <2>4, <2>5, <2>6, <2>7, JournalKept, PoolStaysEmpty DEF SupplementInv
  <1>5. CASE Supplement!Kept(e) /\ ~(Len(copies) < Len(proofs))
    <2>1. UNCHANGED copies /\ CommandOK' /\ command'.step = "state" /\ command'.archive = e
      <3>1. Supplement!GoTo("state") /\ UNCHANGED copies
        BY <1>5
      <3> QED
        BY <1>1, <3>1, Going DEF Supplement!GoTo, SupplementInv, Queried, Inspected, Copied
    <2>2. ASSUME e.upload # "none"
          PROVE  copies = Supplement!ProofsOf(e)
      <3>1. Len(proofs) = 3 /\ DOMAIN proofs = 1 .. 3
        BY <1>1, <2>2, ProofsAreThree
      <3>2. Len(copies) = 3
        <4>1. ~(Len(copies) < 3)
          BY <1>5, <3>1
        <4>2. \A n \in Nat : n <= 3 /\ ~(n < 3) => n = 3
          OBVIOUS
        <4> QED
          BY <1>2, <4>1, <4>2
      <3>3. \A k \in 1 .. 3 : copies[k] = proofs[k]
        BY <1>5, <3>1, <3>2 DEF Supplement!Kept
      <3> QED
        BY <1>1, <1>2, <2>2, <3>2, <3>3, ProofsAreThree
    <2>3. RunIsAhead' /\ command'.step \notin Pooled
      BY <1>1, <2>1, <2>2
         DEF SupplementInv, RunIsAhead, Queried, Inspected, Copied, Related, Catalogued,
             PlanIsFixed, Pooled
    <2> QED
      BY <1>1, <2>1, <2>3, RunKeeps
  <1> QED
    BY <1>3, <1>4, <1>5

LEMMA OpenStateKeeps ==
    ASSUME SupplementInv, Supplement!OpenState
    PROVE  SupplementInv'
  <1> USE DEF Supplement!OpenState, Supplement!origin, Supplement!graphql,
      Supplement!artwork, Supplement!pool, Supplement!At
  <1>1. progress' = [made |-> progress'.made, pages |-> progress'.pages] /\
        progress'.pages = progress.pages
    BY DEF SupplementInv, DirectoryOK
  <1>2. /\ CommandOK' /\ command.step = "state"
        /\ command' = Supplement!Idle \/
             (command'.step = "relations" /\ command'.archive = command.archive)
    <2>1. CASE Supplement!PagesAreKept
      BY <2>1, Going DEF Supplement!GoTo, SupplementInv, Queried, Inspected, Copied
    <2>2. CASE ~Supplement!PagesAreKept
      BY <2>2 DEF Supplement!Refuse, CommandOK
    <2> QED
      BY <2>1, <2>2
  <1>3. RunIsAhead' /\ command'.step \notin Pooled
    <2>1. CASE command' = Supplement!Idle
      BY <2>1
         DEF RunIsAhead, Queried, Inspected, Copied, Related, Catalogued, PlanIsFixed,
             Pooled, Supplement!Idle
    <2>2. CASE command'.step = "relations" /\ command'.archive = command.archive
      BY <1>2, <2>2
         DEF SupplementInv, RunIsAhead, Queried, Inspected, Copied, Related, Catalogued,
             PlanIsFixed, Pooled
    <2> QED
      BY <1>2, <2>1, <2>2
  <1>4. DirectoryOK'
    BY <1>1 DEF SupplementInv, DirectoryOK, Supplement!PagesAreKept
  <1>5. ManifestOK'
    BY <1>1 DEF SupplementInv, ManifestOK, ReferencesAre, RecordOK
  <1>6. ReferencesOK'
    BY <1>3 DEF ReferencesOK, Pooled
  <1> QED
    BY <1>2, <1>3, <1>4, <1>5, <1>6, JournalKept, PoolStaysEmpty DEF SupplementInv

LEMMA FetchPageKeeps ==
    ASSUME SupplementInv, Supplement!FetchPage
    PROVE  SupplementInv'
  <1> USE DEF Supplement!FetchPage, Supplement!origin, Supplement!graphql,
      Supplement!artwork, Supplement!pool, Supplement!At
  <1>1. CASE command' = Supplement!Idle
    BY <1>1, RefusalKeeps
  <1>2. CASE command' # Supplement!Idle
    <2> DEFINE got == [d \in Supplement!NextIds |-> src[d]]
    <2>1. command' = [step |-> "page", archive |-> command.archive, retry |-> command.retry, got |-> got]
      BY <1>2
    <2>2. command.step = "relations" /\ command.archive \in ArtworkArchives
      BY DEF SupplementInv, CommandOK, Supplement!Idle
    <2> HIDE DEF got
    <2>3. /\ command'.step = "page" /\ command'.archive = command.archive /\ command'.got = got
          /\ command' = [step |-> command'.step, archive |-> command'.archive, retry |-> command'.retry,
                     got |-> command'.got]
      BY <2>1
    <2>4. CommandOK'
      BY <2>2, <2>3 DEF CommandOK
    <2>5. AskedOf(progress.pages) # NamedDrops
      BY AskedIsOfThePages DEF Supplement!RelationsComplete
    <2>6. RunIsAhead' /\ command'.step \notin Pooled
      BY <2>2, <2>3, <2>5
         DEF SupplementInv, RunIsAhead, Queried, Inspected, Copied, Related, Catalogued,
             PlanIsFixed, Pooled
    <2> QED
      BY <2>2, <2>4, <2>6, RunKeeps
  <1> QED
    BY <1>1, <1>2

\* While Drops are still asked for there is no manifest.
LEMMA NoManifestYet ==
    ASSUME SupplementInv, AskedOf(progress.pages) # NamedDrops
    PROVE  manifest = Supplement!NoManifest
  BY DEF SupplementInv, ManifestOK

\* The page that a run holds.
LEMMA PageInHand ==
    ASSUME CommandOK, command.step \in {"page", "commit"}
    PROVE  /\ command = [step |-> command.step, archive |-> command.archive, retry |-> command.retry,
                     got |-> command.got]
           /\ command.archive \in ArtworkArchives
  <1>1. Supplement!Idle.step = "idle"
    BY DEF Supplement!Idle
  <1> QED
    BY <1>1 DEF CommandOK

LEMMA WritePageKeeps ==
    ASSUME SupplementInv, Supplement!WritePage
    PROVE  SupplementInv'
  <1> USE DEF Supplement!WritePage, Supplement!origin, Supplement!graphql,
      Supplement!artwork, Supplement!pool, Supplement!At
  <1>1. command.step = "page" /\ AskedOf(progress.pages) # NamedDrops
    BY DEF SupplementInv, RunIsAhead
  <1>2. pages' = Append(progress.pages, command.got)
    BY DEF SupplementInv, DirectoryOK, Supplement!PagesAreKept
  <1>3. /\ Sequence(pages') /\ Len(progress.pages) <= Len(pages')
        /\ SubSeq(pages', 1, Len(progress.pages)) = progress.pages
    <2>1. Sequence(progress.pages)
      BY DEF SupplementInv, DirectoryOK
    <2>2. /\ Sequence(pages') /\ SubSeq(pages', 1, Len(progress.pages)) = progress.pages
          /\ Len(progress.pages) \in Nat /\ Len(pages') = Len(progress.pages) + 1
      <3> DEFINE s == progress.pages
                 x == command.got
      <3>1. /\ Sequence(Append(s, x)) /\ SubSeq(Append(s, x), 1, Len(s)) = s
            /\ Len(s) \in Nat /\ Len(Append(s, x)) = Len(s) + 1
        <4> HIDE DEF s, x
        <4> QED
          BY <2>1, Appending DEF s
      <3> QED
        BY <1>2, <3>1
    <2>3. \A n \in Nat : n <= n + 1
      OBVIOUS
    <2> QED
      BY <2>2, <2>3
  <1>4. DirectoryOK'
    BY <1>3 DEF SupplementInv, DirectoryOK, Supplement!PagesAreKept
  <1>5. /\ command' = [step |-> "commit", archive |-> command.archive, retry |-> command.retry, got |-> command.got]
        /\ command.archive \in ArtworkArchives
    BY <1>1, PageInHand DEF SupplementInv, Supplement!GoTo
  <1>6. CommandOK' /\ command'.step = "commit" /\ command'.archive = command.archive /\
        command'.got = command.got
    <2>1. /\ command'.step = "commit" /\ command'.archive = command.archive
          /\ command'.got = command.got
          /\ command' = [step |-> command'.step, archive |-> command'.archive, retry |-> command'.retry,
                     got |-> command'.got]
      BY <1>5
    <2> QED
      BY <1>5, <2>1 DEF CommandOK
  <1>7. RunIsAhead' /\ command'.step \notin Pooled
    BY <1>1, <1>2, <1>6
       DEF SupplementInv, RunIsAhead, Queried, Inspected, Copied, Related, Catalogued,
           PlanIsFixed, Pooled
  <1>8. ManifestOK'
    BY <1>1, NoManifestYet DEF ManifestOK
  <1>9. ReferencesOK'
    BY <1>7 DEF ReferencesOK, Pooled
  <1> QED
    BY <1>1, <1>4, <1>6, <1>7, <1>8, <1>9, JournalKept, PoolStaysEmpty DEF SupplementInv

LEMMA CommitPageKeeps ==
    ASSUME SupplementInv, Supplement!CommitPage
    PROVE  SupplementInv'
  <1> USE DEF Supplement!CommitPage, Supplement!origin, Supplement!graphql,
      Supplement!artwork, Supplement!pool, Supplement!At
  <1>1. command.step = "commit" /\ AskedOf(progress.pages) # NamedDrops
    BY DEF SupplementInv, RunIsAhead
  <1>2. /\ progress' = [made |-> progress.made, pages |-> Append(progress.pages, command.got)]
        /\ pages = Append(progress.pages, command.got)
    BY DEF SupplementInv, DirectoryOK, RunIsAhead
  <1>3. progress'.pages = pages /\
        progress' = [made |-> progress'.made, pages |-> progress'.pages]
    BY <1>2
  <1>4. DirectoryOK'
    <2>1. Sequence(pages) /\ SubSeq(pages, 1, Len(pages)) = pages /\ Len(pages) \in Nat
      BY Appending DEF SupplementInv, DirectoryOK
    <2>2. \A n \in Nat : n <= n
      OBVIOUS
    <2>3. /\ Sequence(pages') /\ Sequence(progress'.pages) /\ Len(progress'.pages) <= Len(pages')
          /\ SubSeq(pages', 1, Len(progress'.pages)) = progress'.pages
      BY <1>3, <2>1, <2>2
    <2> QED
      BY <1>3, <2>3 DEF SupplementInv, DirectoryOK, Supplement!PagesAreKept
  <1>5. command' = [step |-> "relations", archive |-> command.archive, retry |-> command.retry]
    OBVIOUS
  <1>6. command'.step = "relations" /\ command'.archive = command.archive /\
        command'.retry = command.retry
    BY <1>5
  <1>7. CommandOK'
    BY <1>1, <1>5, <1>6, PageInHand DEF SupplementInv, CommandOK, Queried, Inspected, Copied
  <1>8. RunIsAhead' /\ command'.step \notin Pooled
    BY <1>1, <1>6
       DEF SupplementInv, RunIsAhead, Queried, Inspected, Copied, Related, Catalogued,
           PlanIsFixed, Pooled
  <1>9. ManifestOK'
    BY <1>1, NoManifestYet DEF ManifestOK
  <1>10. ReferencesOK'
    BY <1>8 DEF ReferencesOK, Pooled
  <1> QED
    BY <1>1, <1>4, <1>7, <1>8, <1>9, <1>10, JournalKept, PoolStaysEmpty DEF SupplementInv

LEMMA NormalizeKeeps ==
    ASSUME SupplementInv, Supplement!Normalize
    PROVE  SupplementInv'
  <1> USE DEF Supplement!Normalize, Supplement!origin, Supplement!graphql,
      Supplement!artwork, Supplement!pool, Supplement!At
  <1>1. /\ command.step = "relations" /\ AskedOf(progress.pages) = NamedDrops
        /\ files'.rows = Supplement!RowsOf(progress.pages)
        /\ files' = [rows |-> files'.rows, catalog |-> files'.catalog,
                     references |-> files'.references]
    BY AskedIsOfThePages
       DEF Supplement!RelationsComplete, SupplementInv, DirectoryOK,
           Supplement!PagesAreKept
  <1>2. CommandOK' /\ command'.step = "catalog" /\ command'.archive = command.archive
    BY <1>1, Going DEF SupplementInv, Supplement!GoTo, Queried, Inspected, Copied, Related
  <1>3. DirectoryOK'
    BY <1>1 DEF SupplementInv, DirectoryOK, Supplement!PagesAreKept
  <1>4. RunIsAhead' /\ command'.step \notin Pooled
    BY <1>1, <1>2
       DEF SupplementInv, RunIsAhead, Queried, Inspected, Copied, Related, Catalogued,
           PlanIsFixed, Pooled
  <1>5. ReferencesOK'
    BY <1>4 DEF ReferencesOK, Pooled
  <1> QED
    BY <1>1, <1>2, <1>3, <1>4, <1>5, JournalKept, PoolStaysEmpty, ManifestKept
       DEF SupplementInv

-----------------------------------------------------------------------------
(* The plan and the checkpoint.                                              *)

LEMMA WriteCatalogKeeps ==
    ASSUME SupplementInv, Supplement!WriteCatalog
    PROVE  SupplementInv'
  <1> USE DEF Supplement!WriteCatalog, Supplement!origin, Supplement!graphql,
      Supplement!artwork, Supplement!pool, Supplement!At
  <1>1. /\ command.step = "catalog" /\ files'.rows = files.rows
        /\ files'.catalog = command.archive.catalog
        /\ files' = [rows |-> files'.rows, catalog |-> files'.catalog,
                     references |-> files'.references]
    BY DEF SupplementInv, DirectoryOK
  <1>2. CommandOK' /\ command'.step = "plan" /\ command'.archive = command.archive
    BY <1>1, Going
       DEF SupplementInv, Supplement!GoTo, Queried, Inspected, Copied, Related, Catalogued
  <1>3. DirectoryOK'
    BY <1>1 DEF SupplementInv, DirectoryOK, Supplement!PagesAreKept
  <1>4. RunIsAhead' /\ command'.step \notin Pooled
    BY <1>1, <1>2
       DEF SupplementInv, RunIsAhead, Queried, Inspected, Copied, Related, Catalogued,
           PlanIsFixed, Pooled
  <1>5. ReferencesOK'
    BY <1>4 DEF ReferencesOK, Pooled
  <1> QED
    BY <1>1, <1>2, <1>3, <1>4, <1>5, JournalKept, PoolStaysEmpty, ManifestKept
       DEF SupplementInv

\* A plan is not what stands for no plan, nor is an archive.
LEMMA MadeIsNotUnmade ==
    ASSUME Supplement!DropSupplementAssumption, NEW e \in ArtworkArchives
    PROVE  Supplement!PlanOf(e) # Supplement!Unmade /\ e # Supplement!Unmade
  <1>1. DOMAIN Supplement!Unmade = {"made"}
    BY DEF Supplement!Unmade
  <1>2. "catalog" \in DOMAIN Supplement!PlanOf(e)
    BY DEF Supplement!PlanOf
  <1>3. "catalog" \in DOMAIN e
    BY DEF Supplement!DropSupplementAssumption
  <1> QED
    BY <1>1, <1>2, <1>3

LEMMA PlanKeeps ==
    ASSUME Supplement!DropSupplementAssumption, SupplementInv,
           Supplement!OpenPlan \/ Supplement!WritePlan
    PROVE  SupplementInv'
  <1> USE DEF Supplement!OpenPlan, Supplement!WritePlan, Supplement!origin,
      Supplement!graphql, Supplement!artwork, Supplement!pool, Supplement!At
  <1>1. command.step \in {"plan", "write plan"} /\ command # Supplement!Idle /\
        command.archive \in ArtworkArchives
    <2>1. command.step \in {"plan", "write plan"}
      OBVIOUS
    <2> QED
      BY <2>1, Running DEF SupplementInv
  <1>2. CASE UNCHANGED frozen
    <2>1. CASE command' = Supplement!Idle
      BY <1>1, <1>2, <2>1, RefusalKeeps
    <2>2. CASE command' # Supplement!Idle
      <3>1. Supplement!GoTo("checkpoint") /\ frozen.plan = Supplement!PlanOf(command.archive)
        BY <1>2, <2>2 DEF SupplementInv, DirectoryOK, Supplement!Refuse
      <3>2. CommandOK' /\ command'.step = "checkpoint" /\ command'.archive = command.archive
        BY <1>1, <3>1, Going
           DEF Supplement!GoTo, SupplementInv, Queried, Inspected, Copied, Related,
               Catalogued, PlanIsFixed
      <3>3. RunIsAhead' /\ command'.step \notin Pooled
        BY <1>1, <1>2, <3>1, <3>2
           DEF SupplementInv, RunIsAhead, Queried, Inspected, Copied, Related, Catalogued,
               PlanIsFixed, Pooled
      <3> QED
        BY <1>1, <1>2, <3>2, <3>3, RunKeeps
    <2> QED
      BY <2>1, <2>2
  <1>3. CASE frozen' # frozen
    <2>1. /\ frozen.plan = Supplement!Unmade /\ frozen'.query = frozen.query
          /\ frozen' = [query |-> frozen'.query, plan |-> frozen'.plan,
                        planTorn |-> frozen'.planTorn]
          /\ CommandOK' /\ command'.archive = command.archive
          /\ \/ command'.step = "write plan" /\ frozen'.plan = Supplement!Unmade
             \/ command'.step = "checkpoint" /\ frozen'.plan = Supplement!PlanOf(command.archive)
      <3>1. CASE Supplement!OpenPlan
        <4>1. /\ Supplement!GoTo("write plan") /\ frozen.plan = Supplement!Unmade
              /\ frozen' = [query |-> frozen.query, plan |-> frozen.plan, planTorn |-> TRUE]
          BY <1>3, <3>1 DEF SupplementInv, DirectoryOK
        <4> QED
          BY <1>1, <4>1, Going
             DEF Supplement!GoTo, SupplementInv, Queried, Inspected, Copied, Related,
                Catalogued
      <3>2. CASE Supplement!WritePlan
        <4>1. /\ Supplement!GoTo("checkpoint") /\ frozen.plan = Supplement!Unmade
              /\ frozen' = [query |-> frozen.query, plan |-> Supplement!PlanOf(command.archive),
                            planTorn |-> FALSE]
          BY <1>3, <3>2 DEF SupplementInv, DirectoryOK, RunIsAhead
        <4> QED
          BY <1>1, <4>1, Going
             DEF Supplement!GoTo, SupplementInv, Queried, Inspected, Copied, Related,
                Catalogued, PlanIsFixed
      <3> QED
        BY <3>1, <3>2
    <2>2. DirectoryOK'
      BY <2>1 DEF SupplementInv, DirectoryOK, Supplement!PagesAreKept
    <2>3. RunIsAhead' /\ command'.step \notin Pooled
      BY <1>1, <2>1
         DEF SupplementInv, RunIsAhead, Queried, Inspected, Copied, Related, Catalogued,
             PlanIsFixed, Pooled
    <2>4. manifest = Supplement!NoManifest
      BY <2>1, MadeIsNotUnmade DEF SupplementInv, ManifestOK
    <2>5. ManifestOK' /\ ReferencesOK'
      BY <2>3, <2>4 DEF ManifestOK, ReferencesOK, Pooled
    <2> QED
      BY <1>1, <2>1, <2>2, <2>3, <2>5, JournalKept, PoolStaysEmpty DEF SupplementInv
  <1> QED
    BY <1>2, <1>3

LEMMA OpenCheckpointKeeps ==
    ASSUME Supplement!DropSupplementAssumption, SupplementInv, Supplement!OpenCheckpoint
    PROVE  SupplementInv'
  <1> USE DEF Supplement!OpenCheckpoint, Supplement!origin, Supplement!graphql,
      Supplement!pool, Supplement!At
  <1>1. command.step = "checkpoint" /\ command # Supplement!Idle /\
        command.archive \in ArtworkArchives
    BY Running DEF SupplementInv
  <1>2. CASE command' = Supplement!Idle
    <2>1. Supplement!Idle.step = "idle"
      BY DEF Supplement!Idle
    <2>2. UNCHANGED <<journal, todo>>
      BY <1>1, <1>2, <2>1 DEF Supplement!GoTo, SupplementInv, CommandOK
    <2> QED
      BY <1>1, <1>2, <2>2, RefusalKeeps
  <1>3. CASE command' # Supplement!Idle
    <2>1. /\ ~journal.torn
          /\ (journal.header = Supplement!Unmade \/ journal.header = command.archive)
          /\ \A d \in Supplement!Downloadable : Supplement!Unproven(Supplement!Latest(d)) =>
               Supplement!Allowed(d)
          /\ journal' = [journal EXCEPT !.header = command.archive]
          /\ todo' = Supplement!Pending /\ Supplement!GoTo("pool")
      BY <1>3 DEF Supplement!Refuse
    <2>2. CommandOK' /\ command'.step = "pool" /\ command'.archive = command.archive
      BY <1>1, <2>1, Going
         DEF Supplement!GoTo, SupplementInv, Queried, Inspected, Copied, Related,
            Catalogued, PlanIsFixed, Pooled
    <2>3. /\ journal' = [header |-> journal'.header, latest |-> journal'.latest,
                         torn |-> journal'.torn]
          /\ journal'.latest = journal.latest /\ journal'.header = command.archive
          /\ journal'.torn = journal.torn
      BY <2>1 DEF SupplementInv, JournalOK
    <2>4. JournalOK'
      BY <1>1, <2>3 DEF SupplementInv, JournalOK, Supplement!Evidenced, Supplement!FileOf
    <2>5. RunIsAhead'
      BY <1>1, <2>1, <2>2, <2>3
         DEF SupplementInv, RunIsAhead, Queried, Inspected, Copied, Related, Catalogued,
             PlanIsFixed, Pooled
    <2>6. ManifestOK'
      <3>1. CASE manifest = Supplement!NoManifest
        BY <3>1 DEF ManifestOK
      <3>2. CASE manifest # Supplement!NoManifest
        <4>1. journal'.header = journal.header
          BY <2>1, <2>3, <3>2, MadeIsNotUnmade DEF SupplementInv, ManifestOK
        <4> QED
          BY <3>2, <4>1 DEF SupplementInv, ManifestOK, ReferencesAre, RecordOK
      <3> QED
        BY <3>1, <3>2
    <2>7. PoolOK'
      <3>1. \A w \in Pool : jobs[w] = Supplement!Idle
        BY <1>1 DEF SupplementInv, PoolOK
      <3>2. /\ todo' \subseteq NamedDrops /\ \A d \in todo' : d \notin command.archive.manifest
            /\ \A d \in todo' : Open(journal.latest[d])
        BY <2>1 DEF Supplement!Pending, Supplement!Downloadable, Supplement!Latest, Open
      <3>3. \A d \in NamedDrops \ command.archive.manifest :
            Supplement!Unproven(journal.latest[d]) => d \in todo'
        BY <2>1 DEF Supplement!Pending, Supplement!Downloadable, Supplement!Latest
      <3>4. \A d : Waiting(d)' <=> d \in todo'
        BY <3>1 DEF Waiting
      <3>5. /\ jobs' = [w \in Pool |-> jobs'[w]]
            /\ \A w \in Pool : jobs'[w] = Supplement!Idle
        BY <3>1 DEF SupplementInv, PoolOK
      <3> QED
        BY <2>2, <2>3, <3>2, <3>3, <3>4, <3>5 DEF PoolOK, DownloadOK
    <2>8. ReferencesOK' /\ DirectoryOK'
      BY <2>2, DirectoryKept DEF SupplementInv, ReferencesOK
    <2> QED
      BY <2>2, <2>4, <2>5, <2>6, <2>7, <2>8 DEF SupplementInv, Supplement!artwork
  <1> QED
    BY <1>2, <1>3

-----------------------------------------------------------------------------
(* The downloads.                                                            *)

\* A step of one worker, with a job that is as it has to be.
LEMMA JobsKept ==
    ASSUME SupplementInv, command.step = "pool", NEW w \in Pool, NEW j,
           UNCHANGED <<origin, command, frozen, copies, progress, pages, journal, files, manifest>>,
           bucket \subseteq bucket', jobs' = [jobs EXCEPT ![w] = j],
           DownloadOK(j)', j # Supplement!Idle, todo' \subseteq todo,
           \A d \in todo : d \in todo' \/ d = j.d,
           j.d \notin todo',
           \/ jobs[w] = Supplement!Idle /\ j.d \in todo
           \/ jobs[w] # Supplement!Idle /\ jobs[w].d = j.d
    PROVE  SupplementInv'
  <1>1. JournalOK'
    BY DEF SupplementInv, JournalOK, Supplement!Evidenced, Supplement!FileOf
  <1>2. /\ jobs' = [v \in Pool |-> jobs'[v]] /\ jobs'[w] = j
        /\ \A v \in Pool \ {w} : jobs'[v] = jobs[v]
    BY DEF SupplementInv, PoolOK
  <1>3. ASSUME NEW v \in Pool
        PROVE  DownloadOK(jobs[v])'
    <2>1. CASE v = w
      BY <1>2, <2>1
    <2>2. CASE v # w
      <3>1. jobs'[v] = jobs[v] /\ DownloadOK(jobs[v])
        BY <1>2, <2>2 DEF SupplementInv, PoolOK
      <3> QED
        BY <3>1 DEF DownloadOK, Supplement!Evidenced, Supplement!FileOf
    <2> QED
      BY <2>1, <2>2
  <1>4. \A v \in Pool \ {w} : jobs[v] # Supplement!Idle =>
        jobs[v].d # j.d /\ jobs[v].d \notin todo
    BY DEF SupplementInv, PoolOK
  <1>5. ASSUME NEW v \in Pool, jobs'[v] # Supplement!Idle
        PROVE  /\ jobs'[v].d \notin todo'
               /\ \A u \in Pool \ {v} : jobs'[u] # Supplement!Idle => jobs'[u].d # jobs'[v].d
    <2>1. CASE v = w
      BY <1>2, <1>4, <2>1
    <2>2. CASE v # w
      <3>1. jobs'[v] = jobs[v] /\ jobs[v].d # j.d /\ jobs[v].d \notin todo
        BY <1>2, <1>4, <1>5, <2>2
      <3>2. \A u \in Pool \ {v} : jobs[u] # Supplement!Idle => jobs[u].d # jobs[v].d
        BY <1>5, <3>1 DEF SupplementInv, PoolOK
      <3> QED
        BY <1>2, <3>1, <3>2
    <2> QED
      BY <2>1, <2>2
  <1>6. \A d : Waiting(d)' <=> Waiting(d)
    <2>1. ASSUME NEW d, Waiting(d) PROVE Waiting(d)'
      BY <1>2, <2>1 DEF Waiting
    <2>2. ASSUME NEW d, Waiting(d)' PROVE Waiting(d)
      BY <1>2, <2>2 DEF Waiting
    <2> QED
      BY <2>1, <2>2
  <1>7. PoolOK'
    <2>1. todo' \subseteq NamedDrops
      BY DEF SupplementInv, PoolOK
    <2>2. \A d \in NamedDrops : Waiting(d)' =>
          d \notin command'.archive.manifest /\ Open(journal'.latest[d])
      BY <1>6 DEF SupplementInv, PoolOK
    <2>3. command'.step \in Pooled =>
             \A d \in NamedDrops \ command'.archive.manifest :
             Supplement!Unproven(journal'.latest[d]) => Waiting(d)'
      BY <1>6 DEF SupplementInv, PoolOK
    <2>4. command'.step = "pool"
      OBVIOUS
    <2> QED
      BY <1>2, <1>3, <1>5, <2>1, <2>2, <2>3, <2>4 DEF PoolOK
  <1>8. CommandOK' /\ RunIsAhead' /\ ReferencesOK'
    BY DEF SupplementInv, CommandOK, RunIsAhead, ReferencesOK
  <1>9. DirectoryOK' /\ ManifestOK'
    BY DirectoryKept, ManifestKept DEF SupplementInv
  <1> QED
    BY <1>1, <1>7, <1>8, <1>9 DEF SupplementInv

\* Workers have jobs while the pool is open.
LEMMA JobIsPooled ==
    ASSUME SupplementInv, NEW w \in Pool, jobs[w] # Supplement!Idle
    PROVE  command.step = "pool" /\ DownloadOK(jobs[w]) /\ jobs[w].d \notin todo
  BY DEF SupplementInv, PoolOK

LEMMA TakeKeeps ==
    ASSUME Supplement!DropSupplementAssumption, SupplementInv, NEW w \in Pool, Supplement!Take(w)
    PROVE  SupplementInv'
  <1>1. PICK d \in todo :
          /\ todo' = todo \ {d}
          /\ jobs' = [jobs EXCEPT ![w] =
                         IF Candidates[d] = 0 THEN Supplement!Record(d, Supplement!Recorded("missing", "none"))
                         ELSE [step |-> "fetch", d |-> d, i |-> 1, error |-> "none"]]
    BY DEF Supplement!Take, Supplement!Work
  <1> DEFINE j == IF Candidates[d] =
      0 THEN Supplement!Record(d, Supplement!Recorded("missing", "none"))
                  ELSE [step |-> "fetch", d |-> d, i |-> 1, error |-> "none"]
  <1>2. d \in NamedDrops /\ Candidates[d] \in Nat
    BY DEF SupplementInv, PoolOK, Supplement!DropSupplementAssumption
  <1>3. j.d = d /\ j # Supplement!Idle
    BY DEF Supplement!Record, Supplement!Idle
  <1>4. DownloadOK(j)'
    <2>1. CASE Candidates[d] = 0
      <3> DEFINE r == Supplement!Recorded("missing", "none")
      <3>1. r \in Records /\ r.status = "missing" /\ r.proof = "none"
        BY DEF Supplement!Recorded, Records
      <3>2. j = [step |-> "record", d |-> d, record |-> r]
        BY <2>1 DEF Supplement!Record
      <3> HIDE DEF r, j
      <3>3. /\ j \in [step : {"record"}, d : NamedDrops, record : Records]
            /\ j.record = r
        BY <1>2, <3>1, <3>2
      <3> QED
        BY <3>1, <3>3 DEF DownloadOK, RecordOK, Supplement!Evidenced
    <2>2. CASE Candidates[d] # 0
      <3>1. j = [step |-> "fetch", d |-> d, i |-> 1, error |-> "none"]
        BY <2>2
      <3> HIDE DEF j
      <3>2. j.i <= Candidates[j.d]
        BY <1>2, <2>2, <3>1
      <3> QED
        BY <1>2, <3>1, <3>2 DEF DownloadOK
    <2> QED
      BY <2>1, <2>2
  <1>5. /\ command.step = "pool" /\ jobs[w] = Supplement!Idle
        /\ UNCHANGED <<origin, command, frozen, copies, progress, pages, journal, files, manifest, bucket>>
    BY
       DEF Supplement!Take, Supplement!At, Supplement!origin, Supplement!graphql,
           Supplement!artwork
  <1> HIDE DEF j
  <1>6. jobs' = [jobs EXCEPT ![w] = j]
    BY <1>1 DEF j
  <1> QED
    BY <1>1, <1>3, <1>4, <1>5, <1>6, JobsKept

\* What comes of an attempt that has brought nothing.
LEMMA FollowingIsAJob ==
    ASSUME Supplement!DropSupplementAssumption, NEW j,
           j \in [step : {"fetch"}, d : NamedDrops, i : Nat \ {0}, error : {"none", "failed", "barred"}],
           j.i <= Candidates[j.d], NEW error \in {"none", "failed", "barred"}
    PROVE  /\ Supplement!Following(j, error).d = j.d /\ Supplement!Following(j, error) # Supplement!Idle
           /\ DownloadOK(Supplement!Following(j, error))'
  <1> DEFINE f == Supplement!Following(j, error)
  <1>1. Candidates[j.d] \in Nat
    BY DEF Supplement!DropSupplementAssumption
  <1>2. CASE j.i < Candidates[j.d]
    <2>1. f = [j EXCEPT !.i = @ + 1, !.error = error]
      BY <1>2 DEF Supplement!Following
    <2> HIDE DEF f
    <2>7. f = [step |-> "fetch", d |-> j.d, i |-> j.i + 1, error |-> error]
      BY <2>1
    <2>2. f \in [step : {"fetch"}, d : NamedDrops, i : Nat \ {0}, error : {"none", "failed", "barred"}]
      BY <2>7
    <2>3. f.i = j.i + 1 /\ f.d = j.d
      BY <2>7
    <2>4. f.i <= Candidates[f.d]
      BY <1>1, <1>2, <2>3
    <2>5. f # Supplement!Idle
      BY <2>2 DEF Supplement!Idle
    <2>6. DownloadOK(f)'
      BY <2>2, <2>4 DEF DownloadOK
    <2> QED
      BY <2>3, <2>5, <2>6 DEF f
  <1>3. CASE ~(j.i < Candidates[j.d])
    <2> DEFINE r == CASE error = "none"   -> Supplement!Recorded("missing", "none")
                      [] error = "failed" -> Supplement!Recorded("failed", "none")
                      [] error = "barred" -> Supplement!Recorded("quarantined", "barred")
    <2>1. /\ r \in Records /\ r.status # "stored" /\ r.proof \in {"none", "barred"}
          /\ r.status = "quarantined" => r.proof = "barred"
      BY DEF Supplement!Recorded, Records
    <2>2. f = [step |-> "record", d |-> j.d, record |-> r]
      BY <1>3 DEF Supplement!Following, Supplement!Record
    <2> HIDE DEF r, f
    <2>3. /\ f \in [step : {"record"}, d : NamedDrops, record : Records] /\ f.record = r
          /\ f.d = j.d
          /\ f # Supplement!Idle
      BY <2>1, <2>2 DEF Supplement!Idle
    <2>4. DownloadOK(f)'
      BY <2>1, <2>3 DEF DownloadOK, RecordOK, Supplement!Evidenced
    <2> QED
      BY <2>3, <2>4 DEF f
  <1> QED
    BY <1>2, <1>3

\* The URL that is asked.
LEMMA AnswersAreKnown ==
    ASSUME Supplement!DropSupplementAssumption, origin \in ArtworkAnswers, NEW j,
           j \in [step : {"fetch"}, d : NamedDrops, i : Nat \ {0}, error : {"none", "failed", "barred"}],
           j.i <= Candidates[j.d]
    PROVE  Supplement!Answer(j) \in {"image", "junk", "empty", "gone", "error", "barred"}
  <1>1. Candidates[j.d] \in Nat
    BY DEF Supplement!DropSupplementAssumption
  <1>2. j.i \in 1 .. Candidates[j.d] /\ j.d \in NamedDrops
    BY <1>1
  <1>3. <<j.d, j.i>> \in Supplement!URLs
    BY <1>2 DEF Supplement!URLs
  <1>4. origin \in [Supplement!URLs -> {"image", "junk", "empty", "gone", "error"}]
    BY DEF Supplement!DropSupplementAssumption
  <1> QED
    BY <1>3, <1>4 DEF Supplement!Answer

LEMMA JobOfFetch ==
    ASSUME NEW w \in Pool, DownloadOK(jobs[w]), jobs[w].step = "fetch"
    PROVE  /\ jobs[w] # Supplement!Idle
           /\ jobs[w] \in [step : {"fetch"}, d : NamedDrops, i : Nat \ {0},
                           error : {"none", "failed", "barred"}]
           /\ jobs[w].i <= Candidates[jobs[w].d]
  BY DEF DownloadOK, Supplement!Idle

LEMMA FetchKeeps ==
    ASSUME Supplement!DropSupplementAssumption, SupplementInv, NEW w \in Pool,
           Supplement!Fetch(w)
    PROVE  SupplementInv'
  <1>10. PICK j : j = jobs[w]
    OBVIOUS
  <1>11. PICK answer : answer = Supplement!Answer(j)
    OBVIOUS
  <1> DEFINE next == CASE answer = "image"  -> [step |-> "keep", d |-> j.d, status |-> "stored"]
                       [] answer = "junk"   -> [step |-> "keep", d |-> j.d, status |-> "quarantined"]
                       [] answer = "empty"  -> Supplement!Record(j.d, Supplement!Recorded("quarantined", "empty"))
                       [] answer = "gone"   -> Supplement!Following(j, j.error)
                       [] answer = "error"  -> Supplement!Following(j, "failed")
                       [] answer = "barred" -> Supplement!Following(j, "barred")
  <1>1. j.step = "fetch" /\ jobs' = [jobs EXCEPT ![w] = next]
    BY <1>10, <1>11 DEF Supplement!Fetch, Supplement!Work
  <1>2. /\ j # Supplement!Idle
        /\ j \in [step : {"fetch"}, d : NamedDrops, i : Nat \ {0}, error : {"none", "failed", "barred"}]
        /\ j.i <= Candidates[j.d]
    BY <1>1, <1>10, JobOfFetch DEF SupplementInv, PoolOK
  <1>3. answer \in {"image", "junk", "empty", "gone", "error", "barred"}
    BY <1>2, <1>11, AnswersAreKnown DEF SupplementInv
  <1>4. command.step = "pool" /\ j.d \notin todo
    BY <1>2, <1>10, JobIsPooled
  <1>5. /\ UNCHANGED <<origin, command, frozen, copies, progress, pages, journal, files, manifest>>
        /\ bucket' = bucket /\ todo' = todo
    BY DEF Supplement!Fetch, Supplement!origin, Supplement!graphql, Supplement!artwork
  <1>6. next.d = j.d /\ next # Supplement!Idle /\ DownloadOK(next)'
    <2>1. CASE answer \in {"gone", "error", "barred"}
      <3>1. PICK e \in {"none", "failed", "barred"} : next = Supplement!Following(j, e)
        <4>1. j.error \in {"none", "failed", "barred"}
          BY <1>2
        <4> QED
          BY <2>1, <4>1
      <3> HIDE DEF next
      <3> QED
        BY <1>2, <3>1, FollowingIsAJob
    <2>2. CASE answer \in {"image", "junk"}
      <3>1. PICK s \in {"stored", "quarantined"} :
            next = [step |-> "keep", d |-> j.d, status |-> s]
        BY <2>2
      <3> HIDE DEF next
      <3>2. j.d \in NamedDrops
        BY <1>2
      <3>3. next \in [step : {"keep"}, d : NamedDrops, status : {"stored", "quarantined"}] /\ next.d = j.d
        BY <3>1, <3>2
      <3>4. next # Supplement!Idle
        BY <3>3 DEF Supplement!Idle
      <3> QED
        BY <3>3, <3>4 DEF DownloadOK
    <2>3. CASE answer = "empty"
      <3> DEFINE r == Supplement!Recorded("quarantined", "empty")
      <3>1. r \in Records /\ r.status = "quarantined" /\ r.proof = "empty"
        BY DEF Supplement!Recorded, Records
      <3>2. next = [step |-> "record", d |-> j.d, record |-> r]
        BY <2>3 DEF Supplement!Record
      <3>3. j.d \in NamedDrops
        BY <1>2
      <3> HIDE DEF next, r
      <3>4. /\ next \in [step : {"record"}, d : NamedDrops, record : Records] /\ next.record = r
            /\ next.d = j.d
        BY <3>1, <3>2, <3>3
      <3>5. next # Supplement!Idle
        BY <3>4 DEF Supplement!Idle
      <3> QED
        BY <3>1, <3>4, <3>5 DEF DownloadOK, RecordOK, Supplement!Evidenced
    <2> QED
      BY <1>3, <2>1, <2>2, <2>3
  <1> HIDE DEF next
  <1>7. \/ jobs[w] = Supplement!Idle /\ next.d \in todo
        \/ jobs[w] # Supplement!Idle /\ jobs[w].d = next.d
    BY <1>2, <1>6, <1>10
  <1> QED
    BY <1>1, <1>4, <1>5, <1>6, <1>7, JobsKept

LEMMA BreakKeeps ==
    ASSUME Supplement!DropSupplementAssumption, SupplementInv, NEW w \in Pool,
           Supplement!Break(w)
    PROVE  SupplementInv'
  <1>10. PICK j : j = jobs[w]
    OBVIOUS
  <1> DEFINE next == Supplement!Following(j, "failed")
  <1>1. j.step = "fetch" /\ jobs' = [jobs EXCEPT ![w] = next]
    BY <1>10 DEF Supplement!Break, Supplement!Work
  <1>2. /\ j # Supplement!Idle
        /\ j \in [step : {"fetch"}, d : NamedDrops, i : Nat \ {0}, error : {"none", "failed", "barred"}]
        /\ j.i <= Candidates[j.d]
    BY <1>1, <1>10, JobOfFetch DEF SupplementInv, PoolOK
  <1>3. command.step = "pool" /\ j.d \notin todo
    BY <1>2, <1>10, JobIsPooled
  <1>4. /\ UNCHANGED <<origin, command, frozen, copies, progress, pages, journal, files, manifest>>
        /\ bucket' = bucket /\ todo' = todo
    BY DEF Supplement!Break, Supplement!origin, Supplement!graphql, Supplement!artwork
  <1>5. next.d = j.d /\ next # Supplement!Idle /\ DownloadOK(next)'
    BY <1>2, FollowingIsAJob
  <1> HIDE DEF next
  <1>6. \/ jobs[w] = Supplement!Idle /\ next.d \in todo
        \/ jobs[w] # Supplement!Idle /\ jobs[w].d = next.d
    BY <1>2, <1>5, <1>10
  <1> QED
    BY <1>1, <1>3, <1>4, <1>5, <1>6, JobsKept

LEMMA KeepKeeps ==
    ASSUME SupplementInv, NEW w \in Pool, Supplement!Keep(w)
    PROVE  SupplementInv'
  <1>10. PICK j : j = jobs[w]
    OBVIOUS
  <1> DEFINE r == Supplement!Recorded(j.status, "bytes")
             next == Supplement!Record(j.d, r)
  <1>1. /\ j.step = "keep" /\ jobs' = [jobs EXCEPT ![w] = next]
        /\ bucket' = bucket \cup {Supplement!FileOf(j.d, r)}
    BY <1>10 DEF Supplement!Keep, Supplement!Work
  <1>2. /\ j # Supplement!Idle
        /\ j \in [step : {"keep"}, d : NamedDrops, status : {"stored", "quarantined"}]
    <2>1. Supplement!Idle.step = "idle" /\ DownloadOK(j)
      BY <1>10 DEF Supplement!Idle, SupplementInv, PoolOK
    <2> QED
      BY <1>1, <2>1 DEF DownloadOK
  <1>3. command.step = "pool" /\ j.d \notin todo
    BY <1>2, <1>10, JobIsPooled
  <1>4. /\ UNCHANGED <<origin, command, frozen, copies, progress, pages, journal, files, manifest>>
        /\ todo' = todo
    BY DEF Supplement!Keep, Supplement!origin, Supplement!graphql
  <1>5. next.d = j.d /\ next # Supplement!Idle /\ DownloadOK(next)'
    <2>1. r \in Records /\ r.proof = "bytes" /\ r.status = j.status
      BY <1>2 DEF Supplement!Recorded, Records
    <2>2. next = [step |-> "record", d |-> j.d, record |-> r] /\ j.d \in NamedDrops
      BY <1>2 DEF Supplement!Record
    <2> HIDE DEF next, r
    <2>3. /\ next \in [step : {"record"}, d : NamedDrops, record : Records] /\ next.record = r
          /\ next.d = j.d
      BY <2>1, <2>2
    <2>4. next # Supplement!Idle
      BY <2>3 DEF Supplement!Idle
    <2>5. RecordOK(next.record) /\ Supplement!Evidenced(next.d, next.record)'
      BY <1>1, <2>1, <2>3 DEF RecordOK, Supplement!Evidenced, Supplement!FileOf
    <2> QED
      BY <2>1, <2>3, <2>4, <2>5 DEF DownloadOK
  <1> HIDE DEF next
  <1>6. \/ jobs[w] = Supplement!Idle /\ next.d \in todo
        \/ jobs[w] # Supplement!Idle /\ jobs[w].d = next.d
    BY <1>2, <1>5, <1>10
  <1> QED
    BY <1>1, <1>3, <1>4, <1>5, <1>6, JobsKept

LEMMA AppendKeeps ==
    ASSUME SupplementInv, NEW w \in Pool, Supplement!AppendRecord(w)
    PROVE  SupplementInv'
  <1>1. PICK j : j = jobs[w]
    OBVIOUS
  <1>2. /\ j.step = "record" /\ jobs' = [jobs EXCEPT ![w] = Supplement!Idle]
        /\ journal' = [journal EXCEPT !.latest[j.d] = j.record]
    BY <1>1 DEF Supplement!AppendRecord, Supplement!Work
  <1>3. /\ UNCHANGED <<origin, command, frozen, copies, progress, pages, bucket, files, manifest>>
        /\ todo' = todo
    BY DEF Supplement!AppendRecord, Supplement!origin, Supplement!graphql
  <1>4. /\ j # Supplement!Idle /\ j.d \in NamedDrops /\ j.record.proof # "lost"
        /\ RecordOK(j.record) /\ Supplement!Evidenced(j.d, j.record)
    <2>1. Supplement!Idle.step = "idle" /\ DownloadOK(j)
      BY <1>1 DEF Supplement!Idle, SupplementInv, PoolOK
    <2> QED
      BY <1>2, <2>1 DEF DownloadOK
  <1>5. command.step = "pool" /\ j.d \notin todo
    BY <1>1, <1>4, JobIsPooled
  <1>6. /\ journal'.header = journal.header /\ journal'.torn = journal.torn
        /\ journal' = [header |-> journal'.header, latest |-> journal'.latest,
                       torn |-> journal'.torn]
        /\ journal'.latest = [d \in NamedDrops |-> journal'.latest[d]]
        /\ journal'.latest[j.d] = j.record
        /\ \A d \in NamedDrops \ {j.d} : journal'.latest[d] = journal.latest[d]
    <2>1. journal' = [header |-> journal.header, torn |-> journal.torn,
                      latest |-> [journal.latest EXCEPT ![j.d] = j.record]]
      BY <1>2 DEF SupplementInv, JournalOK
    <2>2. journal.latest = [d \in NamedDrops |-> journal.latest[d]]
      BY DEF SupplementInv, JournalOK
    <2> QED
      BY <1>4, <2>1, <2>2
  <1>7. JournalOK'
    <2>1. ASSUME NEW d \in NamedDrops
          PROVE  RecordOK(journal'.latest[d]) /\ Supplement!Evidenced(d, journal.latest[d])'
      <3>1. CASE d = j.d
        BY <1>3, <1>4, <1>6, <3>1 DEF Supplement!Evidenced, Supplement!FileOf
      <3>2. CASE d # j.d
        BY <1>3, <1>6, <3>2
           DEF SupplementInv, JournalOK, Supplement!Evidenced, Supplement!FileOf
      <3> QED
        BY <3>1, <3>2
    <2>2. journal'.header = Supplement!Unmade \/ journal'.header \in ArtworkArchives
      BY <1>6 DEF SupplementInv, JournalOK
    <2> QED
      BY <1>6, <2>1, <2>2 DEF JournalOK
  <1>8. /\ jobs' = [v \in Pool |-> jobs'[v]] /\ jobs'[w] = Supplement!Idle
        /\ \A v \in Pool \ {w} : jobs'[v] = jobs[v]
    BY <1>2 DEF SupplementInv, PoolOK
  <1>9. \A d : Waiting(d)' <=> Waiting(d) /\ d # j.d
    <2>1. ASSUME NEW d, Waiting(d), d # j.d PROVE Waiting(d)'
      BY <1>1, <1>3, <1>8, <2>1 DEF Waiting
    <2>2. ASSUME NEW d, Waiting(d)' PROVE Waiting(d) /\ d # j.d
      <3>1. CASE d \in todo
        BY <1>5, <3>1 DEF Waiting
      <3>2. CASE d \notin todo
        <4>1. PICK v \in Pool : jobs'[v] # Supplement!Idle /\ jobs'[v].d = d
          BY <1>3, <2>2, <3>2 DEF Waiting
        <4>2. v # w /\ jobs[v] # Supplement!Idle /\ jobs[v].d = d
          BY <1>8, <4>1
        <4>3. jobs[v].d # jobs[w].d
          BY <1>1, <1>4, <4>2 DEF SupplementInv, PoolOK
        <4> QED
          BY <1>1, <4>2, <4>3 DEF Waiting
      <3> QED
        BY <3>1, <3>2
    <2> QED
      BY <2>1, <2>2
  <1>10. PoolOK'
    <2>1. \A v \in Pool : DownloadOK(jobs[v])'
      <3>1. ASSUME NEW v \in Pool \ {w} PROVE DownloadOK(jobs[v])'
        BY <1>3, <1>8, <3>1
           DEF SupplementInv, PoolOK, DownloadOK, Supplement!Evidenced, Supplement!FileOf
      <3> QED
        BY <1>8, <3>1 DEF DownloadOK
    <2>2. \A v \in Pool : jobs'[v] # Supplement!Idle =>
             /\ jobs'[v].d \notin todo'
             /\ \A u \in Pool \ {v} : jobs'[u] # Supplement!Idle => jobs'[u].d # jobs'[v].d
      BY <1>3, <1>8 DEF SupplementInv, PoolOK
    <2>3. \A d \in NamedDrops : Waiting(d)' =>
          d \notin command'.archive.manifest /\ Open(journal'.latest[d])
      BY <1>3, <1>6, <1>9 DEF SupplementInv, PoolOK
    <2>4. \A d \in NamedDrops \ command'.archive.manifest :
          Supplement!Unproven(journal'.latest[d]) => Waiting(d)'
      <3>1. ASSUME NEW d \in NamedDrops \ command.archive.manifest,
                   Supplement!Unproven(journal'.latest[d])
            PROVE  Waiting(d)'
        <4>1. d # j.d
          BY <1>4, <1>6, <3>1 DEF Supplement!Unproven
        <4>2. Supplement!Unproven(journal.latest[d])
          BY <1>6, <3>1, <4>1
        <4>3. Waiting(d)
          BY <1>5, <4>2 DEF SupplementInv, PoolOK, Pooled
        <4> QED
          BY <1>9, <4>1, <4>3
      <3> QED
        BY <1>3, <3>1
    <2>5. todo' \subseteq NamedDrops /\ command'.step = "pool"
      BY <1>3, <1>5 DEF SupplementInv, PoolOK
    <2> QED
      BY <1>8, <2>1, <2>2, <2>3, <2>4, <2>5 DEF PoolOK
  <1>11. CommandOK' /\ DirectoryOK' /\ ReferencesOK'
    BY <1>3, <1>5, DirectoryKept DEF SupplementInv, CommandOK, ReferencesOK
  <1>12. RunIsAhead'
    BY <1>3, <1>5, <1>6 DEF SupplementInv, RunIsAhead
  <1>13. ManifestOK'
    BY <1>3, <1>6 DEF SupplementInv, ManifestOK, ReferencesAre, RecordOK
  <1> QED
    BY <1>3, <1>7, <1>10, <1>11, <1>12, <1>13 DEF SupplementInv

-----------------------------------------------------------------------------
(* The references and the manifest.                                          *)

LEMMA WriteReferencesKeeps ==
    ASSUME SupplementInv, Supplement!WriteReferences
    PROVE  SupplementInv'
  <1> USE DEF Supplement!WriteReferences, Supplement!origin, Supplement!graphql,
      Supplement!artwork, Supplement!pool, Supplement!At
  <1>1. command.step = "pool" /\ todo = {} /\ \A w \in Pool : jobs[w] = Supplement!Idle
    OBVIOUS
  <1>2. /\ files' = [rows |-> files.rows, catalog |-> files.catalog,
                     references |-> [d \in NamedDrops |-> Supplement!ReferenceOf(d)]]
        /\ files' = [rows |-> files'.rows, catalog |-> files'.catalog,
                     references |-> files'.references]
    BY DEF SupplementInv, DirectoryOK
  <1>3. CommandOK' /\ command'.step = "manifest" /\ command'.archive = command.archive
    BY <1>1, Going
       DEF SupplementInv, Supplement!GoTo, Queried, Inspected, Copied, Related, Catalogued,
          PlanIsFixed, Pooled
  <1>4. DirectoryOK'
    BY <1>2 DEF SupplementInv, DirectoryOK, Supplement!PagesAreKept
  <1>5. files'.rows = files.rows /\ files'.catalog = files.catalog
    BY <1>2
  <1>6. RunIsAhead'
    BY <1>1, <1>3, <1>5
       DEF SupplementInv, RunIsAhead, Queried, Inspected, Copied, Related, Catalogued,
           PlanIsFixed, Pooled
  <1>7. PoolOK'
    <2>1. \A d : ~Waiting(d) /\ ~Waiting(d)'
      BY <1>1 DEF Waiting
    <2>2. \A d \in NamedDrops \ command.archive.manifest :
          ~Supplement!Unproven(journal.latest[d])
      BY <1>1, <2>1 DEF SupplementInv, PoolOK, Pooled
    <2>3. jobs' = [w \in Pool |-> jobs'[w]] /\ \A w \in Pool : jobs'[w] = Supplement!Idle
      BY <1>1 DEF SupplementInv, PoolOK
    <2> QED
      BY <1>1, <1>3, <2>1, <2>2, <2>3 DEF PoolOK, DownloadOK
  <1>8. ReferencesOK'
    <2>1. ReferencesAre(files'.references, command.archive)
      <3>1. files'.references = [d \in NamedDrops |-> Supplement!ReferenceOf(d)]
        BY <1>2
      <3>2. \A d \in NamedDrops : RecordOK(journal.latest[d])
        BY DEF SupplementInv, JournalOK
      <3> QED
        BY <3>1, <3>2 DEF ReferencesAre, Supplement!ReferenceOf, Supplement!Latest
    <2>2. \A d \in NamedDrops \ command.archive.manifest :
          files'.references[d] = journal.latest[d]
      BY <1>2 DEF Supplement!ReferenceOf, Supplement!Latest
    <2>3. ReferencesAre(files'.references, command'.archive)
      BY <1>3, <2>1
    <2> QED
      BY <1>3, <2>2, <2>3 DEF ReferencesOK, ReferencesAre, RecordOK
  <1> QED
    BY <1>3, <1>4, <1>6, <1>7, <1>8, JournalKept, ManifestKept DEF SupplementInv

LEMMA ManifestIsKept ==
    ASSUME SupplementInv, Supplement!WriteManifest
    PROVE  SupplementInv'
  <1> USE DEF Supplement!WriteManifest, Supplement!origin, Supplement!graphql,
      Supplement!artwork, Supplement!pool, Supplement!At
  <1>1. command.step = "manifest" /\ command # Supplement!Idle /\
        command.archive \in ArtworkArchives
    BY Running DEF SupplementInv
  <1>2. command' = Supplement!Idle /\ command'.step = "idle"
    BY DEF Supplement!Refuse, Supplement!Idle
  <1>3. CommandOK' /\ RunIsAhead' /\ ReferencesOK'
    BY <1>2
       DEF CommandOK, RunIsAhead, ReferencesOK, Queried, Inspected, Copied, Related,
           Catalogued, PlanIsFixed, Pooled
  <1>4. PoolOK'
    <2>1. /\ todo = {} /\ jobs = [w \in Pool |-> jobs[w]]
          /\ \A w \in Pool : jobs[w] = Supplement!Idle
      BY <1>1 DEF SupplementInv, PoolOK
    <2>2. \A d : ~Waiting(d)'
      BY <2>1 DEF Waiting
    <2>3. command'.step \notin Pooled
      BY <1>2 DEF Pooled
    <2> QED
      BY <2>1, <2>2, <2>3 DEF PoolOK, DownloadOK
  <1>5. ManifestOK'
    <2> DEFINE e == command.archive
    <2>1. manifest' = [made |-> TRUE, archive |-> e, raw |-> progress.pages,
                       files |-> files, plan |-> frozen.plan, copies |-> Supplement!ProofsOf(e),
                       complete |-> \A d \in NamedDrops :
                       files.references[d].status \notin Supplement!Incomplete]
      OBVIOUS
    <2>2. /\ e.sound /\ frozen.query = "whole" /\ AskedOf(progress.pages) = NamedDrops
          /\ frozen.plan = Supplement!PlanOf(e) /\ journal.header = e
          /\ e.upload # "none" => copies = Supplement!ProofsOf(e)
          /\ files.rows = Supplement!RowsOf(progress.pages) /\ files.catalog = e.catalog
          /\ ReferencesAre(files.references, e)
      BY <1>1
         DEF SupplementInv, RunIsAhead, ReferencesOK, Queried, Inspected, Copied, Related,
             Catalogued, PlanIsFixed, Pooled
    <2>3. files = [rows |-> files.rows, catalog |-> files.catalog, references |-> files.references]
      BY DEF SupplementInv, DirectoryOK
    <2> HIDE DEF e
    <2>4. /\ manifest'.made /\ manifest'.archive = e /\ manifest'.raw = progress.pages
          /\ manifest'.files = files /\ manifest'.plan = frozen.plan
          /\ manifest'.copies = Supplement!ProofsOf(e)
          /\ manifest'.complete => \A d \in NamedDrops :
               files.references[d].status \notin Supplement!Incomplete
      BY <2>1
    <2>5. e \in ArtworkArchives
      BY <1>1 DEF e
    <2>6. UNCHANGED <<frozen, progress, journal, copies>>
      OBVIOUS
    <2> HIDE DEF Supplement!WriteManifest
    <2> QED
      BY <2>2, <2>3, <2>4, <2>5, <2>6 DEF ManifestOK, ReferencesAre, RecordOK
  <1> QED
    BY <1>3, <1>4, <1>5, JournalKept, DirectoryKept DEF SupplementInv

LEMMA KillKeeps ==
    ASSUME SupplementInv, Supplement!Kill
    PROVE  SupplementInv'
  <1>1. /\ command' = Supplement!Idle /\ todo' = {} /\ jobs' = [w \in Pool |-> Supplement!Idle]
        /\ UNCHANGED <<origin, frozen, copies, progress, pages, bucket, files, manifest>>
    BY DEF Supplement!Kill, Supplement!origin, Supplement!graphql
  <1>2. /\ journal'.header = journal.header /\ journal'.latest = journal.latest
        /\ journal' = [header |-> journal'.header, latest |-> journal'.latest,
                       torn |-> journal'.torn]
    BY DEF Supplement!Kill, SupplementInv, JournalOK
  <1>3. command'.step = "idle"
    BY <1>1 DEF Supplement!Idle
  <1>4. CommandOK' /\ RunIsAhead' /\ ReferencesOK'
    BY <1>1, <1>3
       DEF CommandOK, RunIsAhead, ReferencesOK, Queried, Inspected, Copied, Related,
           Catalogued, PlanIsFixed, Pooled
  <1>5. JournalOK'
    BY <1>1, <1>2 DEF SupplementInv, JournalOK, Supplement!Evidenced, Supplement!FileOf
  <1>6. PoolOK'
    <2>1. \A d : ~Waiting(d)'
      BY <1>1 DEF Waiting
    <2>2. command'.step \notin Pooled
      BY <1>3 DEF Pooled
    <2>3. jobs' = [w \in Pool |-> jobs'[w]] /\ \A w \in Pool : jobs'[w] = Supplement!Idle
      BY <1>1
    <2> QED
      BY <1>1, <2>1, <2>2, <2>3 DEF PoolOK, DownloadOK
  <1>7. ManifestOK'
    BY <1>1, <1>2 DEF SupplementInv, ManifestOK, ReferencesAre, RecordOK
  <1> QED
    BY <1>1, <1>4, <1>5, <1>6, <1>7, DirectoryKept DEF SupplementInv

\* Another directory, in place of one with a torn file.
LEMMA RestartKeeps ==
    ASSUME Supplement!DropSupplementAssumption, SupplementInv, Supplement!Restart
    PROVE  SupplementInv'
  <1>1. /\ command = Supplement!Idle /\ command' = command
        /\ frozen' = Supplement!Unfrozen /\ copies' = <<>> /\ bucket' = {}
        /\ journal' = Supplement!Untouched
        /\ progress' = [made |-> FALSE, pages |-> <<>>] /\ pages' = <<>>
        /\ files' = Supplement!NoFiles /\ manifest' = Supplement!NoManifest
        /\ origin' = origin /\ todo' = todo /\ jobs' = jobs
    BY DEF Supplement!Restart, Supplement!origin, Supplement!pool
  <1>2. command.step = "idle"
    BY <1>1 DEF Supplement!Idle
  <1>3. CommandOK' /\ RunIsAhead' /\ ReferencesOK'
    BY <1>1, <1>2
       DEF SupplementInv, CommandOK, RunIsAhead, ReferencesOK, Queried, Inspected, Copied,
           Related, Catalogued, PlanIsFixed, Pooled
  <1>4. JournalOK'
    <2>1. /\ journal' = [header |-> journal'.header, latest |-> journal'.latest,
                         torn |-> journal'.torn]
          /\ journal'.latest = [d \in NamedDrops |-> Supplement!NoRecord]
          /\ journal'.header = Supplement!Unmade
      BY <1>1 DEF Supplement!Untouched
    <2>2. RecordOK(Supplement!NoRecord) /\ Supplement!NoRecord.proof # "bytes"
      BY DEF RecordOK, Records, Supplement!NoRecord
    <2> QED
      BY <2>1, <2>2 DEF JournalOK, Supplement!Evidenced
  <1>5. DirectoryOK'
    BY <1>1, NothingIsASequence
       DEF DirectoryOK, Supplement!Unfrozen, Supplement!NoFiles, Supplement!PagesAreKept
  <1>6. PoolOK'
    <2>1. PoolOK /\ todo = {} /\ \A w \in Pool : jobs[w] = Supplement!Idle
      BY <1>2 DEF SupplementInv, PoolOK
    <2>2. \A d : ~Waiting(d)'
      BY <1>1, <2>1 DEF Waiting
    <2> QED
      BY <1>1, <1>2, <2>1, <2>2 DEF PoolOK, DownloadOK, Pooled
  <1>7. ManifestOK'
    BY <1>1 DEF ManifestOK
  <1> QED
    BY <1>1, <1>3, <1>4, <1>5, <1>6, <1>7 DEF SupplementInv

\* Nothing but the source may have changed.
LEMMA NothingKeeps ==
    ASSUME SupplementInv, origin' \in ArtworkAnswers,
           UNCHANGED <<command, frozen, copies, progress, pages, journal, bucket, todo, jobs, files,
                       manifest>>
    PROVE  SupplementInv'
  <1>1. CommandOK' /\ RunIsAhead'
    BY DEF SupplementInv, CommandOK, RunIsAhead
  <1>2. PoolOK'
    BY
       DEF SupplementInv, PoolOK, DownloadOK, Supplement!Evidenced, Supplement!FileOf,
           Waiting
  <1>3. ReferencesOK'
    BY DEF SupplementInv, ReferencesOK, ReferencesAre, RecordOK
  <1> QED
    BY <1>1, <1>2, <1>3, JournalKept, DirectoryKept, ManifestKept DEF SupplementInv

LEMMA SupplementKeeps ==
    ASSUME Supplement!DropSupplementAssumption, SupplementInv, [Supplement!Next]_Supplement!vars
    PROVE  SupplementInv'
  <1>1. ASSUME NEW e \in ArtworkArchives, NEW retry \in BOOLEAN, Supplement!Begin(e, retry)
        PROVE  SupplementInv'
    BY <1>1, EnrichKeeps
  <1>2. CASE Supplement!Step
    BY <1>2, FrozenKeeps, InspectKeeps, CopyProofKeeps, OpenStateKeeps, FetchPageKeeps,
       WritePageKeeps, CommitPageKeeps, NormalizeKeeps, WriteCatalogKeeps, PlanKeeps,
       OpenCheckpointKeeps, WriteReferencesKeeps, ManifestIsKept DEF Supplement!Step
  <1>3. ASSUME NEW w \in Pool, Supplement!Download(w) \/ Supplement!Break(w)
        PROVE  SupplementInv'
    BY <1>3, TakeKeeps, FetchKeeps, KeepKeeps, AppendKeeps, BreakKeeps
       DEF Supplement!Download
  <1>4. CASE Supplement!Change
    <2>1. origin' \in ArtworkAnswers
      BY <1>4 DEF Supplement!Change, SupplementInv
    <2> QED
      BY <1>4, <2>1, NothingKeeps
         DEF Supplement!Change, Supplement!graphql, Supplement!artwork, Supplement!pool
  <1>5. CASE Supplement!Kill
    BY <1>5, KillKeeps
  <1>6. CASE UNCHANGED Supplement!vars
    BY <1>6, NothingKeeps
       DEF Supplement!vars, Supplement!origin, Supplement!graphql, Supplement!artwork,
           Supplement!pool, SupplementInv
  <1>7. CASE Supplement!Enrich
    BY <1>1, <1>7 DEF Supplement!Enrich
  <1>8. CASE Supplement!Repeat
    BY <1>1, <1>8 DEF Supplement!Repeat
  <1>9. CASE Supplement!Restart
    BY <1>9, RestartKeeps
  <1> QED
    BY <1>2, <1>3, <1>4, <1>5, <1>6, <1>7, <1>8, <1>9
       DEF Supplement!Next, Supplement!Disturb, Supplement!Finished

LEMMA FaultsAreCounted ==
    ASSUME faults \in Nat, [Supplement!Next]_Supplement!vars
    PROVE  faults' \in Nat
  <1>1. CASE Supplement!Step
    <2>1. CASE Supplement!OpenQuery \/ Supplement!WriteQuery \/ Supplement!InspectArchive \/
               Supplement!CopyProof \/ Supplement!OpenState \/ Supplement!FetchPage
      BY <2>1
         DEF Supplement!OpenQuery, Supplement!WriteQuery, Supplement!InspectArchive,
             Supplement!CopyProof, Supplement!OpenState, Supplement!FetchPage
    <2>2. CASE Supplement!WritePage \/ Supplement!CommitPage \/ Supplement!Normalize \/
               Supplement!WriteCatalog \/ Supplement!OpenPlan \/ Supplement!WritePlan
      BY <2>2
         DEF Supplement!WritePage, Supplement!CommitPage, Supplement!Normalize,
             Supplement!WriteCatalog, Supplement!OpenPlan, Supplement!WritePlan
    <2>3. CASE Supplement!OpenCheckpoint \/ Supplement!WriteReferences \/
               Supplement!WriteManifest
      BY <2>3
         DEF Supplement!OpenCheckpoint, Supplement!WriteReferences,
             Supplement!WriteManifest
    <2> QED
      BY <1>1, <2>1, <2>2, <2>3 DEF Supplement!Step
  <1>2. ASSUME NEW w \in Pool, Supplement!Download(w) \/ Supplement!Break(w)
        PROVE  faults' \in Nat
    BY <1>2
       DEF Supplement!Download, Supplement!Take, Supplement!Fetch, Supplement!Keep,
           Supplement!AppendRecord, Supplement!Break
  <1>3. CASE Supplement!Enrich \/ Supplement!Change \/ Supplement!Repeat \/
             Supplement!Kill \/ Supplement!Restart \/ UNCHANGED Supplement!vars
    <2>1. CASE faults' = faults
      BY <2>1
    <2>2. CASE faults' = faults + 1
      BY <2>2
    <2> QED
      BY <1>3, <2>1, <2>2
         DEF Supplement!Enrich, Supplement!Change, Supplement!Repeat, Supplement!Kill,
             Supplement!Restart, Supplement!vars
  <1> QED
    BY <1>1, <1>2, <1>3 DEF Supplement!Next, Supplement!Disturb, Supplement!Finished

\* What build-d1 finds in the projection of a Drop.
LEMMA AcceptedSays ==
    ASSUME Supplement!DropSupplementAssumption, SupplementInv, Supplement!Accepted
    PROVE  Supplement!AcceptedIsOneInput
  <1> DEFINE e == manifest.archive
  <1>1. manifest # Supplement!NoManifest
    BY DEF Supplement!Accepted, Supplement!NoManifest
  <1>2. /\ e.sound /\ journal.header = e /\ frozen.plan = Supplement!PlanOf(e)
        /\ e.upload # "none" => copies = Supplement!ProofsOf(e)
        /\ ReferencesAre(manifest.files.references, e)
        /\ \A d \in NamedDrops : manifest.files.references[d].status \notin Supplement!Incomplete
    BY <1>1 DEF SupplementInv, ManifestOK, Supplement!Accepted
  <1>3. files.references = manifest.files.references
    BY DEF Supplement!Accepted, Supplement!ArtworkIsBound
  <1>4. ASSUME NEW d \in NamedDrops
        PROVE  LET r == files.references[d]
               IN IF d \in e.manifest THEN r = [status |-> "reused", upload |-> e.upload]
                  ELSE /\ r.status \in {"stored", "quarantined"}
                       /\ r.status = "stored" => <<"object", ArtworkBytes[d]>> \in bucket
    <2> DEFINE r == files.references[d]
    <2>1. CASE d \in e.manifest
      BY <1>2, <1>3, <2>1 DEF ReferencesAre
    <2>2. CASE d \notin e.manifest
      <3>1. RecordOK(r) /\ r.status \notin {"pending", "failed", "missing"}
        BY <1>2, <1>3, <2>2 DEF ReferencesAre, Supplement!Incomplete
      <3>2. r.status \in {"stored", "quarantined"}
        BY <3>1 DEF RecordOK, Records
      <3>3. Supplement!Projects(d)
        BY DEF Supplement!Accepted
      <3>4. ASSUME r.status = "stored"
            PROVE  <<"object", ArtworkBytes[d]>> \in bucket
        <4>1. Supplement!Evidenced(d, r) /\ r.proof = "bytes"
          BY <3>1, <3>3, <3>4 DEF Supplement!Projects, RecordOK
        <4> QED
          BY <3>4, <4>1 DEF Supplement!Evidenced, Supplement!FileOf
      <3> QED
        BY <2>2, <3>2, <3>4
    <2> QED
      BY <2>1, <2>2
  <1> QED
    BY <1>2, <1>4 DEF Supplement!AcceptedIsOneInput

-----------------------------------------------------------------------------
(* What takes an acceptance back.                                            *)

\* The manifest is of the files and of the records as they are.
Binds ==
    /\ manifest # Supplement!NoManifest /\ manifest.complete /\ ~journal.torn
    /\ files = manifest.files
    /\ \A d \in NamedDrops \ manifest.archive.manifest :
          /\ manifest.files.references[d] = journal.latest[d]
          /\ ~Supplement!Unproven(journal.latest[d])

LEMMA BindsIsAccepted ==
    ASSUME Supplement!DropSupplementAssumption, SupplementInv
    PROVE  Supplement!Accepted <=> Binds
  <1> DEFINE e == manifest.archive
  <1>1. CASE manifest = Supplement!NoManifest
    BY <1>1 DEF Supplement!Accepted, Binds, Supplement!NoManifest
  <1>2. CASE manifest # Supplement!NoManifest
    <2>1. /\ manifest.made /\ e \in ArtworkArchives /\ e.sound /\ frozen.query = "whole"
          /\ manifest.raw = progress.pages /\ AskedOf(progress.pages) = NamedDrops
          /\ frozen.plan = Supplement!PlanOf(e) /\ manifest.plan = Supplement!PlanOf(e)
          /\ journal.header = e
          /\ manifest.copies = Supplement!ProofsOf(e)
          /\ (e.upload # "none" => copies = Supplement!ProofsOf(e))
          /\ manifest.files = [rows |-> manifest.files.rows, catalog |-> manifest.files.catalog,
                               references |-> manifest.files.references]
          /\ manifest.files.rows = Supplement!RowsOf(progress.pages)
          /\ manifest.files.catalog = e.catalog
          /\ ReferencesAre(manifest.files.references, e)
          /\ manifest.complete =>
                \A d \in NamedDrops : manifest.files.references[d].status \notin Supplement!Incomplete
      BY <1>2 DEF SupplementInv, ManifestOK
    <2>2. files = [rows |-> files.rows, catalog |-> files.catalog, references |-> files.references]
      BY DEF SupplementInv, DirectoryOK
    <2>3. frozen.plan.reuse = e.manifest /\ frozen.plan.catalog = e.catalog
      BY <2>1 DEF Supplement!PlanOf
    <2> HIDE DEF e
    <2>4. ASSUME Supplement!Accepted
          PROVE  Binds
      <3>1. /\ manifest.complete /\ ~journal.torn
            /\ files.rows = manifest.files.rows /\ files.catalog = manifest.files.catalog
            /\ files.references = manifest.files.references
        BY <2>4 DEF Supplement!Accepted, Supplement!RawIsBound, Supplement!ArtworkIsBound
      <3>2. files = manifest.files
        BY <2>1, <2>2, <3>1
      <3>3. ASSUME NEW d \in NamedDrops \ e.manifest
            PROVE  /\ manifest.files.references[d] = journal.latest[d]
                   /\ ~Supplement!Unproven(journal.latest[d])
        <4> DEFINE r == files.references[d]
        <4>1. RecordOK(r)
          BY <2>1, <3>1, <3>3 DEF ReferencesAre
        <4>2. r.status \in {"pending", "stored", "quarantined", "failed", "missing"}
          BY <4>1 DEF RecordOK, Records
        <4>3. Supplement!Projects(d)
          BY <2>4 DEF Supplement!Accepted
        <4>4. r = Supplement!Latest(d) /\ (r.status = "quarantined" => r.proof # "lost")
          BY <4>2, <4>3 DEF Supplement!Projects
        <4> QED
          BY <3>1, <4>4 DEF Supplement!Latest, Supplement!Unproven
      <3> QED
        BY <1>2, <3>1, <3>2, <3>3 DEF Binds, e
    <2>5. ASSUME Binds
          PROVE  Supplement!Accepted
      <3>1. /\ manifest.complete /\ ~journal.torn /\ files = manifest.files
            /\ \A d \in NamedDrops \ e.manifest :
                  /\ manifest.files.references[d] = journal.latest[d]
                  /\ ~Supplement!Unproven(journal.latest[d])
        BY <2>5 DEF Binds, e
      <3>2. Supplement!RawIsBound
        <4>1. /\ Len(manifest.raw) <= Len(pages)
              /\ SubSeq(pages, 1, Len(manifest.raw)) = manifest.raw
          BY <2>1 DEF SupplementInv, DirectoryOK, Supplement!PagesAreKept
        <4>2. UNION {DOMAIN p : p \in Supplement!Range(manifest.raw)} = NamedDrops
          BY <2>1 DEF AskedOf
        <4> QED
          BY <2>1, <3>1, <4>1, <4>2 DEF Supplement!RawIsBound
      <3>3. Supplement!ArtworkIsBound
        BY <2>1, <2>3, <3>1, MadeIsNotUnmade DEF Supplement!ArtworkIsBound, e
      <3>4. Supplement!ProofsAreBound
        BY <2>1 DEF Supplement!ProofsAreBound, e
      <3>5. ASSUME NEW d \in NamedDrops
            PROVE  Supplement!Projects(d)
        <4> DEFINE r == files.references[d]
        <4>1. CASE d \in e.manifest
          <5>1. r = [status |-> "reused", upload |-> e.upload]
            BY <2>1, <3>1, <4>1 DEF ReferencesAre
          <5>2. e.upload # "none"
            BY <2>1, <4>1 DEF Supplement!DropSupplementAssumption
          <5>3. copies[3] = e.upload
            BY <2>1, <5>2, ProofsAreThree
          <5>4. d \in Supplement!Uploaded(e.upload)
            BY <2>1, <4>1 DEF Supplement!Uploaded
          <5>5. r.status = "reused" /\ r.upload = e.upload
            BY <5>1
          <5> QED
            BY <2>1, <2>3, <4>1, <5>2, <5>3, <5>4, <5>5 DEF Supplement!Projects, e
        <4>2. CASE d \notin e.manifest
          <5>1. RecordOK(r) /\ r.status \notin {"pending", "failed", "missing"}
            BY <2>1, <3>1, <4>2 DEF ReferencesAre, Supplement!Incomplete
          <5>2. r.status \in {"stored", "quarantined"} /\ r = Supplement!Latest(d)
            BY <3>1, <4>2, <5>1 DEF RecordOK, Records, Supplement!Latest
          <5>3. r.status = "quarantined" => r.proof \in {"bytes", "empty", "barred"}
            BY <3>1, <4>2, <5>1, <5>2
               DEF RecordOK, Records, Supplement!Unproven, Supplement!Latest
          <5>4. Supplement!Evidenced(d, r)
            BY <5>2 DEF SupplementInv, JournalOK, Supplement!Latest
          <5>5. d \notin frozen.plan.reuse
            BY <2>3, <4>2
          <5> QED
            BY <5>2, <5>3, <5>4, <5>5 DEF Supplement!Projects
        <4> QED
          BY <4>1, <4>2
      <3> QED
        BY <2>1, <3>1, <3>2, <3>3, <3>4, <3>5 DEF Supplement!Accepted
    <2> QED
      BY <2>4, <2>5
  <1> QED
    BY <1>1, <1>2

\* Of a directory that is accepted nothing is downloaded.
LEMMA NothingIsDownloaded ==
    ASSUME Supplement!DropSupplementAssumption, SupplementInv, Binds
    PROVE  todo = {} /\ \A w \in Pool : jobs[w] = Supplement!Idle
  <1> DEFINE e == manifest.archive
  <1>1. /\ journal.header = e /\ e \in ArtworkArchives
        /\ \A d \in NamedDrops : manifest.files.references[d].status \notin {"pending", "failed", "missing"}
    BY DEF SupplementInv, ManifestOK, Binds, Supplement!Incomplete
  <1>2. ASSUME NEW d \in NamedDrops, Waiting(d)
        PROVE  FALSE
    <2>1. command.step = "pool"
      BY <1>2 DEF SupplementInv, PoolOK, Waiting
    <2>2. command.archive = e
      BY <1>1, <2>1 DEF SupplementInv, RunIsAhead, Pooled
    <2>3. d \notin e.manifest /\ Open(journal.latest[d])
      BY <1>2, <2>2 DEF SupplementInv, PoolOK
    <2>4. journal.latest[d].status \notin {"pending", "failed", "missing"} /\
          ~Supplement!Unproven(journal.latest[d])
      BY <1>1, <2>3 DEF Binds
    <2> QED
      BY <2>3, <2>4 DEF Open, Supplement!NoRecord
  <1>3. \A w \in Pool : jobs[w] # Supplement!Idle => jobs[w].d \in NamedDrops
    BY DEF SupplementInv, PoolOK, DownloadOK
  <1>4. todo \subseteq NamedDrops
    BY DEF SupplementInv, PoolOK
  <1> QED
    BY <1>2, <1>3, <1>4 DEF Waiting

LEMMA BindsKept ==
    ASSUME Binds, UNCHANGED <<manifest, files>>, journal'.latest = journal.latest, ~journal'.torn
    PROVE  Binds'
  BY DEF Binds

LEMMA CatalogKeeps ==
    ASSUME Supplement!DropSupplementAssumption, SupplementInv, Binds,
           [Supplement!Next]_Supplement!vars,
           command # Supplement!Idle => command.archive.catalog = manifest.archive.catalog
    PROVE  Binds'
  <1> DEFINE e == manifest.archive
  <1>1. /\ journal.header = e /\ e \in ArtworkArchives /\ manifest # Supplement!NoManifest
        /\ manifest.files = [rows |-> manifest.files.rows, catalog |-> manifest.files.catalog,
                             references |-> manifest.files.references]
        /\ manifest.files.rows = Supplement!RowsOf(progress.pages)
        /\ manifest.files.catalog = e.catalog
        /\ ReferencesAre(manifest.files.references, e)
        /\ \A d \in NamedDrops : manifest.files.references[d].status \notin Supplement!Incomplete
    BY DEF SupplementInv, ManifestOK, Binds
  <1>2. files = manifest.files /\ ~journal.torn /\ manifest.complete
    BY DEF Binds
  <1>3. todo = {} /\ \A w \in Pool : jobs[w] = Supplement!Idle
    BY NothingIsDownloaded
  <1>4. Supplement!Idle.step = "idle"
    BY DEF Supplement!Idle
  <1>5. CASE UNCHANGED <<manifest, files, journal>>
    BY <1>2, <1>5, BindsKept
  <1>6. CASE Supplement!Normalize
    <2>1. command # Supplement!Idle /\ files'.rows = Supplement!RowsOf(progress.pages)
      BY <1>4, <1>6
         DEF Supplement!Normalize, Supplement!At, SupplementInv, DirectoryOK,
             Supplement!PagesAreKept
    <2>2. files' = files
      <3>1. files' = [files EXCEPT !.rows = files'.rows]
        BY <1>6 DEF Supplement!Normalize, SupplementInv, DirectoryOK
      <3>2. files.rows = files'.rows
        BY <1>1, <1>2, <2>1
      <3> QED
        BY <3>1, <3>2 DEF SupplementInv, DirectoryOK
    <2> QED
      BY <1>2, <1>6, <2>2, BindsKept DEF Supplement!Normalize, Supplement!artwork
  <1>7. CASE Supplement!WriteCatalog
    <2>1. command # Supplement!Idle
      BY <1>4, <1>7 DEF Supplement!WriteCatalog, Supplement!At
    <2>2. files' = files
      BY <1>1, <1>2, <1>7, <2>1 DEF Supplement!WriteCatalog, SupplementInv, DirectoryOK
    <2> QED
      BY <1>2, <1>7, <2>2, BindsKept DEF Supplement!WriteCatalog, Supplement!artwork
  <1>8. CASE Supplement!OpenCheckpoint
    <2>1. journal'.latest = journal.latest /\ journal'.torn = journal.torn
      BY <1>8 DEF Supplement!OpenCheckpoint, SupplementInv, JournalOK
    <2> QED
      BY <1>2, <1>8, <2>1, BindsKept DEF Supplement!OpenCheckpoint
  <1>9. CASE Supplement!WriteReferences
    <2>1. command.archive = e
      BY <1>1, <1>9
         DEF Supplement!WriteReferences, Supplement!At, SupplementInv, RunIsAhead, Pooled
    <2>2. ASSUME NEW d \in NamedDrops
          PROVE  files.references[d] = Supplement!ReferenceOf(d)
      BY <1>1, <1>2, <2>1
         DEF ReferencesAre, Supplement!ReferenceOf, Supplement!Latest, Binds
    <2>3. files.references = [d \in NamedDrops |-> Supplement!ReferenceOf(d)]
      BY <1>1, <1>2, <2>2 DEF ReferencesAre
    <2>4. files' = files
      BY <1>9, <2>3 DEF Supplement!WriteReferences, SupplementInv, DirectoryOK
    <2> QED
      BY <1>2, <1>9, <2>4, BindsKept DEF Supplement!WriteReferences, Supplement!artwork
  <1>10. CASE Supplement!WriteManifest
    <2>1. command.archive = e
      BY <1>1, <1>10
         DEF Supplement!WriteManifest, Supplement!At, SupplementInv, RunIsAhead, Pooled
    <2>2. /\ manifest' = [made |-> TRUE, archive |-> command.archive, raw |-> progress.pages,
                          files |-> files, plan |-> frozen.plan,
                          copies |-> Supplement!ProofsOf(command.archive),
                          complete |-> \A d \in NamedDrops :
                          files.references[d].status \notin Supplement!Incomplete]
          /\ UNCHANGED <<journal, files>>
      BY <1>10 DEF Supplement!WriteManifest, Supplement!artwork
    <2>3. manifest'.complete /\ manifest'.files = files /\ manifest'.archive = e /\
          manifest'.made
      BY <1>1, <1>2, <2>1, <2>2
    <2>4. manifest' # Supplement!NoManifest
      BY <2>3 DEF Supplement!NoManifest
    <2> QED
      BY <1>2, <2>2, <2>3, <2>4 DEF Binds
  <1>11. CASE Supplement!Kill
    <2>1. ~(Supplement!At("checkpoint") /\ journal.header = Supplement!Unmade) /\
          ~\E w \in Pool : jobs[w].step = "record"
      BY <1>1, <1>3, <1>4, MadeIsNotUnmade
    <2>2. journal'.latest = journal.latest /\ ~journal'.torn
      BY <1>2, <1>11, <2>1 DEF Supplement!Kill, SupplementInv, JournalOK
    <2> QED
      BY <1>11, <2>2, BindsKept DEF Supplement!Kill
  <1>12. ASSUME NEW w \in Pool, Supplement!Download(w) \/ Supplement!Break(w)
         PROVE  FALSE
    BY <1>3, <1>4, <1>12
       DEF Supplement!Download, Supplement!Take, Supplement!Fetch, Supplement!Keep,
           Supplement!AppendRecord, Supplement!Break
  <1>13. CASE Supplement!Step
    <2>1. CASE Supplement!OpenQuery \/ Supplement!WriteQuery \/ Supplement!InspectArchive \/
               Supplement!CopyProof \/ Supplement!OpenState \/ Supplement!FetchPage
               \/ Supplement!WritePage \/ Supplement!CommitPage \/ Supplement!OpenPlan \/
                    Supplement!WritePlan
      BY <1>5, <2>1
         DEF Supplement!OpenQuery, Supplement!WriteQuery, Supplement!InspectArchive,
             Supplement!CopyProof, Supplement!OpenState, Supplement!FetchPage,
             Supplement!WritePage, Supplement!CommitPage, Supplement!OpenPlan,
             Supplement!WritePlan, Supplement!artwork
    <2> QED
      BY <1>6, <1>7, <1>8, <1>9, <1>10, <1>13, <2>1 DEF Supplement!Step
  <1>14. CASE Supplement!Change
    BY <1>5, <1>14 DEF Supplement!Change, Supplement!artwork
  <1>15. ASSUME NEW a \in ArtworkArchives, NEW retry \in BOOLEAN, Supplement!Begin(a, retry)
         PROVE  Binds'
    BY <1>5, <1>15 DEF Supplement!Begin, Supplement!artwork
  <1>16. CASE UNCHANGED Supplement!vars
    BY <1>5, <1>16 DEF Supplement!vars, Supplement!artwork
  <1>17. CASE Supplement!Enrich
    BY <1>15, <1>17 DEF Supplement!Enrich
  <1>18. CASE Supplement!Repeat
    BY <1>15, <1>18 DEF Supplement!Repeat
  <1>19. ~Supplement!Restart
    BY BindsIsAccepted DEF Supplement!Restart
  <1> QED
    BY <1>11, <1>12, <1>13, <1>14, <1>16, <1>17, <1>18, <1>19
       DEF Supplement!Next, Supplement!Disturb, Supplement!Finished

\* A manifest that says complete is of what a run has seen to.
LEMMA CompleteBinds ==
    ASSUME Supplement!DropSupplementAssumption, SupplementInv, faults \in Nat,
           [Supplement!Next]_Supplement!vars,
           Supplement!At("manifest"), command' = Supplement!Idle, faults' = faults,
           manifest'.complete
    PROVE  Binds'
  <1>1. command.step = "manifest" /\ command # Supplement!Idle /\ Supplement!Idle.step = "idle"
    BY DEF Supplement!At, Supplement!Idle
  <1>2. todo = {} /\ \A w \in Pool : jobs[w] = Supplement!Idle
    BY <1>1 DEF SupplementInv, PoolOK
  <1>3. Supplement!WriteManifest
    <2>1. ~Supplement!Kill /\ ~Supplement!Repeat
      <3>1. CASE Supplement!Kill \/ Supplement!Repeat
        <4>1. faults' = faults + 1
          BY <3>1 DEF Supplement!Kill, Supplement!Repeat
        <4> QED
          BY <4>1
      <3> QED
        BY <3>1
    <2>2. ~Supplement!Enrich /\ ~Supplement!Restart /\ ~Supplement!Change /\
          ~Supplement!Finished /\ ~UNCHANGED Supplement!vars
      BY <1>1
         DEF Supplement!Enrich, Supplement!Begin, Supplement!Restart, Supplement!Change,
             Supplement!Finished, Supplement!vars
    <2>3. \A w \in Pool : ~Supplement!Download(w) /\ ~Supplement!Break(w)
      BY <1>1, <1>2
         DEF Supplement!Download, Supplement!Take, Supplement!Fetch, Supplement!Keep,
             Supplement!AppendRecord, Supplement!Break
    <2>4. Supplement!Step
      BY <2>1, <2>2, <2>3 DEF Supplement!Next, Supplement!Disturb
    <2> QED
      BY <1>1, <2>4
         DEF Supplement!Step, Supplement!At, Supplement!OpenQuery, Supplement!WriteQuery,
             Supplement!InspectArchive, Supplement!CopyProof, Supplement!OpenState,
             Supplement!FetchPage, Supplement!WritePage, Supplement!CommitPage,
             Supplement!Normalize, Supplement!WriteCatalog, Supplement!OpenPlan,
             Supplement!WritePlan, Supplement!OpenCheckpoint, Supplement!WriteReferences
  <1>4. /\ manifest' = [made |-> TRUE, archive |-> command.archive, raw |-> progress.pages,
                        files |-> files, plan |-> frozen.plan,
                        copies |-> Supplement!ProofsOf(command.archive),
                        complete |-> \A d \in NamedDrops :
                        files.references[d].status \notin Supplement!Incomplete]
        /\ UNCHANGED <<journal, files>>
    BY <1>3 DEF Supplement!WriteManifest, Supplement!artwork
  <1>5. manifest'.files = files /\ manifest'.archive = command.archive /\ manifest'.made
    BY <1>4
  <1>6. manifest' # Supplement!NoManifest
    BY <1>5 DEF Supplement!NoManifest
  <1>7. ~journal.torn
    BY <1>1 DEF SupplementInv, RunIsAhead, Pooled
  <1>8. ASSUME NEW d \in NamedDrops \ command.archive.manifest
        PROVE  files.references[d] = journal.latest[d] /\ ~Supplement!Unproven(journal.latest[d])
    BY <1>1, <1>2 DEF SupplementInv, ReferencesOK, PoolOK, Waiting, Pooled
  <1> QED
    BY <1>4, <1>5, <1>6, <1>7, <1>8 DEF Binds

-----------------------------------------------------------------------------
(* The Collections.                                                          *)

\* The instance has its own copy of the operators of FiniteSets.
LEMMA SameNumbers ==
    ASSUME NEW S
    PROVE  /\ Collections!IsFiniteSet(S) <=> IsFiniteSet(S)
           /\ Collections!Cardinality(S) = Cardinality(S)
  <1>1. \A T : Collections!IsFiniteSet(T) <=> IsFiniteSet(T)
    BY DEF Collections!IsFiniteSet, IsFiniteSet
  <1> QED
    BY <1>1 DEF Collections!Cardinality, Cardinality, Collections!IsFiniteSet, IsFiniteSet

\* Some number of a set is the least.
LEMMA LeastIsThere ==
    ASSUME NEW W \in SUBSET Nat, W # {}
    PROVE  \E w \in W : \A v \in W : w <= v
  <1>1. PICK w \in W : \A v \in W : <<v, w>> \notin OpToRel(<, Nat)
    BY NatLessThanWellFounded, WFMin
  <1>2. \A v \in W : ~(v < w)
    BY <1>1 DEF OpToRel
  <1>3. \A v \in W : v \in Nat
    OBVIOUS
  <1> QED
    BY <1>2, <1>3

LEMMA LowestOf ==
    ASSUME NEW W \in SUBSET Nat, W # {}
    PROVE  Collections!Min(W) \in W /\ \A v \in W : Collections!Min(W) <= v
  BY LeastIsThere DEF Collections!Min

\* Of finitely many numbers the greatest is the one with most of them up to it.
LEMMA HighestOf ==
    ASSUME NEW S \in SUBSET Nat, IsFiniteSet(S), S # {}
    PROVE  Collections!Max(S) \in S /\ \A v \in S : v <= Collections!Max(S)
  <1> DEFINE UpTo(x) == {y \in S : y <= x}
             N == Cardinality(S)
             W == {n \in Nat : \E x \in S : n = N - Cardinality(UpTo(x))}
  <1>1. \A v \in S : v \in Nat
    OBVIOUS
  <1>2. ASSUME NEW x \in S
        PROVE  IsFiniteSet(UpTo(x)) /\ Cardinality(UpTo(x)) \in Nat /\ Cardinality(UpTo(x)) <= N
    <2>1. UpTo(x) \in SUBSET S
      OBVIOUS
    <2> QED
      BY <2>1, FS_Subset, FS_CardinalityType
  <1>3. N \in Nat
    BY FS_CardinalityType
  <1>4. ASSUME NEW x \in S, NEW y \in S, x < y
        PROVE  Cardinality(UpTo(x)) < Cardinality(UpTo(y))
    <2>1. y \in UpTo(y) /\ y \notin UpTo(x)
      BY <1>1, <1>4
    <2>2. UpTo(x) \in SUBSET UpTo(y)
      <3>1. \A z \in S : z <= x => z <= y
        BY <1>1, <1>4
      <3> QED
        BY <3>1
    <2>3. /\ Cardinality(UpTo(x)) <= Cardinality(UpTo(y))
          /\ Cardinality(UpTo(x)) # Cardinality(UpTo(y))
      BY <1>2, <2>1, <2>2, FS_Subset
    <2> HIDE DEF UpTo
    <2> QED
      BY <1>2, <2>3
  <1> HIDE DEF UpTo, N
  <1>5. W # {}
    <2>1. PICK x \in S : TRUE
      OBVIOUS
    <2>2. N - Cardinality(UpTo(x)) \in Nat
      BY <1>2, <1>3
    <2> QED
      BY <2>1, <2>2
  <1>6. PICK w \in W : \A v \in W : w <= v
    BY <1>5, LeastIsThere
  <1>7. PICK x \in S : w = N - Cardinality(UpTo(x))
    BY <1>6
  <1>8. \A v \in S : v <= x
    <2> SUFFICES ASSUME NEW v \in S, x < v PROVE FALSE
      BY <1>1
    <2>1. N - Cardinality(UpTo(v)) \in W
      BY <1>2, <1>3
    <2> HIDE DEF W
    <2> QED
      BY <1>2, <1>3, <1>4, <1>6, <1>7, <2>1
  <1> QED
    BY <1>1, <1>8 DEF Collections!Max

\* The rows of the committed pages of a table.
Kept(e) == UNION {pages[e][k] : k \in 1 .. progress[e].pages}

Latest == Collections!Current
Reached == progress[Latest]
TableStates ==
    [made : BOOLEAN, upper : Nat, expected : Int, cursor : Nat, rows : Nat, pages : Nat,
     complete : BOOLEAN]

\* The source and the files.
FilesOK ==
    /\ src \in [tables : [Collections!Tables ->
                               SUBSET UNION {CollectionRows[e] : e \in Collections!Tables}],
                drops : SUBSET Collections!Drops]
    /\ \A e \in Collections!Tables : src.tables[e] \subseteq CollectionRows[e]
    /\ progress \in [Collections!Tables -> TableStates]
    /\ pages = [e \in Collections!Tables |-> pages[e]]
    /\ \A e \in Collections!Tables : pages[e] \in Seq(SUBSET CollectionRows[e])
    /\ verified \in BOOLEAN /\ moves \in 0 .. MaxChanges /\ faults \in 0 .. MaxTableFaults

\* The state of a table is that of its committed pages, which hold what stood at the
\* source up to its cursor.
TablesOK ==
    \A e \in Collections!Tables :
        /\ progress[e].pages <= Len(pages[e]) /\ Len(pages[e]) <= progress[e].pages + 1
        /\ Cardinality(Kept(e)) = progress[e].rows
        /\ \A r \in Kept(e) : r <= progress[e].cursor
        /\ progress[e].rows > 0 => progress[e].cursor \in Kept(e)
        /\ ~progress[e].made => progress[e] = Collections!Unstarted /\ pages[e] = <<>>
        /\ ~manifest.made => standing[e] \subseteq src.tables[e]
        /\ progress[e].made =>
              \A r \in standing[e] :
                  r <= progress[e].upper /\ (r <= progress[e].cursor => r \in Kept(e))
        /\ progress[e].complete => progress[e].made /\ standing[e] \subseteq Kept(e)

\* A page in hand goes on where the cursor ends, without leaving a standing row out.
PageOK(got) ==
    /\ got \subseteq CollectionRows[Latest]
    /\ \A q \in got : Reached.cursor < q
    /\ \A r \in standing[Latest] : Reached.cursor < r /\ r \notin got =>
          got # {} /\ \A q \in got : q < r

ProcOK ==
    /\ manifest.made => proc = Collections!Stopped
    /\ proc.step = "bound" =>
          /\ ~Collections!AllCaptured /\ ~Reached.made
          /\ proc.upper \in Nat /\ \A r \in standing[Latest] : r <= proc.upper
    /\ proc.step \in {"page", "commit"} =>
          /\ proc = [step |-> proc.step, got |-> proc.got]
          /\ ~Collections!AllCaptured /\ Reached.made /\ PageOK(proc.got)
    /\ proc.step = "commit" =>
          /\ proc.got # {} /\ Len(pages[Latest]) = Reached.pages + 1
          /\ pages[Latest][Reached.pages + 1] = proc.got
    /\ proc.step = "drops" =>
          proc = [step |-> proc.step, asked |-> proc.asked, got |-> proc.got]

\* A manifest is of the files as they are, and what was verified stays.
VerdictOK ==
    /\ manifest.made =>
          /\ Collections!AllCaptured
          /\ \A e \in Collections!Tables : /\ manifest.rows[e] = Collections!Normalized(e)
                               /\ manifest.counts[e] = progress[e].rows
    /\ verified => /\ manifest.made /\ Collections!CountsAgree /\ Collections!RelationsHold
                   /\ Collections!UnionHolds

CollectionsInv == FilesOK /\ TablesOK /\ ProcOK /\ VerdictOK

LEMMA TheCurrentTable ==
    ASSUME Collections!CollectionsCaptureAssumption, ~Collections!AllCaptured
    PROVE  Latest \in Collections!Tables /\ ~Reached.complete
  <1> DEFINE W == {i \in DOMAIN CollectionTables : Collections!Open(CollectionTables[i])}
  <1>1. CollectionTables \in Seq(Collections!Tables)
    BY DEF Collections!CollectionsCaptureAssumption
  <1>2. W \in SUBSET Nat
    BY <1>1
  <1>3. W # {}
    <2>1. PICK e \in Collections!Tables : Collections!Open(e)
      BY DEF Collections!AllCaptured
    <2>2. PICK i \in DOMAIN CollectionTables : CollectionTables[i] = e
      BY <2>1 DEF Collections!Tables, Collections!Range
    <2> QED
      BY <2>1, <2>2
  <1>4. Collections!Min(W) \in W
    BY <1>2, <1>3, LowestOf
  <1>5. Latest = CollectionTables[Collections!Min(W)]
    BY DEF Latest, Collections!Current
  <1> HIDE DEF W
  <1>6. Collections!Min(W) \in DOMAIN CollectionTables /\ Collections!Open(Latest)
    BY <1>4, <1>5 DEF W
  <1> QED
    BY <1>1, <1>5, <1>6 DEF Collections!Open, Reached

\* What is kept of a table is what its state commits.
LEMMA KeptIsCommitted ==
    ASSUME FilesOK, TablesOK, NEW e \in Collections!Tables
    PROVE  /\ Kept(e) = UNION Collections!Range(SubSeq(pages[e], 1, progress[e].pages))
           /\ Kept(e) \subseteq Collections!Normalized(e)
           /\ Collections!Normalized(e) \subseteq CollectionRows[e]
  <1> DEFINE n == progress[e].pages
             s == pages[e]
             u == SubSeq(s, 1, n)
  <1>1. s \in Seq(SUBSET CollectionRows[e]) /\ n \in Nat /\ n <= Len(s)
    BY DEF FilesOK, TablesOK, TableStates
  <1> DEFINE S == SUBSET CollectionRows[e]
  <1>2. /\ n \in Int /\ \A k \in 1 .. n : s[k] \in S
    BY <1>1
  <1>3. /\ u \in Seq(S) /\ Len(u) = IF 1 <= n THEN n - 1 + 1 ELSE 0
        /\ \A k \in 1 .. n - 1 + 1 : u[k] = s[1 + k - 1]
    <2> HIDE DEF s, n, S
    <2> QED
      BY <1>2, SubSeqProperties
  <1>4. Len(u) = n /\ DOMAIN u = 1 .. n
    BY <1>1, <1>3
  <1>5. \A k \in 1 .. n : u[k] = s[k]
    <2> HIDE DEF u
    <2> TAKE k \in 1 .. n
    <2>1. k \in 1 .. n - 1 + 1 /\ 1 + k - 1 = k
      BY <1>1
    <2> QED
      BY <1>3, <2>1
  <1>6. Collections!Range(u) = {s[k] : k \in 1 .. n}
    <2> HIDE DEF u, s, n
    <2> QED
      BY <1>4, <1>5 DEF Collections!Range
  <1>7. Kept(e) \subseteq Collections!Normalized(e)
    <2>1. \A k \in 1 .. n : s[k] \in Collections!Range(s)
      BY <1>1 DEF Collections!Range
    <2> QED
      BY <2>1 DEF Kept, Collections!Normalized
  <1>8. Collections!Normalized(e) \subseteq CollectionRows[e]
    BY <1>1 DEF Collections!Normalized, Collections!Range
  <1> QED
    BY <1>6, <1>7, <1>8 DEF Kept

-----------------------------------------------------------------------------
(* The steps.                                                                *)

\* Only the command has gone on.
LEMMA CommandGoesOn ==
    ASSUME CollectionsInv,
           UNCHANGED <<src, progress, pages, manifest, verified, standing, moves>>,
           faults' \in 0 .. MaxTableFaults, ProcOK'
    PROVE  CollectionsInv'
  <1>1. FilesOK'
    BY DEF CollectionsInv, FilesOK
  <1>2. TablesOK'
    <2>1. \A e : Kept(e)' = Kept(e)
      BY DEF Kept
    <2>2. TablesOK
      BY DEF CollectionsInv
    <2> QED
      BY <2>1, <2>2 DEF TablesOK
  <1>3. VerdictOK'
    BY DEF CollectionsInv, VerdictOK, Collections!AllCaptured, Collections!Open,
           Collections!Normalized, Collections!CountsAgree, Collections!RelationsHold,
           Collections!UnionHolds
  <1> QED
    BY <1>1, <1>2, <1>3 DEF CollectionsInv

LEMMA NothingInHand ==
    ASSUME manifest'.made => proc' = Collections!Stopped,
           proc'.step \notin {"bound", "page", "commit", "drops"}
    PROVE  ProcOK'
  BY DEF ProcOK

\* A state of a table that its page files bear out.
BorneOut(c, st) ==
    LET K == UNION {pages[c][k] : k \in 1 .. st.pages}
    IN /\ st.pages <= Len(pages[c]) /\ Len(pages[c]) <= st.pages + 1
       /\ Cardinality(K) = st.rows
       /\ \A r \in K : r <= st.cursor
       /\ st.rows > 0 => st.cursor \in K
       /\ st.made
       /\ \A r \in standing[c] : r <= st.upper /\ (r <= st.cursor => r \in K)
       /\ st.complete => standing[c] \subseteq K

\* The state of one table has gone on.
LEMMA OneTableGoesOn ==
    ASSUME CollectionsInv, ~manifest.made, NEW c \in Collections!Tables, NEW st \in TableStates,
           BorneOut(c, st),
           UNCHANGED <<src, pages, manifest, verified, standing, moves, faults>>,
           progress' = [progress EXCEPT ![c] = st], proc' = [step |-> "run"]
    PROVE  CollectionsInv'
  <1> DEFINE K == UNION {pages[c][k] : k \in 1 .. st.pages}
  <1>1. progress \in [Collections!Tables -> TableStates]
    BY DEF CollectionsInv, FilesOK
  <1>2. /\ progress' \in [Collections!Tables -> TableStates] /\ progress'[c] = st
        /\ \A e \in Collections!Tables \ {c} : progress'[e] = progress[e]
    BY <1>1
  <1>3. FilesOK'
    BY <1>2 DEF CollectionsInv, FilesOK
  <1>4. /\ Kept(c)' = K
        /\ \A e \in Collections!Tables \ {c} : Kept(e)' = Kept(e)
    BY <1>2 DEF Kept
  <1>5. TablesOK'
    <2> SUFFICES ASSUME NEW e \in Collections!Tables
                 PROVE  /\ progress'[e].pages <= Len(pages[e])
                        /\ Len(pages[e]) <= progress'[e].pages + 1
                        /\ Cardinality(Kept(e)') = progress'[e].rows
                        /\ \A r \in Kept(e)' : r <= progress'[e].cursor
                        /\ progress'[e].rows > 0 => progress'[e].cursor \in Kept(e)'
                        /\ ~progress'[e].made =>
                              progress'[e] = Collections!Unstarted /\ pages[e] = <<>>
                        /\ ~manifest.made => standing[e] \subseteq src.tables[e]
                        /\ progress'[e].made =>
                              \A r \in standing[e] :
                                 /\ r <= progress'[e].upper
                                 /\ r <= progress'[e].cursor => r \in Kept(e)'
                        /\ progress'[e].complete =>
                              progress'[e].made /\ standing[e] \subseteq Kept(e)'
      BY DEF TablesOK
    <2>1. CASE e = c
      BY <1>2, <1>4, <2>1 DEF CollectionsInv, TablesOK, BorneOut
    <2>2. CASE e # c
      <3>1. progress'[e] = progress[e] /\ Kept(e)' = Kept(e)
        BY <1>2, <1>4, <2>2
      <3> QED
        BY <3>1 DEF CollectionsInv, TablesOK
    <2> QED
      BY <2>1, <2>2
  <1>6. ProcOK'
    BY NothingInHand
  <1>7. VerdictOK'
    BY DEF CollectionsInv, VerdictOK
  <1> QED
    BY <1>3, <1>5, <1>6, <1>7 DEF CollectionsInv

LEMMA BoundKeeps ==
    ASSUME Collections!CollectionsCaptureAssumption, CollectionsInv, Collections!FetchBound
    PROVE  CollectionsInv'
  <1> USE DEF Collections!FetchBound
  <1> DEFINE S == src.tables[Latest]
  <1>1. Latest \in Collections!Tables
    BY TheCurrentTable
  <1>2. ~manifest.made
    BY DEF CollectionsInv, ProcOK, Collections!Stopped
  <1>3. standing[Latest] \subseteq S /\ S \subseteq CollectionRows[Latest]
    BY <1>1, <1>2 DEF CollectionsInv, TablesOK, FilesOK
  <1>4. S \in SUBSET Nat /\ IsFiniteSet(S)
    <2>1. CollectionRows[Latest] \subseteq Nat \ {0} /\ IsFiniteSet(CollectionRows[Latest])
      BY <1>1, SameNumbers DEF Collections!CollectionsCaptureAssumption
    <2>2. S \in SUBSET CollectionRows[Latest]
      BY <1>3
    <2> QED
      BY <2>1, <2>2, FS_Subset
  <1>5. proc' = [step |-> "bound", upper |-> IF S = {} THEN 0 ELSE Collections!Max(S)]
    BY DEF Latest
  <1> HIDE DEF S
  <1>6. /\ proc'.step = "bound" /\ proc'.upper \in Nat
        /\ \A r \in standing[Latest] : r <= proc'.upper
    <2>1. CASE S = {}
      BY <1>3, <1>5, <2>1
    <2>2. CASE S # {}
      <3>1. proc'.step = "bound" /\ proc'.upper = Collections!Max(S)
        BY <1>5, <2>2
      <3>2. Collections!Max(S) \in S /\ \A v \in S : v <= Collections!Max(S)
        BY <1>4, <2>2, HighestOf
      <3> QED
        BY <1>3, <1>4, <3>1, <3>2
    <2> QED
      BY <2>1, <2>2
  <1>7. UNCHANGED <<Latest, Reached>> /\ (Collections!AllCaptured)' = Collections!AllCaptured
    BY DEF Latest, Reached, Collections!Current, Collections!Open, Collections!AllCaptured
  <1>8. ProcOK'
    BY <1>2, <1>6, <1>7 DEF ProcOK, Reached, Latest
  <1> QED
    BY <1>8, CommandGoesOn DEF CollectionsInv, FilesOK

LEMMA CountKeeps ==
    ASSUME Collections!CollectionsCaptureAssumption, CollectionsInv, Collections!FetchCount
    PROVE  CollectionsInv'
  <1> DEFINE x == IF proc.upper = 0 THEN 0
                  ELSE IF Latest \in CountedTables
                  THEN Collections!Cardinality(Collections!Below(Latest, proc.upper))
                  ELSE -1
             b == proc.upper = 0
             st == [Collections!Unstarted EXCEPT !.made = TRUE, !.upper = proc.upper,
                       !.expected = x, !.complete = b]
             K == UNION {pages[Latest][k] : k \in 1 .. st.pages}
  <1>1. /\ ~Collections!AllCaptured /\ ~Reached.made
        /\ proc.upper \in Nat /\ \A r \in standing[Latest] : r <= proc.upper
        /\ ~manifest.made
    BY DEF CollectionsInv, ProcOK, Collections!Stopped, Collections!FetchCount
  <1>2. Latest \in Collections!Tables
    BY <1>1, TheCurrentTable
  <1>3. x \in Int
    <2>1. Collections!Cardinality(Collections!Below(Latest, proc.upper)) \in Nat
      <3>1. IsFiniteSet(CollectionRows[Latest]) /\
            src.tables[Latest] \subseteq CollectionRows[Latest]
        BY <1>2, SameNumbers
           DEF Collections!CollectionsCaptureAssumption, CollectionsInv, FilesOK
      <3>2. Collections!Below(Latest, proc.upper) \in SUBSET CollectionRows[Latest]
        BY <3>1 DEF Collections!Below
      <3> QED
        BY <3>1, <3>2, SameNumbers, FS_Subset, FS_CardinalityType
    <2> QED
      BY <2>1
  <1>4. /\ progress' = [progress EXCEPT ![Latest] = st] /\ proc' = [step |-> "run"]
        /\ UNCHANGED <<src, pages, manifest, verified, standing, moves, faults>>
    BY DEF Collections!FetchCount, Latest
  <1>5. /\ st \in TableStates /\ st.made /\ st.upper = proc.upper /\ st.complete = b
        /\ st.cursor = 0 /\ st.rows = 0 /\ st.pages = 0
    <2>1. /\ Collections!Unstarted \in TableStates /\ Collections!Unstarted.cursor = 0
          /\ Collections!Unstarted.rows = 0 /\ Collections!Unstarted.pages = 0
      BY DEF Collections!Unstarted, TableStates
    <2>2. b \in BOOLEAN
      OBVIOUS
    <2> DEFINE s == Collections!Unstarted
               y == proc.upper
    <2>3. s \in TableStates /\ y \in Nat /\ x \in Int /\ b \in BOOLEAN
      BY <1>1, <1>3, <2>1, <2>2
    <2> HIDE DEF x, b, s, y
    <2>4. LET u == [s EXCEPT !.made = TRUE, !.upper = y, !.expected = x, !.complete = b]
          IN /\ u \in TableStates /\ u.made /\ u.upper = y /\ u.complete = b
             /\ u.cursor = s.cursor /\ u.rows = s.rows /\ u.pages = s.pages
      BY <2>3 DEF TableStates
    <2> QED
      BY <2>1, <2>4 DEF s, y
  <1> HIDE DEF x, st
  <1>6. pages[Latest] = <<>> /\ standing[Latest] \subseteq CollectionRows[Latest]
    BY <1>1, <1>2 DEF CollectionsInv, TablesOK, FilesOK, Reached
  <1>7. \A r \in standing[Latest] : r \in Nat \ {0}
    BY <1>2, <1>6 DEF Collections!CollectionsCaptureAssumption
  <1>8. K = {} /\ Cardinality(K) = 0
    BY <1>5, FS_EmptySet
  <1>9. Len(pages[Latest]) = 0
    BY <1>6
  <1>10. /\ \A r \in standing[Latest] : r <= st.upper /\ (r <= st.cursor => r \in K)
         /\ st.complete => standing[Latest] \subseteq K
    <2>1. ASSUME NEW r \in standing[Latest]
          PROVE  r <= st.upper /\ ~(r <= st.cursor) /\ ~st.complete
      <3>1. r \in Nat \ {0} /\ r <= proc.upper
        BY <1>1, <1>7
      <3>2. proc.upper # 0
        BY <1>1, <3>1
      <3>3. ~st.complete
        BY <1>5, <3>2
      <3> QED
        BY <1>5, <3>1, <3>3
    <2> HIDE DEF K
    <2> QED
      BY <2>1
  <1>11. /\ Cardinality(K) = st.rows /\ (\A r \in K : r <= st.cursor)
         /\ (st.rows > 0 => st.cursor \in K)
    BY <1>5, <1>8
  <1>12. st.pages <= Len(pages[Latest]) /\ Len(pages[Latest]) <= st.pages + 1
    BY <1>5, <1>9
  <1>13. BorneOut(Latest, st)
    BY <1>5, <1>10, <1>11, <1>12 DEF BorneOut
  <1> QED
    BY <1>1, <1>2, <1>4, <1>5, <1>13, OneTableGoesOn

\* A page below the bound leaves out only what comes after it.
LEMMA PagesAreTheFirst ==
    ASSUME Collections!CollectionsCaptureAssumption, NEW S \in SUBSET Nat, IsFiniteSet(S),
           NEW r \in S, Collections!Cardinality({q \in S : q < r}) >= CollectionPage,
           NEW got, got = {q \in S : Collections!Cardinality({o \in S : o < q}) < CollectionPage}
    PROVE  got # {} /\ \A q \in got : q < r
  <1> DEFINE Before(x) == {q \in S : q < x}
  <1>1. \A x \in S : x \in Nat
    OBVIOUS
  <1>2. /\ \A x \in S : IsFiniteSet(Before(x)) /\ Cardinality(Before(x)) \in Nat
        /\ \A x \in S : Collections!Cardinality(Before(x)) = Cardinality(Before(x))
    <2> SUFFICES ASSUME NEW x \in S
                 PROVE  /\ IsFiniteSet(Before(x)) /\ Cardinality(Before(x)) \in Nat
                        /\ Collections!Cardinality(Before(x)) = Cardinality(Before(x))
      OBVIOUS
    <2>1. Before(x) \in SUBSET S
      OBVIOUS
    <2> QED
      BY <2>1, FS_Subset, FS_CardinalityType, SameNumbers
  <1>3. CollectionPage \in Nat \ {0}
    BY DEF Collections!CollectionsCaptureAssumption
  <1>4. got # {}
    <2>1. PICK m \in S : \A v \in S : m <= v
      BY LeastIsThere
    <2>2. Before(m) = {}
      <3> SUFFICES ASSUME NEW q \in S, q < m PROVE FALSE
        OBVIOUS
      <3>1. q \in Nat /\ m \in Nat /\ m <= q
        BY <1>1, <2>1
      <3> QED
        BY <3>1
    <2>3. Cardinality(Before(m)) = 0
      BY <2>2, FS_EmptySet
    <2> HIDE DEF Before
    <2>4. Collections!Cardinality(Before(m)) < CollectionPage
      BY <1>2, <1>3, <2>1, <2>3
    <2> QED
      BY <2>1, <2>4 DEF Before
  <1>5. ASSUME NEW q \in got PROVE q < r
    <2>1. q \in S /\ Collections!Cardinality(Before(q)) < CollectionPage
      OBVIOUS
    <2>2. Collections!Cardinality(Before(r)) >= CollectionPage
      OBVIOUS
    <2> SUFFICES ASSUME r <= q PROVE FALSE
      BY <1>1, <2>1
    <2>3. Before(r) \in SUBSET Before(q)
      <3>1. \A o \in S : o < r => o < q
        BY <1>1, <2>1
      <3> QED
        BY <3>1
    <2>4. Cardinality(Before(r)) <= Cardinality(Before(q))
      BY <1>2, <2>1, <2>3, FS_Subset
    <2> HIDE DEF Before
    <2> QED
      BY <1>2, <1>3, <2>1, <2>2, <2>4
  <1> QED
    BY <1>4, <1>5

LEMMA FetchPageGoesOn ==
    ASSUME Collections!CollectionsCaptureAssumption, CollectionsInv, Collections!FetchPage
    PROVE  CollectionsInv'
  <1> DEFINE S == {r \in Collections!Below(Latest, Reached.upper) : r > Reached.cursor}
             got == Collections!PageAfter(Latest, Reached.cursor, Reached.upper)
  <1>1. /\ ~manifest.made /\ ~Collections!AllCaptured /\ Reached.made
        /\ proc' = [step |-> "page", got |-> got]
        /\ UNCHANGED <<src, progress, pages, manifest, verified, standing, moves, faults>>
    BY DEF CollectionsInv, ProcOK, Collections!Stopped, Collections!FetchPage, Latest, Reached
  <1>2. Latest \in Collections!Tables
    BY <1>1, TheCurrentTable
  <1>3. src.tables[Latest] \subseteq CollectionRows[Latest]
    BY <1>2 DEF CollectionsInv, FilesOK
  <1>4. IsFiniteSet(CollectionRows[Latest]) /\ CollectionRows[Latest] \subseteq Nat \ {0}
    BY <1>2, SameNumbers DEF Collections!CollectionsCaptureAssumption
  <1>5. S \in SUBSET CollectionRows[Latest]
    BY <1>3 DEF Collections!Below
  <1>6. S \in SUBSET Nat /\ IsFiniteSet(S)
    BY <1>4, <1>5, FS_Subset
  <1>7. got = {q \in S : Collections!Cardinality({o \in S : o < q}) < CollectionPage}
    BY DEF Collections!PageAfter
  <1>8. Reached.cursor \in Nat
    BY <1>2 DEF CollectionsInv, FilesOK, Reached, TableStates
  <1>9. \A q \in S : Reached.cursor < q
    BY <1>6, <1>8
  <1>10. ASSUME NEW r \in standing[Latest], Reached.cursor < r, r \notin got
         PROVE  got # {} /\ \A q \in got : q < r
    <2>1. r \in src.tables[Latest] /\ r <= Reached.upper
      BY <1>1, <1>2 DEF CollectionsInv, TablesOK, Reached
    <2>2. r \in S
      BY <1>3, <1>4, <1>8, <1>10, <2>1 DEF Collections!Below
    <2> HIDE DEF S, got
    <2>3. Collections!Cardinality({o \in S : o < r}) >= CollectionPage
      <3>1. ~(Collections!Cardinality({o \in S : o < r}) < CollectionPage)
        BY <1>7, <1>10, <2>2
      <3>2. {o \in S : o < r} \in SUBSET S
        OBVIOUS
      <3>3. Collections!Cardinality({o \in S : o < r}) \in Nat
        BY <1>6, <3>2, FS_Subset, FS_CardinalityType, SameNumbers
      <3> QED
        BY <3>1, <3>3 DEF Collections!CollectionsCaptureAssumption
    <2> QED
      BY <1>6, <1>7, <2>2, <2>3, PagesAreTheFirst
  <1> HIDE DEF S, got
  <1>11. PageOK(got)
    BY <1>5, <1>7, <1>9, <1>10 DEF PageOK
  <1>12. /\ proc'.step = "page" /\ proc'.got = got
         /\ proc' = [step |-> proc'.step, got |-> proc'.got]
    BY <1>1
  <1>13. /\ UNCHANGED <<Latest, Reached>>
         /\ (Collections!AllCaptured)' = Collections!AllCaptured
    BY <1>1
       DEF Latest, Reached, Collections!Current, Collections!Open, Collections!AllCaptured
  <1>14. ProcOK'
    BY <1>1, <1>11, <1>12, <1>13 DEF ProcOK, PageOK
  <1> QED
    BY <1>1, <1>14, CommandGoesOn DEF CollectionsInv, FilesOK

\* What a page in hand is.
LEMMA PageInTheHand ==
    ASSUME Collections!CollectionsCaptureAssumption, CollectionsInv,
           proc.step \in {"page", "commit"}
    PROVE  /\ ~manifest.made /\ Latest \in Collections!Tables /\ Reached \in TableStates
           /\ Reached = progress[Latest] /\ Reached.made /\ PageOK(proc.got)
           /\ proc = [step |-> proc.step, got |-> proc.got]
           /\ IsFiniteSet(proc.got) /\ proc.got \in SUBSET Nat
           /\ pages[Latest] \in Seq(SUBSET CollectionRows[Latest])
           /\ IsFiniteSet(Kept(Latest)) /\ Kept(Latest) \in SUBSET Nat
  <1>1. ~manifest.made /\ ~Collections!AllCaptured /\ Reached.made /\ PageOK(proc.got) /\
        proc = [step |-> proc.step, got |-> proc.got]
    BY DEF CollectionsInv, ProcOK, Collections!Stopped
  <1>2. Latest \in Collections!Tables
    BY <1>1, TheCurrentTable
  <1>3. Reached = progress[Latest] /\ Reached \in TableStates /\
        pages[Latest] \in Seq(SUBSET CollectionRows[Latest])
    BY <1>2 DEF CollectionsInv, FilesOK, Reached
  <1>4. IsFiniteSet(CollectionRows[Latest]) /\ CollectionRows[Latest] \subseteq Nat
    BY <1>2, SameNumbers DEF Collections!CollectionsCaptureAssumption
  <1>5. proc.got \in SUBSET CollectionRows[Latest]
    BY <1>1 DEF PageOK
  <1>6. Kept(Latest) \in SUBSET CollectionRows[Latest]
    BY <1>2, KeptIsCommitted DEF CollectionsInv
  <1>7. IsFiniteSet(proc.got) /\ IsFiniteSet(Kept(Latest))
    BY <1>4, <1>5, <1>6, FS_Subset
  <1> QED
    BY <1>1, <1>2, <1>3, <1>4, <1>5, <1>6, <1>7

LEMMA EndKeeps ==
    ASSUME Collections!CollectionsCaptureAssumption, CollectionsInv, Collections!EndOfTable
    PROVE  CollectionsInv'
  <1>1. proc.step = "page" /\ proc.got = {}
    BY DEF Collections!EndOfTable
  <1>2. /\ ~manifest.made /\ Latest \in Collections!Tables /\ Reached \in TableStates
        /\ Reached = progress[Latest] /\ Reached.made /\ PageOK({})
    BY <1>1, PageInTheHand
  <1>3. UNCHANGED <<src, pages, manifest, verified, standing, moves, faults>>
    BY DEF Collections!EndOfTable
  <1>4. CASE progress' = progress /\ proc' = Collections!Stopped
    <2>1. ProcOK'
      BY <1>2, <1>3, <1>4, NothingInHand DEF Collections!Stopped
    <2> QED
      BY <1>3, <1>4, <2>1, CommandGoesOn DEF CollectionsInv, FilesOK
  <1>5. CASE progress' = [progress EXCEPT ![Latest].complete = TRUE] /\ proc' = [step |-> "run"]
    <2> DEFINE st == [Reached EXCEPT !.complete = TRUE]
               K == UNION {pages[Latest][k] : k \in 1 .. st.pages}
    <2>1. progress' = [progress EXCEPT ![Latest] = st]
      BY <1>2, <1>5
    <2>2. /\ st \in TableStates /\ st.made /\ st.upper = Reached.upper
          /\ st.cursor = Reached.cursor /\ st.rows = Reached.rows /\ st.pages = Reached.pages
      BY <1>2 DEF TableStates
    <2> HIDE DEF st
    <2>3. K = Kept(Latest)
      BY <1>2, <2>2 DEF Kept
    <2> HIDE DEF K
    <2>4. /\ st.pages <= Len(pages[Latest]) /\ Len(pages[Latest]) <= st.pages + 1
          /\ Cardinality(K) = st.rows /\ (\A r \in K : r <= st.cursor)
          /\ (st.rows > 0 => st.cursor \in K)
          /\ \A r \in standing[Latest] : r <= st.upper /\ (r <= st.cursor => r \in K)
      BY <1>2, <2>2, <2>3 DEF CollectionsInv, TablesOK
    <2>5. standing[Latest] \subseteq K
      <3> SUFFICES ASSUME NEW r \in standing[Latest] PROVE r \in K
        OBVIOUS
      <3>1. ~(Reached.cursor < r)
        BY <1>2 DEF PageOK
      <3>2. r \in Nat /\ Reached.cursor \in Nat
        <4>1. standing[Latest] \subseteq CollectionRows[Latest]
          BY <1>2 DEF CollectionsInv, TablesOK, FilesOK
        <4>2. CollectionRows[Latest] \subseteq Nat
          BY <1>2 DEF Collections!CollectionsCaptureAssumption
        <4> QED
          BY <1>2, <4>1, <4>2 DEF TableStates
      <3> QED
        BY <2>2, <2>4, <3>1, <3>2
    <2>6. BorneOut(Latest, st)
      BY <2>2, <2>4, <2>5 DEF BorneOut, K
    <2> QED
      BY <1>2, <1>3, <1>5, <2>1, <2>2, <2>6, OneTableGoesOn
  <1> QED
    BY <1>4, <1>5 DEF Collections!EndOfTable, Latest

LEMMA WriteTableKeeps ==
    ASSUME Collections!CollectionsCaptureAssumption, CollectionsInv, Collections!WritePage
    PROVE  CollectionsInv'
  <1> DEFINE n == Reached.pages
             s == pages[Latest]
             got == proc.got
             start == SubSeq(s, 1, n)
             s2 == Append(start, got)
             R == SUBSET CollectionRows[Latest]
  <1>1. /\ proc.step = "page" /\ got # {} /\ pages' = [pages EXCEPT ![Latest] = s2]
        /\ proc' = [proc EXCEPT !.step = "commit"]
        /\ UNCHANGED <<src, progress, manifest, verified, standing, moves, faults>>
    BY DEF Collections!WritePage, Latest, Reached
  <1>2. /\ ~manifest.made /\ Latest \in Collections!Tables /\ Reached \in TableStates
        /\ Reached = progress[Latest] /\ Reached.made /\ PageOK(got)
        /\ proc = [step |-> proc.step, got |-> got] /\ s \in Seq(R)
    BY <1>1, PageInTheHand
  <1>3. got \in R /\ n \in Nat /\ n <= Len(s)
    BY <1>2 DEF PageOK, TableStates, CollectionsInv, TablesOK
  <1>4. /\ s2 \in Seq(R) /\ Len(s2) = n + 1 /\ s2[n + 1] = got
        /\ \A k \in 1 .. n : s2[k] = s[k]
    <2>1. n \in Int /\ \A k \in 1 .. n : s[k] \in R
      BY <1>2, <1>3
    <2> HIDE DEF s, n, R, got
    <2>2. /\ start \in Seq(R) /\ Len(start) = IF 1 <= n THEN n - 1 + 1 ELSE 0
          /\ \A k \in 1 .. n - 1 + 1 : start[k] = s[1 + k - 1]
      BY <2>1, SubSeqProperties
    <2>3. Len(start) = n
      BY <1>3, <2>2
    <2>4. \A k \in 1 .. n : start[k] = s[k]
      <3> HIDE DEF start
      <3> TAKE k \in 1 .. n
      <3>1. k \in 1 .. n - 1 + 1 /\ 1 + k - 1 = k
        BY <1>3
      <3> QED
        BY <2>2, <3>1
    <2> HIDE DEF start
    <2> QED
      BY <1>3, <2>2, <2>3, <2>4, AppendProperties
  <1> HIDE DEF s2, n, R
  <1>5. pages = [e \in Collections!Tables |-> pages[e]]
    BY DEF CollectionsInv, FilesOK
  <1>6. /\ pages' = [e \in Collections!Tables |-> pages'[e]] /\ pages'[Latest] = s2
        /\ \A e \in Collections!Tables \ {Latest} : pages'[e] = pages[e]
    BY <1>1, <1>2, <1>5
  <1>7. FilesOK'
    <2>1. \A e \in Collections!Tables : pages'[e] \in Seq(SUBSET CollectionRows[e])
      <3> TAKE e \in Collections!Tables
      <3>1. CASE e = Latest
        BY <1>4, <1>6, <3>1 DEF R
      <3>2. CASE e # Latest
        BY <1>6, <3>2 DEF CollectionsInv, FilesOK
      <3> QED
        BY <3>1, <3>2
    <2> QED
      BY <1>1, <1>6, <2>1 DEF CollectionsInv, FilesOK
  <1>8. \A e \in Collections!Tables : Kept(e)' = Kept(e)
    <2> TAKE e \in Collections!Tables
    <2>1. CASE e = Latest
      <3>1. progress'[e].pages = n
        BY <1>1, <1>2, <2>1 DEF n
      <3>2. \A k \in 1 .. n : pages'[e][k] = pages[e][k]
        BY <1>4, <1>6, <2>1
      <3> QED
        BY <1>1, <3>1, <3>2 DEF Kept
    <2>2. CASE e # Latest
      BY <1>1, <1>6, <2>2 DEF Kept
    <2> QED
      BY <2>1, <2>2
  <1>9. TablesOK'
    <2>1. ASSUME NEW e \in Collections!Tables
          PROVE  /\ progress[e].pages <= Len(pages'[e])
                 /\ Len(pages'[e]) <= progress[e].pages + 1
                 /\ ~progress[e].made =>
                      progress[e] = Collections!Unstarted /\ pages'[e] = <<>>
      <3>1. CASE e = Latest
        BY <1>2, <1>3, <1>4, <1>6, <3>1 DEF n
      <3>2. CASE e # Latest
        BY <1>6, <3>2 DEF CollectionsInv, TablesOK
      <3> QED
        BY <3>1, <3>2
    <2> QED
      BY <1>1, <1>8, <2>1 DEF CollectionsInv, TablesOK
  <1>10. /\ UNCHANGED <<Latest, Reached>>
         /\ (Collections!AllCaptured)' = Collections!AllCaptured
    BY <1>1
       DEF Latest, Reached, Collections!Current, Collections!Open, Collections!AllCaptured
  <1>11. /\ proc'.step = "commit" /\ proc'.got = got
         /\ proc' = [step |-> proc'.step, got |-> proc'.got]
    BY <1>1, <1>2
  <1>12. PageOK(got)'
    BY <1>1, <1>2, <1>10 DEF PageOK
  <1>13. ProcOK'
    <2>1. ~Collections!AllCaptured
      BY <1>1 DEF CollectionsInv, ProcOK
    <2>2. Len(pages'[Latest]) = Reached.pages + 1 /\ pages'[Latest][Reached.pages + 1] = got
      BY <1>4, <1>6 DEF n
    <2> QED
      BY <1>1, <1>2, <1>10, <1>11, <1>12, <2>1, <2>2 DEF ProcOK, PageOK
  <1>14. VerdictOK'
    BY <1>1, <1>2 DEF CollectionsInv, VerdictOK
  <1> QED
    BY <1>7, <1>9, <1>13, <1>14 DEF CollectionsInv

LEMMA CommitTableKeeps ==
    ASSUME Collections!CollectionsCaptureAssumption, CollectionsInv, Collections!CommitPage
    PROVE  CollectionsInv'
  <1> DEFINE n == Reached.pages
             s == pages[Latest]
             got == proc.got
             top == Collections!Max(got)
             c == Collections!Cardinality(got)
             whole == top = Reached.upper
             st == [Reached EXCEPT !.cursor = top, !.pages = n + 1, !.rows = Reached.rows + c,
                                   !.complete = whole]
             K == UNION {s[k] : k \in 1 .. st.pages}
  <1>1. proc.step = "commit" /\
        UNCHANGED <<src, pages, manifest, verified, standing, moves, faults>>
    BY DEF Collections!CommitPage
  <1>2. /\ ~manifest.made /\ Latest \in Collections!Tables /\ Reached \in TableStates
        /\ Reached = progress[Latest] /\ Reached.made /\ PageOK(got)
        /\ IsFiniteSet(got) /\ got \in SUBSET Nat /\ s \in Seq(SUBSET CollectionRows[Latest])
        /\ IsFiniteSet(Kept(Latest)) /\ Kept(Latest) \in SUBSET Nat
    BY <1>1, PageInTheHand
  <1>3. got # {} /\ Len(s) = n + 1 /\ s[n + 1] = got
    BY <1>1 DEF CollectionsInv, ProcOK
  <1>4. CASE progress' = progress /\ proc' = Collections!Stopped
    <2>1. ProcOK'
      BY <1>1, <1>2, <1>4, NothingInHand DEF Collections!Stopped
    <2> QED
      BY <1>1, <1>4, <2>1, CommandGoesOn DEF CollectionsInv, FilesOK
  <1>5. CASE progress' = [progress EXCEPT ![Latest] = Collections!Advanced] /\
             proc' = [step |-> "run"]
    <2>1. Collections!Advanced = st
      BY DEF Collections!Advanced, Reached, Latest
    <2>2. top \in got /\ (\A q \in got : q <= top) /\ top \in Nat
      <3> HIDE DEF got
      <3>1. top \in got /\ \A q \in got : q <= top
        BY <1>2, <1>3, HighestOf
      <3> QED
        BY <1>2, <3>1
    <2>3. c = Cardinality(got) /\ c \in Nat
      BY <1>2, SameNumbers, FS_CardinalityType
    <2>4. n \in Nat /\ Reached.rows \in Nat /\ Reached.cursor \in Nat
      BY <1>2 DEF TableStates
    <2>5. /\ st \in TableStates /\ st.made = Reached.made /\ st.upper = Reached.upper
          /\ st.complete = whole /\ st.cursor = top /\ st.rows = Reached.rows + c
          /\ st.pages = n + 1
      <3> DEFINE p == n + 1
                 m == Reached.rows + c
      <3>1. p \in Nat /\ m \in Nat /\ whole \in BOOLEAN /\ top \in Nat
        BY <2>2, <2>3, <2>4
      <3> DEFINE u == [Reached EXCEPT !.cursor = top, !.pages = p, !.rows = m, !.complete = whole]
      <3>2. st = u
        OBVIOUS
      <3> HIDE DEF p, m, whole, top
      <3>3. /\ u \in TableStates /\ u.made = Reached.made /\ u.upper = Reached.upper
            /\ u.complete = whole /\ u.cursor = top /\ u.rows = m /\ u.pages = p
        BY <1>2, <3>1 DEF TableStates
      <3> HIDE DEF u, st
      <3>4. /\ st \in TableStates /\ st.made = Reached.made /\ st.upper = Reached.upper
            /\ st.complete = whole /\ st.cursor = top /\ st.rows = m /\ st.pages = p
        BY <3>2, <3>3
      <3> QED
        BY <3>4 DEF p, m
    <2> HIDE DEF st
    <2>6. K = Kept(Latest) \cup got
      <3>1. 1 .. st.pages = (1 .. n) \cup {n + 1}
        BY <2>4, <2>5
      <3>2. Kept(Latest) = UNION {s[k] : k \in 1 .. n}
        BY <1>2 DEF Kept
      <3> HIDE DEF s, n, got
      <3> QED
        BY <1>3, <3>1, <3>2
    <2> HIDE DEF K, top, c
    <2>7. /\ \A q \in got : Reached.cursor < q
          /\ \A r \in standing[Latest] : Reached.cursor < r /\ r \notin got =>
                \A q \in got : q < r
      BY <1>2 DEF PageOK
    <2>8. /\ Cardinality(Kept(Latest)) = Reached.rows
          /\ \A r \in Kept(Latest) : r <= Reached.cursor
          /\ \A r \in standing[Latest] :
                r <= Reached.upper /\ (r <= Reached.cursor => r \in Kept(Latest))
      BY <1>2 DEF CollectionsInv, TablesOK
    <2>9. standing[Latest] \subseteq Nat
      <3>1. standing[Latest] \subseteq CollectionRows[Latest]
        BY <1>2 DEF CollectionsInv, TablesOK, FilesOK
      <3> QED
        BY <1>2, <3>1 DEF Collections!CollectionsCaptureAssumption
    <2> HIDE DEF got, n, s
    <2>10. Cardinality(K) = Reached.rows + c
      <3>1. Kept(Latest) \cap got = {}
        <4> SUFFICES ASSUME NEW r \in Kept(Latest), r \in got PROVE FALSE
          OBVIOUS
        <4>1. r <= Reached.cursor /\ Reached.cursor < r /\ r \in Nat
          BY <1>2, <2>7, <2>8
        <4> QED
          BY <2>4, <4>1
      <3>2. Cardinality(Kept(Latest) \cap got) = 0
        BY <3>1, FS_EmptySet
      <3>3. Cardinality(K) = Cardinality(Kept(Latest)) + Cardinality(got)
                               - Cardinality(Kept(Latest) \cap got)
        BY <1>2, <2>6, FS_Union
      <3> QED
        BY <2>3, <2>4, <2>8, <3>2, <3>3
    <2>11. \A r \in K : r <= top
      <3> TAKE r \in K
      <3>1. CASE r \in got
        BY <2>2, <3>1
      <3>2. CASE r \in Kept(Latest)
        <4>1. r <= Reached.cursor /\ Reached.cursor < top /\ r \in Nat
          BY <1>2, <2>2, <2>7, <2>8, <3>2
        <4> QED
          BY <2>2, <2>4, <4>1
      <3> QED
        BY <2>6, <3>1, <3>2
    <2>12. ASSUME NEW r \in standing[Latest], r <= top
           PROVE  r \in K
      <3>1. CASE r <= Reached.cursor
        BY <2>6, <2>8, <3>1
      <3>2. CASE Reached.cursor < r
        <4>1. r \in got
          <5> SUFFICES ASSUME r \notin got PROVE FALSE
            OBVIOUS
          <5>1. top < r
            BY <2>2, <2>7, <3>2
          <5> QED
            BY <2>2, <2>9, <2>12, <5>1
        <4> QED
          BY <2>6, <4>1
      <3> QED
        BY <2>4, <2>9, <3>1, <3>2
    <2>13. st.complete => standing[Latest] \subseteq K
      BY <2>5, <2>8, <2>12
    <2>14. BorneOut(Latest, st)
      <3>1. Len(s) = st.pages
        BY <1>3, <2>5
      <3>2. st.pages <= Len(pages[Latest]) /\ Len(pages[Latest]) <= st.pages + 1
        BY <2>4, <2>5, <3>1 DEF s
      <3>3. /\ Cardinality(K) = st.rows /\ (\A r \in K : r <= st.cursor) /\ st.cursor \in K
            /\ \A r \in standing[Latest] : r <= st.upper /\ (r <= st.cursor => r \in K)
        BY <2>2, <2>5, <2>6, <2>8, <2>10, <2>11, <2>12
      <3>4. st.made
        BY <1>2, <2>5
      <3> QED
        BY <2>13, <3>2, <3>3, <3>4 DEF BorneOut, K, s
    <2> QED
      BY <1>1, <1>2, <1>5, <2>1, <2>5, <2>14, OneTableGoesOn
  <1> QED
    BY <1>4, <1>5 DEF Collections!CommitPage, Latest

\* The Drops, the manifest and the verification leave the tables alone.
LEMMA OtherTableSteps ==
    ASSUME CollectionsInv,
           \/ Collections!Start \/ Collections!Prepare \/ Collections!StartDrops
           \/ Collections!FetchDrops \/ Collections!WriteDrops \/ Collections!CommitDrops
    PROVE  CollectionsInv'
  <1>1. UNCHANGED <<src, progress, pages, manifest, verified, standing, moves, faults>>
    BY DEF Collections!Start, Collections!Prepare, Collections!StartDrops,
           Collections!FetchDrops, Collections!WriteDrops, Collections!CommitDrops
  <1>2. ~manifest.made
    <2>1. proc.step # "stopped" => ~manifest.made
      BY DEF CollectionsInv, ProcOK, Collections!Stopped
    <2>2. CASE Collections!Start
      BY <2>2 DEF Collections!Start
    <2>3. CASE Collections!Prepare \/ Collections!StartDrops \/ Collections!FetchDrops
      BY <2>1, <2>3 DEF Collections!Prepare, Collections!StartDrops, Collections!FetchDrops
    <2>4. CASE Collections!WriteDrops \/ Collections!CommitDrops
      BY <2>1, <2>4 DEF Collections!WriteDrops, Collections!CommitDrops
    <2> QED
      BY <2>2, <2>3, <2>4
  <1>3. ProcOK'
    <2>1. CASE Collections!Start \/ Collections!Prepare \/ Collections!CommitDrops
      <3>1. proc'.step \in {"prepare", "run"}
        <4>1. CASE Collections!Start
          BY <4>1 DEF Collections!Start
        <4>2. CASE Collections!CommitDrops
          BY <4>2 DEF Collections!CommitDrops
        <4>3. CASE Collections!Prepare
          <5>1. proc.step = "prepare" /\ (proc' = proc \/ proc' = [step |-> "run"])
            BY <4>3 DEF Collections!Prepare
          <5> QED
            BY <5>1
        <4> QED
          BY <2>1, <4>1, <4>2, <4>3
      <3> QED
        BY <1>1, <1>2, <3>1, NothingInHand
    <2>2. CASE Collections!StartDrops
      <3>1. proc'.step = "run"
        BY <2>2 DEF Collections!StartDrops
      <3> QED
        BY <1>1, <1>2, <3>1, NothingInHand
    <2>3. CASE Collections!FetchDrops
      <3> DEFINE a == Collections!NextBatch
                 g == Collections!NextBatch \cap src.drops
      <3>1. proc' = [step |-> "drops", asked |-> a, got |-> g]
        BY <2>3 DEF Collections!FetchDrops
      <3> HIDE DEF a, g
      <3>2. /\ proc' = [step |-> "drops", asked |-> proc'.asked, got |-> proc'.got]
            /\ proc'.step = "drops"
        BY <3>1
      <3> QED
        BY <1>1, <1>2, <3>2 DEF ProcOK
    <2>4. CASE Collections!WriteDrops
      <3>1. /\ proc.step = "drops" /\ proc' = [proc EXCEPT !.step = "commit drops"]
            /\ proc = [step |-> "drops", asked |-> proc.asked, got |-> proc.got]
        BY <2>4 DEF Collections!WriteDrops, CollectionsInv, ProcOK
      <3>2. proc'.step = "commit drops"
        BY <3>1
      <3> QED
        BY <1>1, <1>2, <3>2, NothingInHand
    <2> QED
      BY <2>1, <2>2, <2>3, <2>4
  <1> QED
    BY <1>1, <1>3, CommandGoesOn DEF CollectionsInv, FilesOK

LEMMA ManifestGoesOn ==
    ASSUME CollectionsInv, Collections!WriteManifest
    PROVE  CollectionsInv'
  <1>1. /\ UNCHANGED <<src, progress, pages, verified, standing, moves, faults>>
        /\ proc' = Collections!Stopped /\ Collections!AllCaptured /\ proc.step = "run"
    BY DEF Collections!WriteManifest
  <1>2. /\ manifest'.made
        /\ manifest'.rows = [e \in Collections!Tables |-> Collections!Normalized(e)]
        /\ manifest'.counts = [e \in Collections!Tables |-> progress[e].rows]
    <2> DEFINE r == [e \in Collections!Tables |-> Collections!Normalized(e)]
               c == [e \in Collections!Tables |-> progress[e].rows]
               x == [e \in Collections!Tables |-> progress[e].expected]
               d == UNION Collections!Range(dropPages)
    <2>1. manifest' = [made |-> TRUE, rows |-> r, counts |-> c, expected |-> x,
                       ids |-> Collections!Named, drops |-> d, missing |-> drops.missing]
      BY DEF Collections!WriteManifest
    <2> HIDE DEF r, c, x, d
    <2>2. manifest'.made /\ manifest'.rows = r /\ manifest'.counts = c
      BY <2>1
    <2> QED
      BY <2>2 DEF r, c
  <1>3. ~manifest.made /\ ~verified
    BY <1>1 DEF CollectionsInv, ProcOK, VerdictOK, Collections!Stopped
  <1>4. FilesOK'
    BY <1>1 DEF CollectionsInv, FilesOK
  <1>5. TablesOK'
    <2>1. \A e : Kept(e)' = Kept(e)
      BY <1>1 DEF Kept
    <2>2. TablesOK
      BY DEF CollectionsInv
    <2> QED
      BY <1>1, <1>2, <2>1, <2>2 DEF TablesOK
  <1>6. ProcOK'
    BY <1>1, NothingInHand DEF Collections!Stopped
  <1>7. VerdictOK'
    <2>1. (Collections!AllCaptured)' /\
          \A e : Collections!Normalized(e)' = Collections!Normalized(e)
      BY <1>1 DEF Collections!AllCaptured, Collections!Open, Collections!Normalized
    <2> QED
      BY <1>1, <1>2, <1>3, <2>1 DEF VerdictOK
  <1> QED
    BY <1>4, <1>5, <1>6, <1>7 DEF CollectionsInv

LEMMA VerifyGoesOn ==
    ASSUME CollectionsInv, Collections!Verify
    PROVE  CollectionsInv'
  <1>1. /\ UNCHANGED <<src, progress, pages, manifest, proc, standing, moves, faults>>
        /\ verified' = TRUE /\ manifest.made
    BY DEF Collections!Verify
  <1>2. Collections!CountsAgree /\ Collections!RelationsHold /\ Collections!UnionHolds
    BY DEF Collections!Verify
  <1>3. FilesOK'
    BY <1>1 DEF CollectionsInv, FilesOK
  <1>4. TablesOK'
    <2>1. \A e : Kept(e)' = Kept(e)
      BY <1>1 DEF Kept
    <2>2. TablesOK
      BY DEF CollectionsInv
    <2> QED
      BY <1>1, <2>1, <2>2 DEF TablesOK
  <1>5. ProcOK'
    BY <1>1, NothingInHand DEF CollectionsInv, ProcOK, Collections!Stopped
  <1>6. (Collections!CountsAgree /\ Collections!RelationsHold /\ Collections!UnionHolds)'
    BY <1>1, <1>2
       DEF Collections!CountsAgree, Collections!RelationsHold, Collections!UnionHolds
  <1>7. VerdictOK'
    <2>1. /\ (Collections!AllCaptured)' = Collections!AllCaptured
          /\ \A e : Collections!Normalized(e)' = Collections!Normalized(e)
      BY <1>1 DEF Collections!AllCaptured, Collections!Open, Collections!Normalized
    <2> QED
      BY <1>1, <1>6, <2>1 DEF CollectionsInv, VerdictOK
  <1> QED
    BY <1>3, <1>4, <1>5, <1>7 DEF CollectionsInv

\* A directory that holds nothing yet.
LEMMA NothingIsCaptured ==
    ASSUME FilesOK, progress = [e \in Collections!Tables |-> Collections!Unstarted],
           pages = [e \in Collections!Tables |-> <<>>], standing = src.tables,
           manifest = Collections!NoManifest, proc = Collections!Stopped, ~verified
    PROVE  CollectionsInv
  <1>1. TablesOK
    <2> SUFFICES ASSUME NEW e \in Collections!Tables
                 PROVE  /\ progress[e].pages <= Len(pages[e])
                        /\ Len(pages[e]) <= progress[e].pages + 1
                        /\ Cardinality(Kept(e)) = progress[e].rows
                        /\ \A r \in Kept(e) : r <= progress[e].cursor
                        /\ ~(progress[e].rows > 0) /\ ~progress[e].made /\ ~progress[e].complete
                        /\ progress[e] = Collections!Unstarted /\ pages[e] = <<>>
                        /\ standing[e] = src.tables[e]
      BY DEF TablesOK
    <2>1. progress[e] = Collections!Unstarted /\ pages[e] = <<>> /\ standing[e] = src.tables[e]
      OBVIOUS
    <2>2. /\ progress[e].pages = 0 /\ progress[e].rows = 0
          /\ ~progress[e].made /\ ~progress[e].complete
      BY <2>1 DEF Collections!Unstarted
    <2>3. Kept(e) = {}
      BY <2>1, <2>2 DEF Kept
    <2>4. Cardinality(Kept(e)) = progress[e].rows
      BY <2>2, <2>3, FS_EmptySet
    <2>5. Len(pages[e]) = 0
      BY <2>1
    <2>6. \A r \in Kept(e) : r <= progress[e].cursor
      BY <2>3
    <2> QED
      BY <2>1, <2>2, <2>4, <2>5, <2>6
  <1>2. ~manifest.made
    BY DEF Collections!NoManifest
  <1>3. ProcOK
    BY <1>2 DEF ProcOK, Collections!Stopped
  <1>4. VerdictOK
    BY <1>2 DEF VerdictOK
  <1> QED
    BY <1>1, <1>3, <1>4 DEF CollectionsInv

LEMMA UnstartedIsAState ==
    [e \in Collections!Tables |-> Collections!Unstarted] \in [Collections!Tables -> TableStates]
  <1>1. Collections!Unstarted \in TableStates
    BY DEF Collections!Unstarted, TableStates
  <1> QED
    BY <1>1

LEMMA CollectionsStart ==
    ASSUME Collections!CollectionsCaptureAssumption, Collections!Init
    PROVE  CollectionsInv
  <1> USE DEF Collections!Init
  <1>1. FilesOK
    <2>1. /\ src = [tables |-> src.tables, drops |-> src.drops]
          /\ src.tables \in {[e \in Collections!Tables |-> CollectionRows[e]],
                             [e \in Collections!Tables |->
                                CollectionRows[e] \ {Collections!Max(CollectionRows[e])}]}
          /\ src.drops = Collections!Drops
      OBVIOUS
    <2>2. /\ src.tables = [e \in Collections!Tables |-> src.tables[e]]
          /\ \A e \in Collections!Tables : src.tables[e] \subseteq CollectionRows[e]
      BY <2>1
    <2>3. src.tables \in [Collections!Tables ->
                            SUBSET UNION {CollectionRows[e] : e \in Collections!Tables}]
      BY <2>2
    <2>4. progress \in [Collections!Tables -> TableStates]
      BY UnstartedIsAState
    <2>5. \A e \in Collections!Tables : pages[e] \in Seq(SUBSET CollectionRows[e])
      OBVIOUS
    <2>6. moves \in 0 .. MaxChanges /\ faults \in 0 .. MaxTableFaults
      BY DEF Collections!CollectionsCaptureAssumption
    <2>7. src \in [tables : [Collections!Tables ->
                               SUBSET UNION {CollectionRows[e] : e \in Collections!Tables}],
                   drops : SUBSET Collections!Drops]
      BY <2>1, <2>3
    <2> QED
      BY <2>2, <2>4, <2>5, <2>6, <2>7 DEF FilesOK
  <1> QED
    BY <1>1, NothingIsCaptured

LEMMA FreshKeeps ==
    ASSUME CollectionsInv, Collections!Fresh
    PROVE  CollectionsInv'
  <1> USE DEF Collections!Fresh
  <1>1. FilesOK'
    <2>1. progress' \in [Collections!Tables -> TableStates]
      BY UnstartedIsAState
    <2>2. /\ pages' = [e \in Collections!Tables |-> pages'[e]]
          /\ \A e \in Collections!Tables : pages'[e] \in Seq(SUBSET CollectionRows[e])
      OBVIOUS
    <2> QED
      BY <2>1, <2>2 DEF CollectionsInv, FilesOK
  <1>2. TablesOK'
    <2>1. ASSUME NEW e \in Collections!Tables
          PROVE  /\ progress'[e] = Collections!Unstarted /\ pages'[e] = <<>>
                 /\ standing'[e] = src'.tables[e]
      OBVIOUS
    <2> HIDE DEF Collections!Fresh
    <2>2. ASSUME NEW e \in Collections!Tables
          PROVE  /\ progress'[e].pages = 0 /\ progress'[e].rows = 0
                 /\ ~progress'[e].made /\ ~progress'[e].complete
                 /\ Kept(e)' = {} /\ Cardinality(Kept(e)') = 0 /\ Len(pages'[e]) = 0
      <3>1. /\ progress'[e].pages = 0 /\ progress'[e].rows = 0
            /\ ~progress'[e].made /\ ~progress'[e].complete
        BY <2>1 DEF Collections!Unstarted
      <3>2. Kept(e)' = {}
        BY <3>1 DEF Kept
      <3> QED
        BY <2>1, <3>1, <3>2, FS_EmptySet
    <2> QED
      BY <2>1, <2>2 DEF TablesOK
  <1>3. ~manifest'.made
    BY DEF Collections!NoManifest
  <1>4. ProcOK'
    BY <1>3 DEF ProcOK, Collections!Stopped
  <1>5. VerdictOK'
    BY <1>3 DEF VerdictOK
  <1> QED
    BY <1>1, <1>2, <1>4, <1>5 DEF CollectionsInv

LEMMA SourceChangeGoesOn ==
    ASSUME Collections!CollectionsCaptureAssumption, CollectionsInv, Collections!Change
    PROVE  CollectionsInv'
  <1>1. /\ UNCHANGED <<progress, pages, manifest, verified, proc, faults>>
        /\ moves < MaxChanges /\ moves' = moves + 1
        /\ standing' = IF manifest.made THEN standing
                       ELSE [e \in Collections!Tables |-> standing[e] \cap src'.tables[e]]
    BY DEF Collections!Change
  <1> DEFINE Sources == [tables : [Collections!Tables ->
                                     SUBSET UNION {CollectionRows[e] : e \in Collections!Tables}],
                         drops : SUBSET Collections!Drops]
  <1>2. src \in Sources /\ \A e \in Collections!Tables : src.tables[e] \subseteq CollectionRows[e]
    BY DEF CollectionsInv, FilesOK
  <1>3. ASSUME NEW tables, tables = [e \in Collections!Tables |-> tables[e]],
               \A e \in Collections!Tables : tables[e] \subseteq CollectionRows[e],
               NEW ds \in SUBSET Collections!Drops, src' = [tables |-> tables, drops |-> ds]
        PROVE  src' \in Sources /\
                \A e \in Collections!Tables : src'.tables[e] \subseteq CollectionRows[e]
    BY <1>3
  <1>4. ASSUME NEW tables, \A e \in Collections!Tables : tables[e] \subseteq CollectionRows[e],
               NEW ds
        PROVE  /\ Collections!Cascade(tables, ds) =
                    [e \in Collections!Tables |-> Collections!Cascade(tables, ds)[e]]
               /\ \A e \in Collections!Tables :
                    Collections!Cascade(tables, ds)[e] \subseteq CollectionRows[e]
    BY <1>4 DEF Collections!Cascade
  <1>5. src' \in Sources /\
        \A e \in Collections!Tables : src'.tables[e] \subseteq CollectionRows[e]
    <2>1. ASSUME NEW e \in Collections!Tables, NEW r \in CollectionRows[e] \ src.tables[e],
                 src' = [src EXCEPT !.tables = [src.tables EXCEPT ![e] = @ \cup {r}]]
          PROVE  src' \in Sources /\
                 \A t \in Collections!Tables : src'.tables[t] \subseteq CollectionRows[t]
      <3> DEFINE grown == [src.tables EXCEPT ![e] = @ \cup {r}]
      <3>1. /\ grown = [t \in Collections!Tables |-> grown[t]]
            /\ \A t \in Collections!Tables : grown[t] \subseteq CollectionRows[t]
        BY <1>2
      <3>2. src' = [tables |-> grown, drops |-> src.drops] /\
            src.drops \in SUBSET Collections!Drops
        BY <1>2, <2>1
      <3> HIDE DEF grown, Sources
      <3> QED
        BY <1>3, <3>1, <3>2
    <2>2. ASSUME NEW e \in Collections!Tables, NEW r \in src.tables[e],
                 src' = [src EXCEPT !.tables =
                           Collections!Cascade([src.tables EXCEPT ![e] = @ \ {r}], src.drops)]
          PROVE  src' \in Sources /\
                 \A t \in Collections!Tables : src'.tables[t] \subseteq CollectionRows[t]
      <3> DEFINE cut == [src.tables EXCEPT ![e] = @ \ {r}]
                 left == Collections!Cascade(cut, src.drops)
      <3>1. \A t \in Collections!Tables : cut[t] \subseteq CollectionRows[t]
        BY <1>2
      <3>2. src' = [tables |-> left, drops |-> src.drops] /\
            src.drops \in SUBSET Collections!Drops
        BY <1>2, <2>2
      <3> HIDE DEF cut
      <3>3. /\ left = [t \in Collections!Tables |-> left[t]]
            /\ \A t \in Collections!Tables : left[t] \subseteq CollectionRows[t]
        BY <1>4, <3>1
      <3> HIDE DEF left, Sources
      <3> QED
        BY <1>3, <3>2, <3>3
    <2>3. ASSUME NEW d \in src.drops,
                 src' = [tables |-> Collections!Cascade(src.tables, src.drops \ {d}),
                         drops |-> src.drops \ {d}]
          PROVE  src' \in Sources /\
                 \A t \in Collections!Tables : src'.tables[t] \subseteq CollectionRows[t]
      <3> DEFINE left == Collections!Cascade(src.tables, src.drops \ {d})
      <3>1. src.drops \ {d} \in SUBSET Collections!Drops
        BY <1>2
      <3>2. /\ left = [t \in Collections!Tables |-> left[t]]
            /\ \A t \in Collections!Tables : left[t] \subseteq CollectionRows[t]
        BY <1>2, <1>4
      <3>3. src' = [tables |-> left, drops |-> src.drops \ {d}]
        BY <2>3
      <3> HIDE DEF left, Sources
      <3> QED
        BY <1>3, <3>1, <3>2, <3>3
    <2>4. ASSUME NEW d \in Collections!Drops, src' = [src EXCEPT !.drops = @ \cup {d}]
          PROVE  src' \in Sources /\
                 \A t \in Collections!Tables : src'.tables[t] \subseteq CollectionRows[t]
      BY <1>2, <2>4
    <2> HIDE DEF Sources
    <2> QED
      BY <2>1, <2>2, <2>3, <2>4 DEF Collections!Change
  <1>6. FilesOK'
    <2>1. moves' \in 0 .. MaxChanges
      BY <1>1 DEF CollectionsInv, FilesOK, Collections!CollectionsCaptureAssumption
    <2> QED
      BY <1>1, <1>5, <2>1 DEF CollectionsInv, FilesOK
  <1>7. \A e \in Collections!Tables :
           /\ standing'[e] \subseteq standing[e]
           /\ ~manifest.made => standing'[e] \subseteq src'.tables[e]
    BY <1>1
  <1>8. TablesOK'
    <2>1. \A e : Kept(e)' = Kept(e)
      BY <1>1 DEF Kept
    <2>2. TablesOK
      BY DEF CollectionsInv
    <2> QED
      BY <1>1, <1>7, <2>1, <2>2 DEF TablesOK
  <1>9. /\ UNCHANGED <<Latest, Reached>>
        /\ (Collections!AllCaptured)' = Collections!AllCaptured
    BY <1>1
       DEF Latest, Reached, Collections!Current, Collections!Open, Collections!AllCaptured
  <1>10. ~Collections!AllCaptured => standing'[Latest] \subseteq standing[Latest]
    BY <1>7, TheCurrentTable
  <1>11. ProcOK'
    BY <1>1, <1>9, <1>10 DEF CollectionsInv, ProcOK, PageOK
  <1>12. VerdictOK'
    <2>1. /\ \A e : Collections!Normalized(e)' = Collections!Normalized(e)
          /\ (Collections!CountsAgree)' = Collections!CountsAgree
          /\ (Collections!RelationsHold)' = Collections!RelationsHold
          /\ (Collections!UnionHolds)' = Collections!UnionHolds
      BY <1>1
         DEF Collections!Normalized, Collections!CountsAgree, Collections!RelationsHold,
             Collections!UnionHolds
    <2> QED
      BY <1>1, <1>9, <2>1 DEF CollectionsInv, VerdictOK
  <1> QED
    BY <1>6, <1>8, <1>11, <1>12 DEF CollectionsInv

LEMMA AbortKeeps ==
    ASSUME Collections!CollectionsCaptureAssumption, CollectionsInv, Collections!Abort
    PROVE  CollectionsInv'
  <1> USE DEF Collections!Abort
  <1>1. faults' \in 0 .. MaxTableFaults
    BY DEF CollectionsInv, FilesOK, Collections!CollectionsCaptureAssumption
  <1>2. ProcOK'
    BY NothingInHand DEF Collections!Stopped
  <1> QED
    BY <1>1, <1>2, CommandGoesOn

LEMMA CollectionsGoOn ==
    ASSUME Collections!CollectionsCaptureAssumption, CollectionsInv,
           [Collections!Next]_Collections!vars
    PROVE  CollectionsInv'
  <1>1. CASE Collections!CaptureStep
    BY <1>1, BoundKeeps, CountKeeps, FetchPageGoesOn, EndKeeps, WriteTableKeeps,
       CommitTableKeeps, OtherTableSteps, ManifestGoesOn DEF Collections!CaptureStep
  <1>2. CASE UNCHANGED Collections!vars
    <2>1. /\ UNCHANGED <<src, progress, pages, manifest, verified, standing, moves, faults, proc>>
          /\ UNCHANGED <<Latest, Reached>>
          /\ (Collections!AllCaptured)' = Collections!AllCaptured
      BY <1>2
         DEF Collections!vars, Latest, Reached, Collections!Current, Collections!Open,
             Collections!AllCaptured
    <2>2. ProcOK'
      BY <2>1 DEF CollectionsInv, ProcOK, PageOK
    <2> QED
      BY <2>1, <2>2, CommandGoesOn DEF CollectionsInv, FilesOK
  <1>3. CASE Collections!Tidy
    <2>1. /\ UNCHANGED <<src, progress, pages, manifest, verified, standing, moves, faults, proc>>
          /\ proc' = Collections!Stopped /\ Collections!Stopped.step = "stopped"
      BY <1>3 DEF Collections!Tidy, Collections!Stopped
    <2> QED
      BY <2>1, NothingInHand, CommandGoesOn DEF CollectionsInv, FilesOK
  <1> QED
    BY <1>1, <1>2, <1>3, OtherTableSteps, VerifyGoesOn, FreshKeeps, SourceChangeGoesOn, AbortKeeps
       DEF Collections!Next, Collections!Finished

\* What is beside the tables in a directory.
SideOK == side \in [made : {"nothing", "source", "torn query", "queries"}, temporary : BOOLEAN]

LEMMA SideGoesOn ==
    ASSUME SideOK, [Collections!Next]_Collections!vars
    PROVE  SideOK'
  <1>2. side = [made |-> side.made, temporary |-> side.temporary] /\ side.temporary \in BOOLEAN
        /\ side.made \in {"nothing", "source", "torn query", "queries"}
    BY DEF SideOK
  <1>3. CASE Collections!Prepare
    <2>1. side' = [side EXCEPT !.made = "source"] \/ side' = [side EXCEPT !.made = "queries"]
      BY <1>3 DEF Collections!Prepare
    <2> QED
      BY <1>2, <2>1 DEF SideOK
  <1>4. CASE Collections!Abort
    <2>1. \/ side' = side \/ side' = [side EXCEPT !.temporary = TRUE]
          \/ side' = [side EXCEPT !.made = "torn query"]
      BY <1>4 DEF Collections!Abort, Collections!Leavings
    <2> QED
      BY <1>2, <2>1 DEF SideOK
  <1>5. CASE Collections!Tidy
    <2>1. side' = [made |-> IF side.made = "torn query" THEN "source" ELSE side.made,
                   temporary |-> FALSE]
      BY <1>5 DEF Collections!Tidy
    <2> QED
      BY <1>2, <2>1 DEF SideOK
  <1>6. CASE Collections!Fresh
    BY <1>6 DEF Collections!Fresh, Collections!NewDirectory, SideOK
  <1>7. CASE Collections!Start \/ Collections!Verify \/ Collections!Change \/
             UNCHANGED Collections!vars
    <2>1. side' = side
      BY <1>7 DEF Collections!Start, Collections!Verify, Collections!Change, Collections!vars
    <2> QED
      BY <2>1 DEF SideOK
  <1>8. ASSUME Collections!CaptureStep, ~Collections!Prepare PROVE SideOK'
    <2>1. side' = side
      BY <1>8
       DEF Collections!CaptureStep, Collections!FetchBound, Collections!FetchCount,
           Collections!FetchPage, Collections!EndOfTable, Collections!WritePage,
           Collections!CommitPage, Collections!StartDrops, Collections!FetchDrops,
           Collections!WriteDrops, Collections!CommitDrops, Collections!WriteManifest
    <2> QED
      BY <2>1 DEF SideOK
  <1> QED
    BY <1>3, <1>4, <1>5, <1>6, <1>7, <1>8 DEF Collections!Next, Collections!Finished

\* What a directory of the Collections says of its progress.
LEMMA CollectionsSay ==
    ASSUME Collections!CollectionsCaptureAssumption, CollectionsInv, SideOK
    PROVE  /\ Collections!TypeOK /\ Collections!CommittedPagesAreKept
           /\ Collections!VerifiedRowsAreCommitted /\ Collections!StandingRowsAreVerified
  <1>1. Collections!TypeOK
    BY DEF CollectionsInv, FilesOK, SideOK, TableStates, Collections!TypeOK
  <1>2. ASSUME NEW e \in Collections!Tables
        PROVE  /\ IsFiniteSet(Kept(e)) /\ Kept(e) \in SUBSET Nat
               /\ IsFiniteSet(Collections!Normalized(e))
               /\ Kept(e) \subseteq Collections!Normalized(e)
               /\ Kept(e) = UNION Collections!Range(SubSeq(pages[e], 1, progress[e].pages))
    <2>1. IsFiniteSet(CollectionRows[e]) /\ CollectionRows[e] \subseteq Nat
      BY SameNumbers DEF Collections!CollectionsCaptureAssumption
    <2>2. /\ Kept(e) \in SUBSET Collections!Normalized(e)
          /\ Collections!Normalized(e) \in SUBSET CollectionRows[e]
          /\ Kept(e) = UNION Collections!Range(SubSeq(pages[e], 1, progress[e].pages))
      BY KeptIsCommitted DEF CollectionsInv
    <2>3. IsFiniteSet(Collections!Normalized(e))
      BY <2>1, <2>2, FS_Subset
    <2>4. IsFiniteSet(Kept(e))
      BY <2>2, <2>3, FS_Subset
    <2> QED
      BY <2>1, <2>2, <2>3, <2>4
  <1>3. Collections!CommittedPagesAreKept
    <2> SUFFICES ASSUME NEW e \in Collections!Tables
                 PROVE  /\ progress[e].pages <= Len(pages[e])
                        /\ Len(pages[e]) <= progress[e].pages + 1
                        /\ Collections!Cardinality(Kept(e)) = progress[e].rows
                        /\ progress[e].rows > 0 => progress[e].cursor = Collections!Max(Kept(e))
      BY <1>2 DEF Collections!CommittedPagesAreKept
    <2>1. progress[e].rows > 0 => progress[e].cursor = Collections!Max(Kept(e))
      <3>1. SUFFICES ASSUME progress[e].rows > 0
                     PROVE  progress[e].cursor = Collections!Max(Kept(e))
        OBVIOUS
      <3>2. progress[e].cursor \in Kept(e) /\ \A r \in Kept(e) : r <= progress[e].cursor
        BY <3>1 DEF CollectionsInv, TablesOK
      <3>3. /\ Collections!Max(Kept(e)) \in Kept(e)
            /\ \A r \in Kept(e) : r <= Collections!Max(Kept(e))
        BY <1>2, <3>2, HighestOf
      <3>4. progress[e].cursor <= Collections!Max(Kept(e)) /\
            Collections!Max(Kept(e)) <= progress[e].cursor
        BY <3>2, <3>3
      <3>5. progress[e].cursor \in Nat /\ Collections!Max(Kept(e)) \in Nat
        BY <1>2, <3>2, <3>3
      <3> QED
        BY <3>4, <3>5
    <2> QED
      BY <2>1, SameNumbers DEF CollectionsInv, TablesOK
  <1>4. ASSUME verified, NEW e \in Collections!Tables
        PROVE  /\ manifest.rows[e] = Kept(e)
               /\ standing[e] \subseteq manifest.rows[e]
    <2>1. /\ manifest.made /\ Collections!CountsAgree
          /\ manifest.rows[e] = Collections!Normalized(e) /\ manifest.counts[e] = progress[e].rows
      BY <1>4 DEF CollectionsInv, VerdictOK
    <2>2. Cardinality(Collections!Normalized(e)) = progress[e].rows
      BY <2>1, SameNumbers DEF Collections!CountsAgree
    <2>3. Cardinality(Kept(e)) = progress[e].rows
      BY DEF CollectionsInv, TablesOK
    <2>4. Kept(e) = Collections!Normalized(e)
      BY <1>2, <2>2, <2>3, FS_Subset
    <2>5. progress[e].complete
      BY <2>1 DEF CollectionsInv, VerdictOK, Collections!AllCaptured, Collections!Open
    <2>6. standing[e] \subseteq Kept(e)
      BY <2>5 DEF CollectionsInv, TablesOK
    <2> QED
      BY <2>1, <2>4, <2>6
  <1>5. Collections!VerifiedRowsAreCommitted
    BY <1>2, <1>4 DEF Collections!VerifiedRowsAreCommitted
  <1>6. Collections!StandingRowsAreVerified
    <2>1. ASSUME verified
          PROVE  {DropOfItem[r] : r \in standing["items"]} \subseteq manifest.drops
      <3>1. "items" \in Collections!Tables
        BY DEF Collections!CollectionsCaptureAssumption
      <3>2. standing["items"] \subseteq manifest.rows["items"]
        BY <1>4, <2>1, <3>1
      <3>3. manifest.drops = {DropOfItem[r] : r \in manifest.rows["items"]}
        BY <2>1 DEF CollectionsInv, VerdictOK, Collections!UnionHolds
      <3> QED
        BY <3>2, <3>3
    <2> QED
      BY <1>4, <2>1 DEF Collections!StandingRowsAreVerified
  <1> QED
    BY <1>1, <1>3, <1>5, <1>6

-----------------------------------------------------------------------------
(* The pages of the supplement.                                              *)

\* The Drops are numbered from 1 in the order of their identifiers.
LEMMA PlacesAreNumbers ==
    ASSUME Supplement!DropSupplementAssumption
    PROVE  /\ Cardinality(NamedDrops) \in Nat
           /\ \A d \in NamedDrops : Supplement!Place(d) \in 1 .. Cardinality(NamedDrops)
           /\ \A m \in 0 .. Cardinality(NamedDrops) :
                Supplement!Cardinality({d \in NamedDrops : Supplement!Place(d) <= m}) = m
  <1> DEFINE N == Cardinality(NamedDrops)
             UpTo(d) == {o \in NamedDrops : o <= d}
  <1>1. NamedDrops \subseteq Nat \ {0} /\ IsFiniteSet(NamedDrops)
    BY SameSizes DEF Supplement!DropSupplementAssumption
  <1>2. N \in Nat
    BY <1>1, FS_CardinalityType
  <1>3. \A d \in NamedDrops : Supplement!Place(d) = Cardinality(UpTo(d))
    BY SameSizes DEF Supplement!Place
  <1>4. ASSUME NEW d \in NamedDrops
        PROVE  IsFiniteSet(UpTo(d)) /\ Cardinality(UpTo(d)) \in 1 .. N
    <2>1. UpTo(d) \in SUBSET NamedDrops /\ d \in UpTo(d)
      BY <1>1
    <2>2. IsFiniteSet(UpTo(d)) /\ Cardinality(UpTo(d)) <= N
      BY <1>1, <2>1, FS_Subset
    <2>3. Cardinality(UpTo(d)) \in Nat /\ Cardinality(UpTo(d)) # 0
      BY <2>1, <2>2, FS_CardinalityType, FS_EmptySet
    <2> QED
      BY <1>2, <2>2, <2>3
  <1>5. ASSUME NEW d \in NamedDrops, NEW e \in NamedDrops, d < e
        PROVE  Cardinality(UpTo(d)) < Cardinality(UpTo(e))
    <2>0. d \in Nat /\ e \in Nat /\ d < e
      BY <1>1, <1>5
    <2>1. UpTo(d) \in SUBSET UpTo(e) /\ e \in UpTo(e) /\ e \notin UpTo(d)
      <3>1. \A o \in NamedDrops : o \in Nat
        BY <1>1
      <3>2. e \in UpTo(e) /\ e \notin UpTo(d)
        BY <2>0
      <3>3. \A o \in NamedDrops : o <= d => o <= e
        BY <2>0, <3>1
      <3> QED
        BY <3>2, <3>3
    <2>2. /\ Cardinality(UpTo(d)) <= Cardinality(UpTo(e))
          /\ Cardinality(UpTo(d)) # Cardinality(UpTo(e))
      BY <1>4, <2>1, FS_Subset
    <2> HIDE DEF UpTo
    <2> QED
      BY <1>2, <1>4, <2>2
  <1> HIDE DEF N, UpTo
  <1> DEFINE place == [d \in NamedDrops |-> Supplement!Place(d)]
             Taken == {n \in 1 .. N : \E d \in NamedDrops : Supplement!Place(d) = n}
  <1>6. place \in Bijection(NamedDrops, Taken)
    <2>1. \A d \in NamedDrops : Supplement!Place(d) \in Taken
      BY <1>3, <1>4
    <2>2. ASSUME NEW d \in NamedDrops, NEW e \in NamedDrops,
                 Supplement!Place(d) = Supplement!Place(e)
          PROVE  d = e
      BY <1>1, <1>2, <1>3, <1>4, <1>5, <2>2
    <2> QED
      BY <2>1, <2>2, Fun_IsBij
  <1>7. Taken = 1 .. N
    <2>1. Cardinality(Taken) = N
      BY <1>1, <1>6, FS_Bijection DEF N, ExistsBijection
    <2>2. IsFiniteSet(1 .. N) /\ Cardinality(1 .. N) = N
      <3>1. \A m \in Nat : IsFiniteSet(1 .. m) /\ Cardinality(1 .. m) = m
        BY FS_Interval
      <3> QED
        BY <1>2, <3>1
    <2>3. Taken \in SUBSET (1 .. N)
      OBVIOUS
    <2> HIDE DEF Taken
    <2> QED
      BY <2>1, <2>2, <2>3, FS_Subset
  <1>8. ASSUME NEW m \in 0 .. N
        PROVE  Cardinality({d \in NamedDrops : Supplement!Place(d) <= m}) = m
    <2> DEFINE S == {d \in NamedDrops : Supplement!Place(d) <= m}
               f == [d \in S |-> Supplement!Place(d)]
    <2>1. f \in Bijection(S, 1 .. m)
      <3>1. \A d \in S : Supplement!Place(d) \in 1 .. m
        BY <1>2, <1>3, <1>4
      <3>2. \A d \in S, e \in S : Supplement!Place(d) = Supplement!Place(e) => d = e
        BY <1>6 DEF Bijection, Injection, IsInjective
      <3>3. \A n \in 1 .. m : \E d \in S : Supplement!Place(d) = n
        <4> TAKE n \in 1 .. m
        <4>1. n \in Taken
          BY <1>2, <1>7
        <4> QED
          BY <4>1
      <3> QED
        BY <3>1, <3>2, <3>3, Fun_IsBij
    <2>2. IsFiniteSet(S)
      BY <1>1, FS_Subset
    <2>3. IsFiniteSet(1 .. m) /\ Cardinality(1 .. m) = m
      <3>1. \A n \in Nat : IsFiniteSet(1 .. n) /\ Cardinality(1 .. n) = n
        BY FS_Interval
      <3> QED
        BY <1>2, <3>1
    <2> HIDE DEF S, f
    <2>4. Cardinality(1 .. m) = Cardinality(S)
      BY <2>1, <2>2, FS_Bijection DEF ExistsBijection
    <2> QED
      BY <2>3, <2>4 DEF S
  <1> QED
    BY <1>2, <1>3, <1>4, <1>8, SameSizes DEF N

\* What the pages of a run hold, and what its answers are.
PagesInv ==
    /\ frozen.query \in {"none", "torn", "whole"}
    /\ src \in [NamedDrops -> 0 .. 2] /\ moves \in 0 .. MaxAnswerChanges
    /\ faults \in 0 .. MaxFaults
    /\ Len(pages) <= Len(progress.pages) + 1
    /\ \A k \in 1 .. Len(progress.pages) :
         DOMAIN progress.pages[k] = Supplement!PageOf(k)
    /\ command.step \in {"page", "commit"} =>
         DOMAIN command.got = Supplement!PageOf(Len(progress.pages) + 1)

\* Every number is on one page.
LEMMA EveryPlaceHasAPage ==
    ASSUME NEW P \in Nat \ {0}, NEW a \in Nat \ {0}, NEW n \in Nat
    PROVE  a <= n * P <=> \E k \in 1 .. n : (k - 1) * P < a /\ a <= k * P
  <1>1. ASSUME a <= n * P
        PROVE  \E k \in 1 .. n : (k - 1) * P < a /\ a <= k * P
    <2> DEFINE q == (a - 1) \div P
    <2>1. /\ q \in Nat /\ q * P <= a - 1 /\ a - 1 < (q + 1) * P
      <3>1. \A c \in Nat, b \in Nat \ {0} :
               /\ c \div b \in Nat /\ (c \div b) * b <= c /\ c < (c \div b + 1) * b
        OBVIOUS
      <3> QED
        BY <3>1
    <2> HIDE DEF q
    <2>2. q < n
      <3>1. SUFFICES ASSUME n <= q PROVE FALSE
        BY <2>1
      <3>2. n * P <= q * P
        BY <2>1, <3>1
      <3>3. n * P \in Nat /\ q * P \in Nat
        BY <2>1
      <3> QED
        BY <1>1, <2>1, <3>2, <3>3
    <2>3. q + 1 \in 1 .. n /\ (q + 1) - 1 = q
      BY <2>1, <2>2
    <2>4. q * P \in Nat /\ (q + 1) * P \in Nat
      BY <2>1
    <2>5. (q + 1 - 1) * P < a /\ a <= (q + 1) * P
      BY <2>1, <2>3, <2>4
    <2> QED
      BY <2>3, <2>5
  <1>2. ASSUME NEW k \in 1 .. n, a <= k * P
        PROVE  a <= n * P
    <2>1. k * P <= n * P /\ k * P \in Nat /\ n * P \in Nat
      OBVIOUS
    <2> QED
      BY <1>2, <2>1
  <1> QED
    BY <1>1, <1>2

\* The page that is asked for next is the one after those that are there.
LEMMA TheNextPage ==
    ASSUME Supplement!DropSupplementAssumption, SupplementInv, PagesInv,
           ~Supplement!RelationsComplete
    PROVE  Supplement!NextIds = Supplement!PageOf(Len(progress.pages) + 1)
  <1> DEFINE n == Len(progress.pages)
             N == Cardinality(NamedDrops)
             First == {d \in NamedDrops : Supplement!Place(d) <= n * NamedPage}
  <1>1. PICK S : progress.pages \in Seq(S)
    BY DEF SupplementInv, DirectoryOK, Sequence
  <1>2. n \in Nat /\ NamedPage \in Nat \ {0} /\ n * NamedPage \in Nat
    BY <1>1 DEF Supplement!DropSupplementAssumption
  <1>3. Supplement!Asked = First
    <2>1. Supplement!Asked = UNION {Supplement!PageOf(k) : k \in 1 .. n}
      <3>1. Supplement!Range(progress.pages) = {progress.pages[k] : k \in 1 .. n}
        BY <1>1 DEF Supplement!Range
      <3> QED
        BY <3>1 DEF Supplement!Asked, PagesInv
    <2>2. ASSUME NEW d \in NamedDrops
          PROVE  d \in First <=> \E k \in 1 .. n : d \in Supplement!PageOf(k)
      <3>1. Supplement!Place(d) \in Nat \ {0}
        BY PlacesAreNumbers
      <3>2. Supplement!Place(d) <= n * NamedPage <=>
               \E k \in 1 .. n : /\ (k - 1) * NamedPage < Supplement!Place(d)
                                 /\ Supplement!Place(d) <= k * NamedPage
        BY <1>2, <3>1, EveryPlaceHasAPage
      <3> QED
        BY <3>2 DEF Supplement!PageOf
    <2>3. \A k : Supplement!PageOf(k) \subseteq NamedDrops
      BY DEF Supplement!PageOf
    <2> HIDE DEF n, First
    <2>4. First \subseteq NamedDrops
      BY DEF First
    <2> QED
      BY <2>1, <2>2, <2>3, <2>4
  <1>4. n * NamedPage \in 0 .. N
    <2>1. PICK d \in NamedDrops : d \notin First
      BY <1>3 DEF Supplement!RelationsComplete
    <2>2. Supplement!Place(d) \in 1 .. N /\ N \in Nat
      BY PlacesAreNumbers
    <2> HIDE DEF N
    <2> QED
      BY <1>2, <2>1, <2>2
  <1>5. Supplement!Cardinality(Supplement!Asked) = n * NamedPage
    BY <1>3, <1>4, PlacesAreNumbers
  <1>6. (n + 1) - 1 = n /\ (n + 1) * NamedPage = n * NamedPage + NamedPage
    BY <1>2
  <1> QED
    BY <1>5, <1>6 DEF Supplement!NextIds, Supplement!PageOf

LEMMA PagesStart ==
    ASSUME Supplement!DropSupplementAssumption, Supplement!Init
    PROVE  PagesInv
  <1> USE DEF Supplement!Init
  <1>1. /\ src \in [NamedDrops -> 0 .. 2] /\ moves \in 0 .. MaxAnswerChanges
        /\ faults \in 0 .. MaxFaults
    BY DEF Supplement!DropSupplementAssumption
  <1>2. command.step = "idle"
    BY DEF Supplement!Idle
  <1>3. progress.pages = pages /\ frozen.query \in {"none", "torn", "whole"}
    BY DEF Supplement!Unfrozen
  <1>4. Sequence(pages)
    BY PagesAreASequence, NothingIsASequence
  <1>5. Len(pages) \in Nat
    BY <1>4 DEF Sequence
  <1>6. \A k \in 1 .. Len(pages) : DOMAIN pages[k] = Supplement!PageOf(k)
    <2>1. CASE pages = <<>>
      BY <2>1
    <2>2. CASE pages = Supplement!PagesFrom(src)
      <3>1. PICK S : pages \in Seq(S)
        BY <1>4 DEF Sequence
      <3>2. 1 .. Len(pages) = DOMAIN pages
        BY <3>1
      <3> QED
        BY <2>2, <3>2 DEF Supplement!PagesFrom
    <2> QED
      BY <2>1, <2>2
  <1> QED
    BY <1>1, <1>2, <1>3, <1>5, <1>6 DEF PagesInv

LEMMA PagesKept ==
    ASSUME PagesInv, UNCHANGED pages, progress'.pages = progress.pages,
           command'.step \notin {"page", "commit"},
           frozen'.query \in {"none", "torn", "whole"},
           src' \in [NamedDrops -> 0 .. 2], moves' \in 0 .. MaxAnswerChanges,
           faults' \in 0 .. MaxFaults
    PROVE  PagesInv'
  BY DEF PagesInv

LEMMA GoesTo ==
    ASSUME CommandOK, NEW s, command' = [command EXCEPT !.step = s]
    PROVE  command'.step = s
  <1>1. CASE command = Supplement!Idle
    BY <1>1 DEF Supplement!Idle
  <1>2. CASE command # Supplement!Idle
    BY <1>2 DEF CommandOK
  <1> QED
    BY <1>1, <1>2

\* The steps of a run that take no page of relations.
LEMMA OtherStepsKeepPages ==
    ASSUME SupplementInv, PagesInv, Supplement!Step,
           ~Supplement!FetchPage, ~Supplement!WritePage, ~Supplement!CommitPage
    PROVE  PagesInv'
  <1> USE DEF Supplement!origin, Supplement!graphql, Supplement!artwork, Supplement!pool,
              Supplement!At, Supplement!GoTo, Supplement!Refuse
  <1>1. Supplement!Idle.step = "idle" /\ CommandOK
    BY DEF Supplement!Idle, SupplementInv
  <1>2. \A s : command' = [command EXCEPT !.step = s] => command'.step = s
    BY <1>1, GoesTo
  <1>3. ASSUME UNCHANGED <<src, moves, faults>>, UNCHANGED pages,
               progress'.pages = progress.pages, frozen'.query \in {"none", "torn", "whole"},
               command'.step \notin {"page", "commit"}
        PROVE  PagesInv'
    BY <1>3, PagesKept DEF PagesInv
  <1>4. frozen.query \in {"none", "torn", "whole"}
    BY DEF PagesInv
  <1>5. CASE Supplement!OpenQuery \/ Supplement!WriteQuery
    <2>1. frozen'.query \in {"none", "torn", "whole"}
      BY <1>4, <1>5 DEF Supplement!OpenQuery, Supplement!WriteQuery, SupplementInv, DirectoryOK
    <2>2. command'.step \notin {"page", "commit"}
      BY <1>1, <1>2, <1>5 DEF Supplement!OpenQuery, Supplement!WriteQuery
    <2> QED
      BY <1>3, <1>5, <2>1, <2>2 DEF Supplement!OpenQuery, Supplement!WriteQuery
  <1>6. CASE Supplement!InspectArchive \/ Supplement!Normalize \/ Supplement!WriteCatalog
    BY <1>1, <1>2, <1>3, <1>4, <1>6
       DEF Supplement!InspectArchive, Supplement!Normalize, Supplement!WriteCatalog
  <1>7. CASE Supplement!CopyProof
    <2>1. command'.step \notin {"page", "commit"}
      BY <1>1, <1>2, <1>7 DEF Supplement!CopyProof
    <2> QED
      BY <1>3, <1>4, <1>7, <2>1 DEF Supplement!CopyProof
  <1>8. CASE Supplement!OpenState
    <2>1. progress'.pages = progress.pages
      BY <1>8 DEF Supplement!OpenState, SupplementInv, DirectoryOK
    <2> QED
      BY <1>1, <1>2, <1>3, <1>4, <1>8, <2>1 DEF Supplement!OpenState
  <1>9. CASE Supplement!OpenPlan \/ Supplement!WritePlan
    <2>1. frozen'.query = frozen.query
      BY <1>9 DEF Supplement!OpenPlan, Supplement!WritePlan, SupplementInv, DirectoryOK
    <2>2. command'.step \notin {"page", "commit"}
      BY <1>1, <1>2, <1>9 DEF Supplement!OpenPlan, Supplement!WritePlan
    <2> QED
      BY <1>3, <1>4, <1>9, <2>1, <2>2 DEF Supplement!OpenPlan, Supplement!WritePlan
  <1>10. CASE Supplement!OpenCheckpoint \/ Supplement!WriteReferences \/
              Supplement!WriteManifest
    <2>1. command'.step \notin {"page", "commit"}
      BY <1>1, <1>2, <1>10
         DEF Supplement!OpenCheckpoint, Supplement!WriteReferences, Supplement!WriteManifest
    <2> QED
      BY <1>3, <1>4, <1>10, <2>1
         DEF Supplement!OpenCheckpoint, Supplement!WriteReferences, Supplement!WriteManifest
  <1> QED
    BY <1>5, <1>6, <1>7, <1>8, <1>9, <1>10 DEF Supplement!Step

LEMMA TakingKeepsPages ==
    ASSUME Supplement!DropSupplementAssumption, SupplementInv, PagesInv,
           Supplement!FetchPage \/ Supplement!WritePage \/ Supplement!CommitPage
    PROVE  PagesInv'
  <1> USE DEF Supplement!origin, Supplement!graphql, Supplement!artwork, Supplement!pool,
              Supplement!At, Supplement!GoTo
  <1>1. Supplement!Idle.step = "idle"
    BY DEF Supplement!Idle
  <1>2. CASE Supplement!FetchPage
    <2>1. CASE command' = Supplement!Idle
      BY <1>1, <1>2, <2>1 DEF Supplement!FetchPage, PagesInv
    <2>2. CASE command' # Supplement!Idle
      <3> DEFINE got == [d \in Supplement!NextIds |-> src[d]]
      <3>1. command' = [step |-> "page", archive |-> command.archive,
                        retry |-> command.retry, got |-> got]
        BY <1>2, <2>2 DEF Supplement!FetchPage
      <3>2. DOMAIN got = Supplement!PageOf(Len(progress.pages) + 1)
        BY <1>2, TheNextPage DEF Supplement!FetchPage
      <3> HIDE DEF got
      <3>3. DOMAIN command'.got = Supplement!PageOf(Len(progress.pages) + 1)
        BY <3>1, <3>2
      <3> QED
        BY <1>2, <3>3 DEF Supplement!FetchPage, PagesInv
    <2> QED
      BY <2>1, <2>2
  <1>3. CASE Supplement!WritePage
    <2>1. command.step = "page" /\ command.got = command'.got
      <3>1. command.step = "page" /\ CommandOK
        BY <1>3 DEF Supplement!WritePage, SupplementInv
      <3>2. command = [step |-> command.step, archive |-> command.archive,
                       retry |-> command.retry, got |-> command.got]
        BY <3>1, PageInHand
      <3> QED
        BY <1>3, <3>1, <3>2 DEF Supplement!WritePage
    <2>2. pages' = Append(progress.pages, command.got)
      BY <1>3 DEF Supplement!WritePage, SupplementInv, DirectoryOK, Supplement!PagesAreKept
    <2>3. Len(pages') = Len(progress.pages) + 1 /\ Len(progress.pages) \in Nat
      BY <2>2, Appending DEF SupplementInv, DirectoryOK
    <2> QED
      BY <1>3, <2>1, <2>3 DEF Supplement!WritePage, PagesInv
  <1>4. CASE Supplement!CommitPage
    <2> DEFINE s == progress.pages
               x == command.got
    <2>1. command.step = "commit" /\ command'.step = "relations" /\ pages = Append(s, x)
      BY <1>4 DEF Supplement!CommitPage, SupplementInv, RunIsAhead
    <2>2. progress'.pages = Append(s, x)
      BY <1>4 DEF Supplement!CommitPage, SupplementInv, DirectoryOK
    <2>3. /\ Len(s) \in Nat /\ Len(Append(s, x)) = Len(s) + 1
          /\ \A k \in 1 .. Len(s) : Append(s, x)[k] = s[k]
          /\ Append(s, x)[Len(s) + 1] = x
      <3>1. Sequence(s)
        BY DEF SupplementInv, DirectoryOK
      <3> HIDE DEF s, x
      <3> QED
        BY <3>1, Appending
    <2>4. DOMAIN x = Supplement!PageOf(Len(s) + 1)
      BY <2>1 DEF PagesInv
    <2>5. \A k \in 1 .. Len(s) : DOMAIN s[k] = Supplement!PageOf(k)
      BY DEF PagesInv
    <2> HIDE DEF s, x
    <2>6. \A k \in 1 .. Len(progress'.pages) :
             DOMAIN progress'.pages[k] = Supplement!PageOf(k)
      BY <2>2, <2>3, <2>4, <2>5
    <2>7. Len(pages') <= Len(progress'.pages) + 1
      BY <1>4, <2>1, <2>2, <2>3 DEF Supplement!CommitPage
    <2> QED
      BY <1>4, <2>1, <2>6, <2>7 DEF Supplement!CommitPage, PagesInv
  <1> QED
    BY <1>2, <1>3, <1>4

LEMMA PagesGoOn ==
    ASSUME Supplement!DropSupplementAssumption, SupplementInv, PagesInv,
           [Supplement!Next]_Supplement!vars
    PROVE  PagesInv'
  <1> USE DEF Supplement!origin, Supplement!graphql, Supplement!artwork, Supplement!pool
  <1>1. Supplement!Idle.step = "idle"
    BY DEF Supplement!Idle
  <1>2. \A f \in 0 .. MaxFaults : f < MaxFaults => f + 1 \in 0 .. MaxFaults
    BY DEF Supplement!DropSupplementAssumption
  <1>3. CASE Supplement!Step
    BY <1>3, OtherStepsKeepPages, TakingKeepsPages
  <1>4. ASSUME NEW e \in ArtworkArchives, NEW retry \in BOOLEAN, Supplement!Begin(e, retry),
               faults' \in 0 .. MaxFaults
        PROVE  PagesInv'
    BY <1>4, PagesKept DEF Supplement!Begin, PagesInv
  <1>5. CASE Supplement!Enrich
    BY <1>4, <1>5 DEF Supplement!Enrich, PagesInv
  <1>6. CASE Supplement!Repeat
    <2>1. faults' \in 0 .. MaxFaults
      BY <1>2, <1>6 DEF Supplement!Repeat, PagesInv
    <2> QED
      BY <1>4, <1>6, <2>1 DEF Supplement!Repeat
  <1>7. ASSUME UNCHANGED <<src, moves, frozen, progress, pages, command>>,
               faults' \in 0 .. MaxFaults
        PROVE  PagesInv'
    BY <1>7 DEF PagesInv
  <1>8. ASSUME NEW w \in Pool, Supplement!Download(w) \/ Supplement!Break(w)
        PROVE  PagesInv'
    <2>1. UNCHANGED <<src, moves, frozen, progress, pages, command>>
      BY <1>8
         DEF Supplement!Download, Supplement!Take, Supplement!Fetch, Supplement!Keep,
             Supplement!AppendRecord, Supplement!Break
    <2>2. faults' = faults \/ (faults < MaxFaults /\ faults' = faults + 1)
      BY <1>8
         DEF Supplement!Download, Supplement!Take, Supplement!Fetch, Supplement!Keep,
             Supplement!AppendRecord, Supplement!Break
    <2>3. faults' \in 0 .. MaxFaults
      BY <1>2, <2>2 DEF PagesInv
    <2> QED
      BY <1>7, <2>1, <2>3
  <1>9. CASE Supplement!Change
    <2>1. src' \in [NamedDrops -> 0 .. 2]
      BY <1>9 DEF Supplement!Change, PagesInv
    <2>2. moves' \in 0 .. MaxAnswerChanges
      BY <1>9 DEF Supplement!Change, PagesInv, Supplement!DropSupplementAssumption
    <2> QED
      BY <1>9, <2>1, <2>2 DEF Supplement!Change, PagesInv
  <1>10. CASE Supplement!Kill
    <2>1. faults' \in 0 .. MaxFaults
      BY <1>2, <1>10 DEF Supplement!Kill, PagesInv
    <2> QED
      BY <1>1, <1>10, <2>1, PagesKept DEF Supplement!Kill, PagesInv
  <1>11. CASE UNCHANGED Supplement!vars
    BY <1>7, <1>11 DEF Supplement!vars, PagesInv
  <1>12. CASE Supplement!Restart
    <2>1. /\ progress'.pages = <<>> /\ pages' = <<>> /\ frozen'.query = "none"
          /\ command' = Supplement!Idle /\ UNCHANGED <<src, moves, faults>>
      BY <1>12 DEF Supplement!Restart, Supplement!Unfrozen
    <2> QED
      BY <1>1, <2>1, NothingIsASequence DEF PagesInv
  <1> QED
    BY <1>3, <1>5, <1>6, <1>8, <1>9, <1>10, <1>11, <1>12
       DEF Supplement!Next, Supplement!Disturb, Supplement!Finished

\* What the supplement says of its progress.
LEMMA SupplementSays ==
    ASSUME Supplement!DropSupplementAssumption, SupplementInv, PagesInv
    PROVE  Supplement!TypeOK /\ Supplement!ProgressIsKept
  <1>1. PICK S : progress.pages \in Seq(S)
    BY DEF SupplementInv, DirectoryOK, Sequence
  <1>2. DOMAIN progress.pages = 1 .. Len(progress.pages)
    BY <1>1
  <1>3. Supplement!ProgressIsKept
    BY <1>2
       DEF Supplement!ProgressIsKept, PagesInv, SupplementInv, DirectoryOK, JournalOK,
           Supplement!Latest
  <1>4. \A d \in NamedDrops :
          Supplement!Latest(d).status \in
            {"pending", "stored", "quarantined", "failed", "missing"}
    BY DEF SupplementInv, JournalOK, RecordOK, Records, Supplement!Latest
  <1>5. Supplement!TypeOK
    BY <1>4 DEF Supplement!TypeOK, PagesInv, SupplementInv, PoolOK
  <1> QED
    BY <1>3, <1>5

-----------------------------------------------------------------------------
(* The import.                                                               *)

\* A statement is flushed when it is full, and a shard holds whole statements.
WriterOK(w) ==
    /\ w = [pending |-> w.pending, shard |-> w.shard, shards |-> w.shards]
    /\ Sequence(w.pending) /\ Len(w.pending) < StatementRows
    /\ Sequence(w.shard) /\ Len(w.shard) <= ShardRows

ImportInv ==
    /\ origin \in ImportSources /\ remote \in 1 .. Len(RemoteArt)
    /\ job = [at |-> job.at, parts |-> job.parts, art |-> job.art, emails |-> job.emails,
              drops |-> job.drops, queue |-> job.queue, writer |-> job.writer,
              acc |-> job.acc, counts |-> job.counts]
    /\ job.at \in Import!Importing \cup {"new", "failed", "imported", "verified", "refused"}
    /\ WriterOK(job.writer)

LEMMA Joining ==
    ASSUME NEW s, NEW t, Sequence(s), Sequence(t)
    PROVE  Sequence(s \o t) /\ Len(s \o t) = Len(s) + Len(t) /\ Len(s) \in Nat /\ Len(t) \in Nat
  <1>1. PICK S : s \in Seq(S)
    BY DEF Sequence
  <1>2. PICK T : t \in Seq(T)
    BY DEF Sequence
  <1>3. s \in Seq(S \cup T) /\ t \in Seq(S \cup T)
    BY <1>1, <1>2
  <1>4. s \o t \in Seq(S \cup T) /\ Len(s \o t) = Len(s) + Len(t)
    BY <1>3, ConcatProperties
  <1> QED
    BY <1>1, <1>2, <1>4 DEF Sequence

LEMMA NewWriterIsOK ==
    ASSUME Import!ArchiveImportAssumption
    PROVE  WriterOK(Import!NoWriter)
  <1>1. StatementRows \in Nat \ {0} /\ ShardRows \in Nat
    BY DEF Import!ArchiveImportAssumption
  <1> QED
    BY <1>1, NothingIsASequence DEF WriterOK, Import!NoWriter

\* addRow and flush: no statement and no shard has more rows than it may.
LEMMA AddedIsOK ==
    ASSUME Import!ArchiveImportAssumption, NEW w, WriterOK(w), NEW t
    PROVE  WriterOK(Import!Add(w, t))
  <1> DEFINE a == [pending |-> Append(w.pending, t), shard |-> w.shard, shards |-> w.shards]
  <1>1. StatementRows \in Nat \ {0} /\ ShardRows \in Nat /\ ShardRows >= StatementRows
    BY DEF Import!ArchiveImportAssumption
  <1>2. /\ Sequence(a.pending) /\ Len(a.pending) = Len(w.pending) + 1
        /\ Len(w.pending) \in Nat /\ Sequence(a.shard)
    BY Appending DEF WriterOK
  <1>3. [w EXCEPT !.pending = Append(@, t)] = a
    BY DEF WriterOK
  <1>4. Import!Add(w, t) = IF Len(a.pending) >= StatementRows THEN Import!Flush(a) ELSE a
    <2> HIDE DEF a
    <2> QED
      BY <1>3 DEF Import!Add
  <1>5. Len(a.shard) \in Nat /\ Len(a.shard) <= ShardRows
    BY <1>2, Joining DEF WriterOK
  <1>6. CASE ~(Len(a.pending) >= StatementRows)
    BY <1>1, <1>2, <1>4, <1>5, <1>6 DEF WriterOK
  <1>7. CASE Len(a.pending) >= StatementRows
    <2>1. a.pending # <<>> /\ Len(a.pending) = StatementRows
      BY <1>1, <1>2, <1>7, NothingIsASequence DEF WriterOK
    <2>2. CASE Len(a.shard) + Len(a.pending) > ShardRows
      <3>1. Import!Add(w, t) = [pending |-> <<>>, shard |-> a.pending,
                                shards |-> Append(a.shards, a.shard)]
        BY <1>4, <1>7, <2>1, <2>2 DEF Import!Flush
      <3>2. Len(a.pending) <= ShardRows /\ 0 < StatementRows
        BY <1>1, <2>1
      <3> DEFINE b == Import!Add(w, t)
      <3>3. /\ b = [pending |-> b.pending, shard |-> b.shard, shards |-> b.shards]
            /\ b.pending = <<>> /\ b.shard = a.pending
        BY <3>1
      <3> HIDE DEF a, b
      <3>4. WriterOK(b)
        BY <1>2, <3>2, <3>3, NothingIsASequence DEF WriterOK
      <3> QED
        BY <3>4 DEF b
    <2>3. CASE ~(Len(a.shard) + Len(a.pending) > ShardRows)
      <3> DEFINE x == a.shard \o a.pending
                 b == Import!Add(w, t)
      <3>1. b = [pending |-> <<>>, shard |-> x, shards |-> w.shards]
        BY <1>4, <1>7, <2>1, <2>3 DEF Import!Flush
      <3>2. Sequence(x) /\ Len(x) = Len(a.shard) + Len(a.pending)
        BY <1>2, Joining
      <3>3. Len(a.shard) \in Nat /\ Len(a.pending) \in Nat
        BY <1>2, Joining
      <3>4. \A k, m \in Nat : ~(k + m > ShardRows) => k + m <= ShardRows
        BY <1>1
      <3>5. Len(a.shard) + Len(a.pending) <= ShardRows
        <4> HIDE DEF a
        <4> QED
          BY <2>3, <3>3, <3>4
      <3> HIDE DEF x, a, b
      <3>6. /\ b = [pending |-> b.pending, shard |-> b.shard, shards |-> b.shards]
            /\ b.pending = <<>> /\ b.shard = x
        BY <3>1
      <3>7. Len(x) <= ShardRows /\ 0 < StatementRows
        <4>1. Len(x) <= ShardRows
          BY <3>2, <3>5
        <4>2. 0 < StatementRows
          BY <1>1
        <4> QED
          BY <4>1, <4>2
      <3>8. WriterOK(b)
        BY <3>2, <3>6, <3>7, NothingIsASequence DEF WriterOK
      <3> QED
        BY <3>8 DEF b
    <2> QED
      BY <2>2, <2>3
  <1> QED
    BY <1>6, <1>7

LEMMA ImportStarts ==
    ASSUME Import!ArchiveImportAssumption, Import!Init
    PROVE  ImportInv
  <1>1. 1 \in 1 .. Len(RemoteArt)
    <2>1. RemoteArt \in Seq(Seq([drop : Nat, ok : BOOLEAN])) /\ RemoteArt # <<>>
      BY DEF Import!ArchiveImportAssumption
    <2> QED
      BY <2>1
  <1> QED
    BY <1>1, NewWriterIsOK DEF ImportInv, Import!Init, Import!NewJob

LEMMA ImportGoesOn ==
    ASSUME Import!ArchiveImportAssumption, ImportInv, Import!Next
    PROVE  ImportInv'
  <1> USE DEF Import!Importing
  <1>1. CASE UNCHANGED <<origin, remote>> /\ job' = Import!NewJob
    BY <1>1, NewWriterIsOK DEF ImportInv, Import!NewJob
  <1>2. CASE Import!Replace
    <2>1. remote' \in 1 .. Len(RemoteArt) /\ UNCHANGED <<origin, job>>
      BY <1>2 DEF Import!Replace, ImportInv, Import!ArchiveImportAssumption
    <2> QED
      BY <2>1 DEF ImportInv
  <1>3. CASE Import!ReadToken
    <2> DEFINE t == Head(job.queue)
    <2>1. /\ job.at = "tokens" /\ UNCHANGED <<origin, remote>>
          /\ \/ job' = [job EXCEPT !.queue = Tail(@)]
             \/ \E acc : job' = [[job EXCEPT !.queue = Tail(@)] EXCEPT
                                   !.acc = acc, !.counts[t.drop] = @ + 1,
                                   !.writer = Import!Add(@, t)]
      BY <1>3, Zenon DEF Import!ReadToken
    <2>2. CASE job' = [job EXCEPT !.queue = Tail(@)]
      BY <2>1, <2>2 DEF ImportInv
    <2>3. ASSUME NEW acc, job' = [[job EXCEPT !.queue = Tail(@)] EXCEPT
                                   !.acc = acc, !.counts[t.drop] = @ + 1,
                                   !.writer = Import!Add(@, t)]
          PROVE  ImportInv'
      <3>1. job' = [at |-> job.at, parts |-> job.parts, art |-> job.art, emails |-> job.emails,
                    drops |-> job.drops, queue |-> Tail(job.queue),
                    writer |-> Import!Add(job.writer, t), acc |-> acc,
                    counts |-> [job.counts EXCEPT ![t.drop] = @ + 1]]
        BY <2>3 DEF ImportInv
      <3>2. WriterOK(Import!Add(job.writer, t))
        BY AddedIsOK DEF ImportInv
      <3> HIDE DEF t
      <3> QED
        BY <2>1, <3>1, <3>2 DEF ImportInv
    <2> QED
      BY <2>1, <2>2, <2>3
  <1>4. ASSUME UNCHANGED <<origin, remote>>,
               \E parts, art, emails, owned, queue, acc, counts :
               \E place \in Import!Importing \cup
                         {"new", "failed", "imported", "verified", "refused"} :
                  job' = [at |-> place, parts |-> parts, art |-> art, emails |-> emails,
                          drops |-> owned, queue |-> queue, writer |-> job.writer,
                          acc |-> acc, counts |-> counts]
        PROVE  ImportInv'
    BY <1>4 DEF ImportInv
  <1>5. CASE Import!FetchRange
    BY <1>4, <1>5 DEF Import!FetchRange, ImportInv
  <1>6. CASE Import!Inventory
    BY <1>4, <1>6 DEF Import!Inventory, ImportInv
  <1>7. CASE Import!Prepare
    BY <1>4, <1>7 DEF Import!Prepare, ImportInv
  <1>8. CASE Import!ReadCatalog
    BY <1>4, <1>8 DEF Import!ReadCatalog, ImportInv
  <1>9. CASE Import!CloseTokens
    BY <1>4, <1>9 DEF Import!CloseTokens, ImportInv
  <1>10. CASE Import!WriteCatalog
    BY <1>4, <1>10 DEF Import!WriteCatalog, ImportInv
  <1>11. CASE Import!Report
    BY <1>4, <1>11 DEF Import!Report, ImportInv
  <1>12. CASE Import!Verify
    BY <1>4, <1>12 DEF Import!Verify, ImportInv
  <1>13. CASE Import!Crash
    BY <1>4, <1>13 DEF Import!Crash, ImportInv
  <1>14. CASE Import!Restart
    BY <1>1, <1>14 DEF Import!Restart
  <1>15. CASE Import!Damage
    BY <1>4, <1>15 DEF Import!Damage, ImportInv
  <1> QED
    BY <1>2, <1>3, <1>5, <1>6, <1>7, <1>8, <1>9, <1>10, <1>11, <1>12, <1>13, <1>14, <1>15
       DEF Import!Next, Import!Import

LEMMA ImportIsTyped == ImportInv /\ Import!ArchiveImportAssumption => Import!TypeOK
  BY DEF ImportInv, WriterOK, Import!TypeOK, Import!ArchiveImportAssumption

-----------------------------------------------------------------------------
(* The backfill.                                                             *)

\* While the process runs, an owner whose tokens have no reference yet is in a range that
\* is still to be done; a journalled range has all of its references.
BackfillInv ==
    /\ refs \subseteq DOMAIN OwnersOfTokens /\ journal \subseteq Backfill!Ranges
    /\ faults \in 0 .. MaxRequestFaults
    /\ job = [at |-> job.at, todo |-> job.todo, known |-> job.known]
    /\ job.at \in {"idle", "running", "failed", "done"}
    /\ job.todo \in Seq(Backfill!Ranges) /\ job.known \subseteq journal
    /\ \A p \in journal : Backfill!InRange(p) \subseteq refs
    /\ job.at = "running" =>
          \A t \in DOMAIN OwnersOfTokens :
             t \in refs \/ \E i \in 1 .. Len(job.todo) :
                              Backfill!IsPrefix(job.todo[i], OwnersOfTokens[t])

LEMMA RangesAreStrings ==
    ASSUME Backfill!BackfillAssumption
    PROVE  /\ \A p \in Backfill!Ranges :
                 /\ p \in Seq(Backfill!Digits) /\ Len(p) \in 1 .. MaxPrefix
                 /\ DOMAIN p = 1 .. Len(p)
           /\ \A p \in Seq(Backfill!Digits) : Len(p) \in 1 .. MaxPrefix => p \in Backfill!Ranges
           /\ \A t \in DOMAIN OwnersOfTokens :
                 /\ OwnersOfTokens[t] \in Seq(Backfill!Digits)
                 /\ Len(OwnersOfTokens[t]) = AddressDigits
  <1>1. AddressDigits \in Nat /\ MaxPrefix \in 1 .. AddressDigits
    BY DEF Backfill!BackfillAssumption
  <1>2. ASSUME NEW p \in Backfill!Ranges
        PROVE  /\ p \in Seq(Backfill!Digits) /\ Len(p) \in 1 .. MaxPrefix
               /\ DOMAIN p = 1 .. Len(p)
    <2>1. PICK n \in 1 .. MaxPrefix : p \in [1 .. n -> Backfill!Digits]
      BY DEF Backfill!Ranges
    <2>2. n \in Nat
      BY <1>1
    <2> QED
      BY <2>1, <2>2
  <1>3. ASSUME NEW p \in Seq(Backfill!Digits), Len(p) \in 1 .. MaxPrefix
        PROVE  p \in Backfill!Ranges
    <2>1. p \in [1 .. Len(p) -> Backfill!Digits]
      OBVIOUS
    <2> QED
      BY <1>3, <2>1 DEF Backfill!Ranges
  <1>4. ASSUME NEW t \in DOMAIN OwnersOfTokens
        PROVE  /\ OwnersOfTokens[t] \in Seq(Backfill!Digits)
               /\ Len(OwnersOfTokens[t]) = AddressDigits
    <2>1. OwnersOfTokens[t] \in [1 .. AddressDigits -> Backfill!Digits]
      BY DEF Backfill!BackfillAssumption, Backfill!Addresses
    <2> QED
      BY <1>1, <2>1
  <1> QED
    BY <1>2, <1>3, <1>4

LEMMA PrefixMeans ==
    ASSUME NEW S, NEW p \in Seq(S), NEW a \in Seq(S)
    PROVE  Backfill!IsPrefix(p, a) <=>
              Len(p) <= Len(a) /\ \A i \in 1 .. Len(p) : p[i] = a[i]
  <1>1. CASE ~(Len(p) <= Len(a))
    BY <1>1 DEF Backfill!IsPrefix
  <1>2. CASE Len(p) <= Len(a)
    <2>1. /\ SubSeq(p, 1, Len(p)) = p
          /\ SubSeq(a, 1, Len(p)) \in Seq(S) /\ Len(SubSeq(a, 1, Len(p))) = Len(p)
          /\ \A i \in 1 .. Len(p) : SubSeq(a, 1, Len(p))[i] = a[i]
      BY <1>2
    <2>2. SubSeq(a, 1, Len(p)) = p <=> \A i \in 1 .. Len(p) : p[i] = a[i]
      BY <2>1, SeqEqual
    <2> QED
      BY <1>2, <2>1, <2>2 DEF Backfill!IsPrefix
  <1> QED
    BY <1>1, <1>2

\* The greatest of a finite set of numbers.
LEMMA GreatestOf ==
    ASSUME NEW n \in Nat, NEW T \in SUBSET (1 .. n), T # {}
    PROVE  Backfill!Max(T) \in T /\ \A i \in T : Backfill!Max(T) >= i
  <1> DEFINE W == {n - i : i \in T}
  <1>1. W \subseteq Nat /\ W # {}
    <2>1. PICK k : k \in T
      OBVIOUS
    <2>2. n - k \in W
      BY <2>1
    <2> QED
      BY <2>2
  <1>2. \E w \in W : \A v \in W : ~(v < w)
    <2>1. PICK w \in W : \A v \in W : <<v, w>> \notin OpToRel(<, Nat)
      BY <1>1, NatLessThanWellFounded, WFMin
    <2> QED
      BY <1>1, <2>1 DEF OpToRel
  <1>3. PICK m \in T : \A i \in T : ~(n - i < n - m)
    BY <1>2
  <1>4. \A i \in T : m >= i
    BY <1>3
  <1> QED
    BY <1>3, <1>4 DEF Backfill!Max

\* addressBoundsForPrefix: the bounds of a prefix hold every address that begins with it.
LEMMA RangesHoldTheirAddresses ==
    ASSUME Backfill!BackfillAssumption, NEW p \in Backfill!Ranges,
           NEW t \in DOMAIN OwnersOfTokens, Backfill!IsPrefix(p, OwnersOfTokens[t])
    PROVE  t \in Backfill!InRange(p)
  <1> DEFINE a == OwnersOfTokens[t]
             n == Len(p)
             c == Backfill!Max({i \in DOMAIN p : p[i] # Base - 1})
  <1>1. /\ AddressDigits \in Nat /\ n \in 1 .. AddressDigits /\ Base \in Nat \ {0, 1}
        /\ p \in [1 .. n -> Backfill!Digits] /\ a \in [1 .. AddressDigits -> Backfill!Digits]
        /\ \A i \in 1 .. n : p[i] = a[i]
    BY RangesAreStrings, PrefixMeans
       DEF Backfill!BackfillAssumption, Backfill!Addresses
  <1>2. /\ \A i \in 1 .. n : p[i] \in Nat
        /\ \A i \in 1 .. AddressDigits : a[i] \in Nat
    <2>1. Backfill!Digits \subseteq Nat
      BY <1>1 DEF Backfill!Digits
    <2> QED
      BY <1>1, <2>1
  <1>3. ~Backfill!Precedes(a, Backfill!Padded(p))
    <2> SUFFICES ASSUME NEW i \in 1 .. AddressDigits, a[i] < Backfill!Padded(p)[i]
                 PROVE  FALSE
      BY DEF Backfill!Precedes
    <2>1. Backfill!Padded(p)[i] = IF i <= n THEN p[i] ELSE 0
      BY DEF Backfill!Padded
    <2>2. a[i] \in Nat /\ (i <= n => i \in 1 .. n)
      <3> HIDE DEF a, n
      <3> QED
        BY <1>1, <1>2
    <2> QED
      BY <1>1, <2>1, <2>2
  <1>4. ASSUME ~Backfill!IsLast(p)
        PROVE  Backfill!Precedes(a, Backfill!Padded(Backfill!Following(p)))
    <2> DEFINE T == {i \in DOMAIN p : p[i] # Base - 1}
               f == Backfill!Following(p)
    <2>1. n \in Nat /\ T \in SUBSET (1 .. n) /\ T # {}
      BY <1>1, <1>4 DEF Backfill!IsLast
    <2>2. c \in T
      <3> HIDE DEF T, n
      <3> QED
        BY <2>1, GreatestOf DEF T
    <2>3. f = [i \in 1 .. n |-> IF i < c THEN p[i] ELSE IF i = c THEN p[i] + 1 ELSE 0]
      BY <1>1 DEF Backfill!Following
    <2>4. Len(f) = n
      <3> HIDE DEF f
      <3> QED
        BY <2>1, <2>3
    <2>5. \A i \in 1 .. n : Backfill!Padded(f)[i] = f[i]
      <3> HIDE DEF f
      <3> QED
        BY <1>1, <2>4 DEF Backfill!Padded
    <2>6. c \in 1 .. AddressDigits /\ c \in 1 .. n
      BY <1>1, <2>2
    <2> HIDE DEF f, c, n, T, a
    <2>7. f[c] = p[c] + 1 /\ \A j \in 1 .. (c - 1) : f[j] = p[j] /\ j \in 1 .. n
      BY <2>1, <2>3, <2>6
    <2>8. a[c] < Backfill!Padded(f)[c]
      <3>1. Backfill!Padded(f)[c] = p[c] + 1 /\ a[c] = p[c] /\ p[c] \in Nat
        BY <1>1, <1>2, <2>5, <2>6, <2>7
      <3> QED
        BY <3>1
    <2>9. \A j \in 1 .. (c - 1) : a[j] = Backfill!Padded(f)[j]
      BY <1>1, <2>5, <2>7
    <2> QED
      BY <2>6, <2>8, <2>9 DEF Backfill!Precedes, f
  <1> QED
    BY <1>3, <1>4 DEF Backfill!InRange

LEMMA PrefixOfPrefix ==
    ASSUME NEW S, NEW p \in Seq(S), NEW q \in Seq(S), NEW a \in Seq(S),
           Backfill!IsPrefix(p, q), Backfill!IsPrefix(q, a)
    PROVE  Backfill!IsPrefix(p, a)
  <1>1. Len(p) <= Len(q) /\ \A i \in 1 .. Len(p) : p[i] = q[i]
    BY PrefixMeans
  <1>2. Len(q) <= Len(a) /\ \A i \in 1 .. Len(q) : q[i] = a[i]
    BY PrefixMeans
  <1>3. Len(p) <= Len(a) /\ \A i \in 1 .. Len(p) : p[i] = a[i]
    BY <1>1, <1>2
  <1> QED
    BY <1>3, PrefixMeans

\* isRangeCovered: what a range of the journal covers, or the ranges it was split into, has
\* its references.
LEMMA CoveredIsDone ==
    ASSUME Backfill!BackfillAssumption, BackfillInv, NEW p \in Backfill!Ranges,
           Backfill!Covered(p, job.known),
           NEW t \in DOMAIN OwnersOfTokens, Backfill!IsPrefix(p, OwnersOfTokens[t])
    PROVE  t \in refs
  <1> DEFINE a == OwnersOfTokens[t]
  <1>1. /\ p \in Seq(Backfill!Digits) /\ Len(p) \in 1 .. MaxPrefix
        /\ a \in Seq(Backfill!Digits) /\ Len(a) = AddressDigits
        /\ AddressDigits \in Nat /\ MaxPrefix \in 1 .. AddressDigits
    BY RangesAreStrings DEF Backfill!BackfillAssumption
  <1>2. ASSUME NEW k \in job.known, Backfill!IsPrefix(k, a)
        PROVE  t \in refs
    <2>1. k \in journal /\ k \in Backfill!Ranges
      BY DEF BackfillInv
    <2>2. t \in Backfill!InRange(k)
      BY <1>2, <2>1, RangesHoldTheirAddresses
    <2> QED
      BY <2>1, <2>2 DEF BackfillInv
  <1>3. \A k \in job.known : k \in Seq(Backfill!Digits)
    BY RangesAreStrings DEF BackfillInv
  <1>4. CASE \E k \in job.known : Backfill!IsPrefix(k, p)
    <2>1. PICK k \in job.known : Backfill!IsPrefix(k, p)
      BY <1>4
    <2>2. Backfill!IsPrefix(k, a)
      BY <1>1, <1>3, <2>1, PrefixOfPrefix
    <2> QED
      BY <1>2, <2>2
  <1>5. CASE ~ \E k \in job.known : Backfill!IsPrefix(k, p)
    <2> DEFINE q == SubSeq(a, 1, MaxPrefix)
    <2>1. /\ q \in Seq(Backfill!Digits) /\ Len(q) = MaxPrefix
          /\ \A i \in 1 .. MaxPrefix : q[i] = a[i]
      <3> HIDE DEF a
      <3> QED
        BY <1>1
    <2> HIDE DEF q, a
    <2>2. q \in Backfill!Ranges
      BY <1>1, <2>1, RangesAreStrings
    <2>3. Len(p) <= Len(a) /\ \A i \in 1 .. Len(p) : p[i] = a[i]
      BY <1>1, PrefixMeans DEF a
    <2>4. Backfill!IsPrefix(p, q) /\ Backfill!IsPrefix(q, a)
      <3>1. Len(p) <= Len(q) /\ \A i \in 1 .. Len(p) : p[i] = q[i]
        BY <1>1, <2>1, <2>3
      <3>2. Len(q) <= Len(a) /\ \A i \in 1 .. Len(q) : q[i] = a[i]
        BY <1>1, <2>1
      <3> QED
        BY <1>1, <2>1, <3>1, <3>2, PrefixMeans
    <2>5. PICK k \in job.known : Backfill!IsPrefix(k, q)
      BY <1>5, <2>1, <2>2, <2>4 DEF Backfill!Covered
    <2>6. Backfill!IsPrefix(k, a)
      BY <1>1, <1>3, <2>1, <2>4, <2>5, PrefixOfPrefix
    <2> QED
      BY <1>2, <2>6 DEF a
  <1> QED
    BY <1>4, <1>5

LEMMA TheRest ==
    ASSUME NEW S, NEW s \in Seq(S), s # <<>>
    PROVE  /\ Head(s) = s[1] /\ Head(s) \in S /\ Len(s) \in Nat \ {0}
           /\ Tail(s) \in Seq(S) /\ Len(Tail(s)) = Len(s) - 1
           /\ \A i \in 1 .. Len(s) : i # 1 => Tail(s)[i - 1] = s[i]
  <1>1. Len(s) \in Nat \ {0}
    OBVIOUS
  <1> QED
    BY <1>1

\* A range that is done leaves what the other ranges are still to do.
LEMMA OthersAreLeft ==
    ASSUME BackfillInv, job.at = "running", job.todo # <<>>, NEW r, refs \subseteq r,
           \A t \in DOMAIN OwnersOfTokens :
              Backfill!IsPrefix(Head(job.todo), OwnersOfTokens[t]) => t \in r
    PROVE  \A t \in DOMAIN OwnersOfTokens :
              t \in r \/ \E i \in 1 .. Len(Tail(job.todo)) :
                            Backfill!IsPrefix(Tail(job.todo)[i], OwnersOfTokens[t])
  <1> TAKE t \in DOMAIN OwnersOfTokens
  <1>1. /\ Head(job.todo) = job.todo[1] /\ Len(job.todo) \in Nat \ {0}
        /\ Len(Tail(job.todo)) = Len(job.todo) - 1
        /\ \A i \in 1 .. Len(job.todo) : i # 1 => Tail(job.todo)[i - 1] = job.todo[i]
    BY TheRest DEF BackfillInv
  <1>2. CASE t \notin r
    <2>1. PICK i \in 1 .. Len(job.todo) : Backfill!IsPrefix(job.todo[i], OwnersOfTokens[t])
      BY <1>2 DEF BackfillInv
    <2>2. i # 1
      BY <1>1, <1>2, <2>1
    <2>3. i - 1 \in 1 .. Len(Tail(job.todo))
      BY <1>1, <2>2
    <2> QED
      BY <1>1, <2>1, <2>2, <2>3
  <1> QED
    BY <1>2

LEMMA BackfillStarts ==
    ASSUME Backfill!BackfillAssumption, Backfill!Init
    PROVE  BackfillInv
  <1>1. <<>> \in Seq(Backfill!Ranges)
    OBVIOUS
  <1>2. MaxRequestFaults \in Nat
    BY DEF Backfill!BackfillAssumption
  <1> QED
    BY <1>1, <1>2 DEF Backfill!Init, BackfillInv

\* The ranges of one digit are all there are.
LEMMA RangesBegin ==
    ASSUME Backfill!BackfillAssumption
    PROVE  LET all == [i \in 1 .. Base |-> <<i - 1>>]
           IN /\ all \in Seq(Backfill!Ranges)
              /\ \A t \in DOMAIN OwnersOfTokens :
                    \E i \in 1 .. Len(all) : Backfill!IsPrefix(all[i], OwnersOfTokens[t])
  <1> DEFINE all == [i \in 1 .. Base |-> <<i - 1>>]
  <1>1. Base \in Nat /\ MaxPrefix \in 1 .. AddressDigits /\ AddressDigits \in Nat
    BY DEF Backfill!BackfillAssumption
  <1>2. ASSUME NEW i \in 1 .. Base
        PROVE  <<i - 1>> \in Seq(Backfill!Digits) /\ Len(<<i - 1>>) = 1 /\ <<i - 1>>[1] = i - 1
               /\ <<i - 1>> \in Backfill!Ranges
    <2>1. i - 1 \in Backfill!Digits
      BY <1>1 DEF Backfill!Digits
    <2>2. <<i - 1>> \in Seq(Backfill!Digits) /\ Len(<<i - 1>>) = 1 /\ <<i - 1>>[1] = i - 1
      BY <2>1
    <2>3. Len(<<i - 1>>) \in 1 .. MaxPrefix
      BY <1>1, <2>2
    <2> QED
      BY <2>2, <2>3, RangesAreStrings
  <1>3. all \in Seq(Backfill!Ranges) /\ Len(all) = Base
    BY <1>1, <1>2
  <1>4. ASSUME NEW t \in DOMAIN OwnersOfTokens
        PROVE  \E i \in 1 .. Len(all) : Backfill!IsPrefix(all[i], OwnersOfTokens[t])
    <2>1. /\ OwnersOfTokens[t] \in Seq(Backfill!Digits)
          /\ Len(OwnersOfTokens[t]) = AddressDigits
      BY RangesAreStrings
    <2>2. OwnersOfTokens[t][1] \in Backfill!Digits
      BY <1>1, <2>1
    <2> DEFINE i == OwnersOfTokens[t][1] + 1
    <2>3. i \in 1 .. Base /\ i - 1 = OwnersOfTokens[t][1]
      BY <1>1, <2>2 DEF Backfill!Digits
    <2>4. all[i] = <<i - 1>>
      BY <2>3
    <2>5. Backfill!IsPrefix(<<i - 1>>, OwnersOfTokens[t])
      <3>1. /\ Len(<<i - 1>>) <= Len(OwnersOfTokens[t])
            /\ \A k \in 1 .. Len(<<i - 1>>) : <<i - 1>>[k] = OwnersOfTokens[t][k]
        BY <1>1, <1>2, <2>1, <2>3
      <3> QED
        BY <1>2, <2>1, <2>3, <3>1, PrefixMeans
    <2> QED
      BY <1>3, <2>3, <2>4, <2>5
  <1> QED
    BY <1>3, <1>4

LEMMA PartsCoverTheRange ==
    ASSUME Backfill!BackfillAssumption, NEW p \in Backfill!Ranges, Len(p) < MaxPrefix
    PROVE  /\ Backfill!Children(p) \in Seq(Backfill!Ranges)
           /\ \A t \in DOMAIN OwnersOfTokens :
                 Backfill!IsPrefix(p, OwnersOfTokens[t]) =>
                 \E i \in 1 .. Len(Backfill!Children(p)) :
                    Backfill!IsPrefix(Backfill!Children(p)[i], OwnersOfTokens[t])
  <1> DEFINE parts == Backfill!Children(p)
  <1>1. /\ Base \in Nat /\ MaxPrefix \in 1 .. AddressDigits /\ AddressDigits \in Nat
        /\ p \in Seq(Backfill!Digits) /\ Len(p) \in 1 .. MaxPrefix
    BY RangesAreStrings DEF Backfill!BackfillAssumption
  <1>2. parts = [i \in 1 .. Base |-> Append(p, i - 1)]
    BY DEF Backfill!Children
  <1>3. ASSUME NEW i \in 1 .. Base
        PROVE  /\ parts[i] \in Seq(Backfill!Digits) /\ Len(parts[i]) = Len(p) + 1
               /\ \A k \in 1 .. Len(p) : parts[i][k] = p[k]
               /\ parts[i][Len(p) + 1] = i - 1
               /\ parts[i] \in Backfill!Ranges
    <2>1. i - 1 \in Backfill!Digits
      BY <1>1 DEF Backfill!Digits
    <2>2. parts[i] = Append(p, i - 1)
      BY <1>2
    <2> HIDE DEF parts
    <2>3. /\ parts[i] \in Seq(Backfill!Digits) /\ Len(parts[i]) = Len(p) + 1
          /\ \A k \in 1 .. Len(p) : parts[i][k] = p[k]
          /\ parts[i][Len(p) + 1] = i - 1
      BY <1>1, <2>1, <2>2, AppendProperties
    <2>4. Len(parts[i]) \in 1 .. MaxPrefix
      BY <1>1, <2>3
    <2> QED
      BY <2>3, <2>4, RangesAreStrings
  <1>4. parts \in Seq(Backfill!Ranges) /\ Len(parts) = Base
    <2>1. \A i \in 1 .. Base : parts[i] \in Backfill!Ranges
      BY <1>3
    <2> HIDE DEF parts
    <2>2. parts \in [1 .. Base -> Backfill!Ranges]
      BY <1>2, <2>1
    <2> QED
      BY <1>1, <2>2
  <1> HIDE DEF parts
  <1>5. ASSUME NEW t \in DOMAIN OwnersOfTokens, Backfill!IsPrefix(p, OwnersOfTokens[t])
        PROVE  \E i \in 1 .. Len(parts) : Backfill!IsPrefix(parts[i], OwnersOfTokens[t])
    <2> DEFINE a == OwnersOfTokens[t]
               i == a[Len(p) + 1] + 1
    <2>1. /\ a \in Seq(Backfill!Digits) /\ Len(a) = AddressDigits
          /\ \A k \in 1 .. Len(p) : p[k] = a[k]
      BY <1>1, <1>5, RangesAreStrings, PrefixMeans
    <2>2. Len(p) + 1 \in 1 .. Len(a) /\ Len(p) + 1 <= Len(a)
      BY <1>1, <2>1
    <2>3. a[Len(p) + 1] \in Backfill!Digits
      <3> HIDE DEF a
      <3> QED
        BY <2>1, <2>2
    <2>4. i \in 1 .. Base /\ i - 1 = a[Len(p) + 1]
      <3> HIDE DEF a
      <3> QED
        BY <1>1, <2>3 DEF Backfill!Digits
    <2> HIDE DEF a, i
    <2>5. Len(parts[i]) <= Len(a) /\ \A k \in 1 .. Len(parts[i]) : parts[i][k] = a[k]
      <3>1. Len(parts[i]) = Len(p) + 1 /\ \A k \in 1 .. Len(p) : parts[i][k] = a[k]
        BY <1>3, <2>1, <2>4
      <3>2. parts[i][Len(p) + 1] = a[Len(p) + 1]
        BY <1>3, <2>4
      <3>3. Len(p) \in Nat
        BY <1>1
      <3> QED
        BY <2>2, <3>1, <3>2, <3>3
    <2>6. Backfill!IsPrefix(parts[i], a)
      BY <1>3, <2>1, <2>4, <2>5, PrefixMeans
    <2> QED
      BY <1>4, <2>4, <2>6 DEF a
  <1> QED
    BY <1>4, <1>5 DEF parts

LEMMA BackfillGoesOn ==
    ASSUME Backfill!BackfillAssumption, BackfillInv, Backfill!Next
    PROVE  BackfillInv'
  <1> DEFINE p == Head(job.todo)
  <1>1. /\ job = [at |-> job.at, todo |-> job.todo, known |-> job.known]
        /\ job.todo \in Seq(Backfill!Ranges) /\ job.known \subseteq journal
        /\ refs \subseteq DOMAIN OwnersOfTokens /\ journal \subseteq Backfill!Ranges
        /\ faults \in 0 .. MaxRequestFaults
        /\ \A q \in journal : Backfill!InRange(q) \subseteq refs
    BY DEF BackfillInv
  <1>2. ASSUME job.todo # <<>>
        PROVE  /\ p \in Backfill!Ranges /\ Tail(job.todo) \in Seq(Backfill!Ranges)
               /\ \A t \in DOMAIN OwnersOfTokens :
                     Backfill!IsPrefix(p, OwnersOfTokens[t]) => t \in Backfill!InRange(p)
    BY <1>1, <1>2, TheRest, RangesHoldTheirAddresses
  <1>3. \A q : Backfill!InRange(q) \subseteq DOMAIN OwnersOfTokens
    BY DEF Backfill!InRange
  <1>4. CASE Backfill!Start
    <2>1. job' = [at |-> "running", todo |-> [i \in 1 .. Base |-> <<i - 1>>], known |-> journal]
      BY <1>4 DEF Backfill!Start
    <2>2. /\ job'.todo \in Seq(Backfill!Ranges)
          /\ \A t \in DOMAIN OwnersOfTokens :
                \E i \in 1 .. Len(job'.todo) : Backfill!IsPrefix(job'.todo[i], OwnersOfTokens[t])
      BY <2>1, RangesBegin
    <2>3. UNCHANGED <<refs, journal, faults>>
      BY <1>4 DEF Backfill!Start
    <2> QED
      BY <1>1, <2>1, <2>2, <2>3 DEF BackfillInv
  <1>5. CASE Backfill!Skip
    <2>1. /\ job.at = "running" /\ job.todo # <<>> /\ Backfill!Covered(p, job.known)
          /\ UNCHANGED <<refs, journal, faults>>
          /\ job' = [at |-> "running", todo |-> Tail(job.todo), known |-> job.known]
      BY <1>1, <1>5 DEF Backfill!Skip, Backfill!Done
    <2>2. \A t \in DOMAIN OwnersOfTokens : Backfill!IsPrefix(p, OwnersOfTokens[t]) => t \in refs
      BY <1>2, <2>1, CoveredIsDone
    <2>3. \A t \in DOMAIN OwnersOfTokens :
             t \in refs \/ \E i \in 1 .. Len(Tail(job.todo)) :
                              Backfill!IsPrefix(Tail(job.todo)[i], OwnersOfTokens[t])
      BY <2>1, <2>2, OthersAreLeft
    <2> HIDE DEF p
    <2> QED
      BY <1>1, <1>2, <2>1, <2>3 DEF BackfillInv
  <1>6. CASE Backfill!Fill
    <2>1. /\ job.at = "running" /\ job.todo # <<>>
          /\ refs' = refs \cup Backfill!InRange(p) /\ journal' = journal \cup {p}
          /\ faults' = faults
          /\ job' = [at |-> "running", todo |-> Tail(job.todo), known |-> job.known \cup {p}]
      BY <1>1, <1>6 DEF Backfill!Fill, Backfill!Pending, Backfill!Done
    <2>2. \A t \in DOMAIN OwnersOfTokens : Backfill!IsPrefix(p, OwnersOfTokens[t]) => t \in refs'
      BY <1>2, <2>1
    <2>3. \A t \in DOMAIN OwnersOfTokens :
             t \in refs' \/ \E i \in 1 .. Len(Tail(job.todo)) :
                               Backfill!IsPrefix(Tail(job.todo)[i], OwnersOfTokens[t])
      BY <2>1, <2>2, OthersAreLeft
    <2> HIDE DEF p
    <2> QED
      BY <1>1, <1>2, <1>3, <2>1, <2>3 DEF BackfillInv
  <1>7. CASE Backfill!Fail
    <2>1. job.at = "running" /\ job.todo # <<>> /\ faults' \in 0 .. MaxRequestFaults
      <3>1. faults < MaxRequestFaults /\ faults' = faults + 1 /\ MaxRequestFaults \in Nat
        BY <1>7 DEF Backfill!Fail, Backfill!BackfillAssumption
      <3> QED
        BY <1>1, <1>7, <3>1 DEF Backfill!Fail, Backfill!Pending
    <2>2. /\ refs \subseteq refs' /\ refs' \subseteq DOMAIN OwnersOfTokens
          /\ journal \subseteq journal' /\ journal' \subseteq Backfill!Ranges
          /\ \A q \in journal' : Backfill!InRange(q) \subseteq refs'
      <3>1. \/ UNCHANGED <<refs, journal>>
            \/ refs' = refs \cup Backfill!InRange(p) /\ journal' \in {journal, journal \cup {p}}
        BY <1>7 DEF Backfill!Fail
      <3> HIDE DEF p
      <3> QED
        BY <1>1, <1>2, <1>3, <2>1, <3>1
    <2>3. \/ /\ Len(p) < MaxPrefix
             /\ job' = [at |-> "running", known |-> job.known,
                        todo |-> Backfill!Children(p) \o Tail(job.todo)]
          \/ job' = [at |-> "failed", todo |-> job.todo, known |-> job.known]
      BY <1>1, <1>7, <2>1 DEF Backfill!Fail
    <2>4. CASE job' = [at |-> "failed", todo |-> job.todo, known |-> job.known]
      BY <1>1, <2>1, <2>2, <2>4 DEF BackfillInv
    <2>5. CASE /\ Len(p) < MaxPrefix
               /\ job' = [at |-> "running", known |-> job.known,
                          todo |-> Backfill!Children(p) \o Tail(job.todo)]
      <3> DEFINE parts == Backfill!Children(p)
                 rest == Tail(job.todo)
      <3>1. /\ parts \in Seq(Backfill!Ranges) /\ rest \in Seq(Backfill!Ranges)
            /\ \A t \in DOMAIN OwnersOfTokens :
                  Backfill!IsPrefix(p, OwnersOfTokens[t]) =>
                  \E i \in 1 .. Len(parts) : Backfill!IsPrefix(parts[i], OwnersOfTokens[t])
        BY <1>2, <2>1, <2>5, PartsCoverTheRange
      <3> HIDE DEF parts, rest
      <3>2. /\ parts \o rest \in Seq(Backfill!Ranges)
            /\ Len(parts \o rest) = Len(parts) + Len(rest)
            /\ Len(parts) \in Nat /\ Len(rest) \in Nat
            /\ \A i \in 1 .. Len(parts) + Len(rest) :
                  (parts \o rest)[i] = IF i <= Len(parts) THEN parts[i] ELSE rest[i - Len(parts)]
        BY <3>1, ConcatProperties, LenProperties
      <3>3. ASSUME NEW t \in DOMAIN OwnersOfTokens, t \notin refs'
            PROVE  \E i \in 1 .. Len(parts \o rest) :
                      Backfill!IsPrefix((parts \o rest)[i], OwnersOfTokens[t])
        <4>1. CASE Backfill!IsPrefix(p, OwnersOfTokens[t])
          <5>1. PICK i \in 1 .. Len(parts) : Backfill!IsPrefix(parts[i], OwnersOfTokens[t])
            BY <3>1, <4>1
          <5>2. i \in 1 .. Len(parts \o rest) /\ (parts \o rest)[i] = parts[i]
            BY <3>2
          <5> QED
            BY <5>1, <5>2
        <4>2. CASE ~Backfill!IsPrefix(p, OwnersOfTokens[t])
          <5>1. PICK i \in 1 .. Len(job.todo) : Backfill!IsPrefix(job.todo[i], OwnersOfTokens[t])
            BY <2>1, <2>2, <3>3 DEF BackfillInv
          <5>2. /\ p = job.todo[1] /\ Len(job.todo) \in Nat \ {0}
                /\ Len(rest) = Len(job.todo) - 1
                /\ (i # 1 => rest[i - 1] = job.todo[i])
            BY <1>1, <2>1, TheRest DEF rest
          <5>3. i # 1
            BY <4>2, <5>1, <5>2
          <5> DEFINE k == Len(parts) + (i - 1)
          <5>4. /\ k \in 1 .. Len(parts) + Len(rest) /\ ~(k <= Len(parts))
                /\ k - Len(parts) = i - 1
            BY <3>2, <5>2, <5>3
          <5>5. (parts \o rest)[k] = job.todo[i]
            BY <3>2, <5>2, <5>3, <5>4
          <5> QED
            BY <3>2, <5>1, <5>4, <5>5
        <4> QED
          BY <4>1, <4>2
      <3>4. job' = [at |-> "running", known |-> job.known, todo |-> parts \o rest]
        BY <2>5 DEF parts, rest
      <3> QED
        BY <1>1, <2>1, <2>2, <3>2, <3>3, <3>4 DEF BackfillInv
    <2> QED
      BY <2>3, <2>4, <2>5
  <1>8. CASE Backfill!Finish
    <2>1. job.at = "running" /\ job.todo = <<>> /\ UNCHANGED <<refs, journal, faults>>
      BY <1>8 DEF Backfill!Finish
    <2>2. refs = DOMAIN OwnersOfTokens
      <3>1. 1 .. Len(job.todo) = {}
        BY <2>1
      <3>2. ASSUME NEW t \in DOMAIN OwnersOfTokens
            PROVE  t \in refs
        BY <2>1, <3>1 DEF BackfillInv
      <3> QED
        BY <1>1, <3>2
    <2>3. job' = [at |-> "done", todo |-> job.todo, known |-> job.known]
      BY <1>1, <1>8, <2>2 DEF Backfill!Finish
    <2> QED
      BY <1>1, <2>1, <2>3 DEF BackfillInv
  <1> QED
    BY <1>4, <1>5, <1>6, <1>7, <1>8 DEF Backfill!Next, Backfill!Run

LEMMA BackfillSays ==
    ASSUME Backfill!BackfillAssumption, BackfillInv
    PROVE  Backfill!TypeOK /\ Backfill!JournalCoversRanges
  <1>1. Backfill!Range(job.todo) \subseteq Backfill!Ranges
    <2>1. \A i \in 1 .. Len(job.todo) : job.todo[i] \in Backfill!Ranges
      BY DEF BackfillInv
    <2>2. DOMAIN job.todo = 1 .. Len(job.todo)
      BY DEF BackfillInv
    <2> QED
      BY <2>1, <2>2 DEF Backfill!Range
  <1> QED
    BY <1>1, RangesHoldTheirAddresses
       DEF BackfillInv, Backfill!TypeOK, Backfill!JournalCoversRanges

-----------------------------------------------------------------------------
(* The snapshot of the holdings, in the composition.                         *)

HP == INSTANCE HoldingsCapture_proofs WITH
    changes <- moves, runs <- rounds, edition <- issue, built <- output,
    FirstRows <- FirstIdentities, DropOf <- DropOfIdentity, Workers <- Pool,
    PageSize <- IdentityPage

LEMMA SameCounts == \A S : Holdings!Cardinality(S) = HP!Cardinality(S)
  BY DEF Holdings!Cardinality, HP!Cardinality, Holdings!IsFiniteSet, HP!IsFiniteSet

LEMMA SameHoldingsNext == Holdings!Next <=> HP!Next
  <1>1. /\ \A x : Holdings!Mint(x) <=> HP!Mint(x)
        /\ \A x : Holdings!Burn(x) <=> HP!Burn(x)
        /\ Holdings!Begin <=> HP!Begin
        /\ Holdings!Abort <=> HP!Abort
        /\ Holdings!WriteManifest <=> HP!WriteManifest
        /\ Holdings!RequestDrops <=> HP!RequestDrops
        /\ \A x : Holdings!AskDrop(x) <=> HP!AskDrop(x)
        /\ Holdings!WriteCompanion <=> HP!WriteCompanion
        /\ Holdings!Build <=> HP!Build
    BY SameCounts
       DEF Holdings!sourceVars, HP!sourceVars, Holdings!shardVars, HP!shardVars,
       Holdings!runVars, HP!runVars, Holdings!outputVars, HP!outputVars, Holdings!Shards,
       HP!Shards, Holdings!Off, HP!Off, Holdings!NoCompanion, HP!NoCompanion,
       Holdings!NoBuild, HP!NoBuild, Holdings!Change, HP!Change, Holdings!Mint, HP!Mint,
       Holdings!Burn, HP!Burn, Holdings!Calm, HP!Calm, Holdings!Still, HP!Still,
       Holdings!BeginCapture, HP!BeginCapture, Holdings!ResumeContext, HP!ResumeContext,
       Holdings!UpgradeSchema, HP!UpgradeSchema, Holdings!Begin, HP!Begin, Holdings!Abort,
       HP!Abort, Holdings!WriteManifest, HP!WriteManifest, Holdings!NoRun, HP!NoRun,
       Holdings!Referenced, HP!Referenced, Holdings!Manifested, HP!Manifested,
       Holdings!RequestDrops, HP!RequestDrops, Holdings!AskDrop, HP!AskDrop,
       Holdings!WriteCompanion, HP!WriteCompanion, Holdings!CompanionFits, HP!CompanionFits,
       Holdings!Build, HP!Build
  <1>2. /\ \A x : Holdings!Take(x) <=> HP!Take(x)
        /\ \A x : Holdings!Answer(x) <=> HP!Answer(x)
        /\ \A x : Holdings!CommitPage(x) <=> HP!CommitPage(x)
        /\ \A x : Holdings!CommitTerminal(x) <=> HP!CommitTerminal(x)
    BY SameCounts
       DEF Holdings!sourceVars, HP!sourceVars, Holdings!shardVars, HP!shardVars,
       Holdings!outputVars, HP!outputVars, Holdings!Before, HP!Before, Holdings!Lower,
       HP!Lower, Holdings!Upper, HP!Upper, Holdings!InShard, HP!InShard, Holdings!Off,
       HP!Off, Holdings!Calm, HP!Calm, Holdings!Still, HP!Still, Holdings!KeepShards,
       HP!KeepShards, Holdings!Take, HP!Take, Holdings!Past, HP!Past, Holdings!PageOf,
       HP!PageOf, Holdings!Answer, HP!Answer, Holdings!LastOf, HP!LastOf,
       Holdings!CommitPage, HP!CommitPage, Holdings!CommitTerminal, HP!CommitTerminal
  <1>3. /\ Holdings!ReadUpperBound <=> HP!ReadUpperBound
        /\ Holdings!CountShard <=> HP!CountShard
        /\ Holdings!CountIdentities <=> HP!CountIdentities
        /\ Holdings!InsertShards <=> HP!InsertShards
        /\ Holdings!AllCaptured <=> HP!AllCaptured
        /\ Holdings!Recount <=> HP!Recount
        /\ Holdings!Decide <=> HP!Decide
        /\ \A x : Holdings!Reset(x) <=> HP!Reset(x)
        /\ Holdings!ReadAgain <=> HP!ReadAgain
    BY SameCounts
       DEF Holdings!sourceVars, HP!sourceVars, Holdings!shardVars, HP!shardVars,
       Holdings!outputVars, HP!outputVars, Holdings!Shards, HP!Shards, Holdings!NoChain,
       HP!NoChain, Holdings!Lower, HP!Lower, Holdings!Upper, HP!Upper, Holdings!InShard,
       HP!InShard, Holdings!InBound, HP!InBound, Holdings!Start, HP!Start, Holdings!Ids,
       HP!Ids, Holdings!Calm, HP!Calm, Holdings!Still, HP!Still, Holdings!NoTables,
       HP!NoTables, Holdings!NoWork, HP!NoWork, Holdings!BeginCapture, HP!BeginCapture,
       Holdings!ReadUpperBound, HP!ReadUpperBound, Holdings!CountShard, HP!CountShard,
       Holdings!CountIdentities, HP!CountIdentities, Holdings!InsertShards, HP!InsertShards,
       Holdings!AllCaptured, HP!AllCaptured, Holdings!Recount, HP!Recount, Holdings!Decide,
       HP!Decide, Holdings!NextReset, HP!NextReset, Holdings!Reset, HP!Reset,
       Holdings!ReadAgain, HP!ReadAgain
  <1>4. Holdings!Finalize <=> HP!Finalize
    BY SameCounts
       DEF Holdings!sourceVars, HP!sourceVars, Holdings!shardVars, HP!shardVars,
       Holdings!outputVars, HP!outputVars, Holdings!Shards, HP!Shards, Holdings!Calm,
       HP!Calm, Holdings!Still, HP!Still, Holdings!Finalize, HP!Finalize,
       Holdings!MapThenSumSet, HP!MapThenSumSet, Holdings!MapThenFoldSet, HP!MapThenFoldSet
  <1> QED
    BY <1>1, <1>2, <1>3, <1>4
       DEF Holdings!Next, HP!Next, Holdings!Capture, HP!Capture, Holdings!Shards, HP!Shards,
       Holdings!Drops, HP!Drops

LEMMA SameHoldings ==
    /\ Holdings!CaptureAssumption <=> HP!CaptureAssumption
    /\ Holdings!Init <=> HP!Init
    /\ Holdings!Next <=> HP!Next
    /\ Holdings!BuildIsCounted <=> HP!BuildIsCounted
    /\ Holdings!TypeOK <=> HP!TypeOK
    /\ Holdings!CursorIsExact <=> HP!CursorIsExact
    /\ Holdings!StandingRowsAreCaptured <=> HP!StandingRowsAreCaptured
  <1>1. Holdings!CaptureAssumption <=> HP!CaptureAssumption
    BY
       DEF Holdings!CaptureAssumption, HP!CaptureAssumption, Holdings!IsFiniteSet,
           HP!IsFiniteSet
  <1>2. Holdings!Init <=> HP!Init
    BY
       DEF Holdings!Init, HP!Init, Holdings!Off, HP!Off, Holdings!NoCompanion,
           HP!NoCompanion, Holdings!NoBuild, HP!NoBuild, Holdings!Start, HP!Start,
           Holdings!Shards, HP!Shards, Holdings!NoChain, HP!NoChain, Holdings!NoRun,
           HP!NoRun, Holdings!Lower, HP!Lower, Holdings!Upper, HP!Upper
  <1>3. Holdings!Next <=> HP!Next
    BY SameHoldingsNext
  <1>4. Holdings!BuildIsCounted <=> HP!BuildIsCounted
    BY SameCounts
       DEF Holdings!BuildIsCounted, HP!BuildIsCounted, Holdings!Shards, HP!Shards,
           Holdings!InShard, HP!InShard, Holdings!Lower, HP!Lower, Holdings!Upper, HP!Upper
  <1>5. Holdings!TypeOK <=> HP!TypeOK
    BY SameCounts
       DEF Holdings!TypeOK, HP!TypeOK, Holdings!Ids, HP!Ids, Holdings!Shards, HP!Shards,
           Holdings!Attempts, HP!Attempts, Holdings!Drops, HP!Drops
  <1>6. Holdings!CursorIsExact <=> HP!CursorIsExact
    BY SameCounts
       DEF Holdings!CursorIsExact, HP!CursorIsExact, Holdings!InBound, HP!InBound,
           Holdings!InShard, HP!InShard, Holdings!Lower, HP!Lower, Holdings!Upper,
           HP!Upper, Holdings!Before, HP!Before, Holdings!Shards, HP!Shards
  <1>7. Holdings!StandingRowsAreCaptured <=> HP!StandingRowsAreCaptured
    BY DEF Holdings!StandingRowsAreCaptured, HP!StandingRowsAreCaptured
  <1> QED
    BY <1>1, <1>2, <1>3, <1>4, <1>5, <1>6, <1>7

-----------------------------------------------------------------------------
(* The composition: a command keeps the invariant of its own part, and the   *)
(* other parts are not there.                                                *)

CommandsAreGiven ==
    /\ MomentsCaptureAssumption /\ Holdings!CaptureAssumption
    /\ Collections!CollectionsCaptureAssumption /\ MomentsMedia!MediaCaptureAssumption
    /\ Import!ArchiveImportAssumption /\ Backfill!BackfillAssumption
    /\ Supplement!DropSupplementAssumption

CommandsHold ==
    /\ IInv
    /\ which = "holdings" => HP!IInv
    /\ which = "collections" => CollectionsInv /\ SideOK
    /\ which = "media" => MediaInv
    /\ which = "import" => ImportInv
    /\ which = "backfill" => BackfillInv
    /\ which = "supplement" => SupplementInv /\ PagesInv /\ faults \in Nat

\* The captures of the Moments go on in the composition as they do alone.
LEMMA MomentsStep ==
    ASSUME [MCNext]_MCVars
    PROVE  [Next]_vars
  <1>1. CASE UNCHANGED MCVars
    BY <1>1 DEF MCVars, vars
  <1>2. CASE MCNext
    <2>1. CASE InMoments /\ Next
      BY <2>1
    <2>2. CASE ~(InMoments /\ Next)
      BY <1>2, <2>2 DEF MCNext, InHoldings, InCollections, InMedia, InImport, InBackfill,
                        InSupplement
    <2> QED
      BY <2>1, <2>2
  <1> QED
    BY <1>1, <1>2

LEMMA FirstCommands ==
    ASSUME CommandsAreGiven, MCInit
    PROVE  CommandsHold
  <1>1. ASSUME which = "holdings" PROVE HP!IInv
    <2>1. HP!Init /\ HP!CaptureAssumption
      BY <1>1, SameHoldings DEF MCInit, CommandsAreGiven
    <2> QED
      BY <2>1, HP!InitOK
  <1>2. ASSUME which = "media" PROVE MediaInv
    BY <1>2, MediaStarts DEF MCInit, CommandsAreGiven
  <1>3. ASSUME which = "supplement" PROVE SupplementInv /\ PagesInv /\ faults \in Nat
    <2>1. Supplement!Init
      BY <1>3 DEF MCInit
    <2>2. faults = 0
      BY <2>1 DEF Supplement!Init
    <2> QED
      BY <2>1, <2>2, SupplementStarts, PagesStart DEF CommandsAreGiven
  <1>4. IInv
    BY InitHolds DEF MCInit, CommandsAreGiven
  <1>5. ASSUME which = "collections" PROVE CollectionsInv /\ SideOK
    <2>1. Collections!Init
      BY <1>5 DEF MCInit
    <2>2. SideOK
      BY <2>1 DEF Collections!Init, Collections!NewDirectory, SideOK
    <2> QED
      BY <2>1, <2>2, CollectionsStart DEF CommandsAreGiven
  <1>6. ASSUME which = "import" PROVE ImportInv
    BY <1>6, ImportStarts DEF MCInit, CommandsAreGiven
  <1>7. ASSUME which = "backfill" PROVE BackfillInv
    BY <1>7, BackfillStarts DEF MCInit, CommandsAreGiven
  <1> QED
    BY <1>1, <1>2, <1>3, <1>4, <1>5, <1>6, <1>7 DEF CommandsHold

\* A step of the composition is one of the command that runs.
LEMMA StepsAreOfTheCommand ==
    ASSUME [MCNext]_MCVars
    PROVE  /\ which' = which
           /\ which = "holdings" => [HP!Next]_HP!vars
           /\ which = "media" => [MomentsMedia!Next]_MomentsMedia!vars
           /\ which = "supplement" => [Supplement!Next]_Supplement!vars
           /\ which = "collections" => [Collections!Next]_Collections!vars
           /\ which = "import" => [Import!Next]_Import!vars
           /\ which = "backfill" => [Backfill!Next]_Backfill!vars
  <1>1. CASE UNCHANGED MCVars
    <2>1. UNCHANGED HP!vars
      BY <1>1 DEF MCVars, holdingsVars, HP!vars, HP!sourceVars, HP!shardVars, HP!runVars,
                  HP!outputVars
    <2>2. UNCHANGED MomentsMedia!vars
      BY <1>1 DEF MCVars, mediaVars, MomentsMedia!vars, MomentsMedia!capture,
                  MomentsMedia!evidence
    <2>3. UNCHANGED Supplement!vars
      BY <1>1 DEF MCVars, collectionsVars, mediaVars, supplementVars, Supplement!vars,
                  Supplement!origin, Supplement!graphql, Supplement!artwork, Supplement!pool
    <2>4. UNCHANGED Collections!vars
      BY <1>1 DEF MCVars, collectionsVars, Collections!vars
    <2>5. UNCHANGED Import!vars /\ UNCHANGED Backfill!vars
      BY <1>1 DEF MCVars, importVars, Import!vars, Backfill!vars
    <2> QED
      BY <1>1, <2>1, <2>2, <2>3, <2>4, <2>5 DEF MCVars
  <1>2. CASE MCNext
    <2>1. CASE InHoldings /\ Holdings!Next
      BY <2>1, SameHoldings DEF InHoldings
    <2>2. CASE InMoments /\ Next
      BY <2>2 DEF InMoments
    <2>3. CASE InCollections /\ Collections!Next
      BY <2>3 DEF InCollections
    <2>4. CASE InMedia /\ MomentsMedia!Next
      BY <2>4 DEF InMedia
    <2>5. CASE InImport /\ Import!Next
      BY <2>5 DEF InImport
    <2>6. CASE InBackfill /\ Backfill!Next
      BY <2>6 DEF InBackfill
    <2>7. CASE InSupplement /\ Supplement!Next
      BY <2>7 DEF InSupplement
    <2> QED
      BY <1>2, <2>1, <2>2, <2>3, <2>4, <2>5, <2>6, <2>7 DEF MCNext
  <1> QED
    BY <1>1, <1>2

LEMMA CommandsKeep ==
    ASSUME CommandsAreGiven, CommandsHold, [MCNext]_MCVars
    PROVE  CommandsHold'
  <1>1. ASSUME which = "holdings" PROVE HP!IInv'
    <2>1. [HP!Next]_HP!vars /\ HP!CaptureAssumption /\ HP!IInv
      BY <1>1, StepsAreOfTheCommand, SameHoldings DEF CommandsAreGiven, CommandsHold
    <2> QED
      BY <2>1, HP!NextKeeps
  <1>2. ASSUME which = "media" PROVE MediaInv'
    BY <1>2, StepsAreOfTheCommand, MediaStepKeeps DEF CommandsAreGiven, CommandsHold
  <1>3. ASSUME which = "supplement" PROVE SupplementInv' /\ PagesInv' /\ faults' \in Nat
    <2>1. [Supplement!Next]_Supplement!vars /\ SupplementInv /\ PagesInv /\ faults \in Nat
      BY <1>3, StepsAreOfTheCommand DEF CommandsHold
    <2> QED
      BY <2>1, SupplementKeeps, PagesGoOn, FaultsAreCounted DEF CommandsAreGiven
  <1>4. which' = which
    BY StepsAreOfTheCommand
  <1>5. IInv'
    BY MomentsStep, NextKeeps DEF CommandsAreGiven, CommandsHold
  <1>6. ASSUME which = "collections" PROVE CollectionsInv' /\ SideOK'
    <2>1. [Collections!Next]_Collections!vars /\ CollectionsInv /\ SideOK
      BY <1>6, StepsAreOfTheCommand DEF CommandsHold
    <2> QED
      BY <2>1, CollectionsGoOn, SideGoesOn DEF CommandsAreGiven
  <1>7. ASSUME which = "import" PROVE ImportInv'
    <2>1. CASE Import!Next
      BY <1>7, <2>1, ImportGoesOn DEF CommandsAreGiven, CommandsHold
    <2>2. CASE UNCHANGED Import!vars
      BY <1>7, <2>2 DEF CommandsHold, ImportInv, Import!vars, WriterOK
    <2> QED
      BY <1>7, <2>1, <2>2, StepsAreOfTheCommand
  <1>8. ASSUME which = "backfill" PROVE BackfillInv'
    <2>1. CASE Backfill!Next
      BY <1>8, <2>1, BackfillGoesOn DEF CommandsAreGiven, CommandsHold
    <2>2. CASE UNCHANGED Backfill!vars
      BY <1>8, <2>2 DEF CommandsHold, BackfillInv, Backfill!vars
    <2> QED
      BY <1>8, <2>1, <2>2, StepsAreOfTheCommand
  <1> QED
    BY <1>1, <1>2, <1>3, <1>4, <1>5, <1>6, <1>7, <1>8 DEF CommandsHold

LEMMA CommandsAlwaysHold ==
    ASSUME CommandsAreGiven
    PROVE  MCInit /\ [][MCNext]_MCVars => []CommandsHold
  <1>1. MCInit => CommandsHold
    BY FirstCommands
  <1>2. CommandsHold /\ [MCNext]_MCVars => CommandsHold'
    BY CommandsKeep
  <1> QED
    BY <1>1, <1>2, PTL

-----------------------------------------------------------------------------
(* What the commands say of what they wrote.                                 *)

\* The capture of the media, the plan of a recovery and the verification keep their types.
LEMMA MediaIsTyped == MediaInv => MomentsMedia!TypeOK
  <1> SUFFICES ASSUME MediaInv
               PROVE  MomentsMedia!TypeOK
    OBVIOUS
  <1>1. \A m \in MediaRows :
           MomentsMedia!Status(m) \in MomentsMedia!Terminal \cup {"failed", "unattempted"}
    BY DEF MediaInv, CaptureOK, LastRecords, Statuses, MomentsMedia!Status
  <1>2. bucket \subseteq {"public", "private"} \X {BytesOfMedia[m] : m \in MediaRows}
    BY ObjectsAreThings DEF MediaInv, ObjectsArePlanned, Things
  <1> QED
    BY <1>1, <1>2 DEF MediaInv, CaptureOK, MomentsMedia!TypeOK

\* captureShard, captureCollectionsEntity, updateRanges, insertRange and enrich-drops:
\* whatever a run, a resume or a kill left, what a directory or a database records of
\* its progress describes the rows it holds, for any rows, pages, ranges and addresses;
\* and every command keeps its types.
THEOREM ProgressIsTrue ==
    ASSUME CommandsAreGiven
    PROVE  MCInit /\ [][MCNext]_MCVars => []ProgressIsExact
  <1>1. ASSUME CommandsHold, which = "holdings"
        PROVE  Holdings!TypeOK /\ Holdings!CursorIsExact /\ Holdings!StandingRowsAreCaptured
    <2>1. HP!IInv
      BY <1>1 DEF CommandsHold
    <2>2. HP!TypeOK /\ HP!CursorIsExact /\ HP!StandingRowsAreCaptured
      BY <2>1 DEF HP!IInv, HP!PassesOK, HP!PhasesOK, HP!TypeOK, HP!StandingRowsAreCaptured
    <2> QED
      BY <2>2, SameHoldings
  <1>2. ASSUME CommandsHold, which = "collections"
        PROVE  /\ Collections!TypeOK /\ Collections!CommittedPagesAreKept
               /\ Collections!StandingRowsAreVerified /\ Collections!VerifiedRowsAreCommitted
    BY <1>2, CollectionsSay DEF CommandsHold, CommandsAreGiven
  <1>3. ASSUME CommandsHold, which = "media" PROVE MomentsMedia!TypeOK
    BY <1>3, MediaIsTyped DEF CommandsHold
  <1>4. ASSUME CommandsHold, which = "import" PROVE Import!TypeOK
    BY <1>4, ImportIsTyped DEF CommandsHold, CommandsAreGiven
  <1>5. ASSUME CommandsHold, which = "backfill"
        PROVE  Backfill!TypeOK /\ Backfill!JournalCoversRanges
    BY <1>5, BackfillSays DEF CommandsHold, CommandsAreGiven
  <1>6. ASSUME CommandsHold, which = "supplement"
        PROVE  Supplement!TypeOK /\ Supplement!ProgressIsKept
    BY <1>6, SupplementSays DEF CommandsHold, CommandsAreGiven
  <1>7. ASSUME CommandsHold PROVE TypeOK
    BY <1>7 DEF CommandsHold, IInv
  <1>8. CommandsHold => ProgressIsExact
    BY <1>1, <1>2, <1>3, <1>4, <1>5, <1>6, <1>7 DEF ProgressIsExact, PartsAreTyped
  <1> QED
    BY <1>8, CommandsAlwaysHold, PTL

\* captureOne, bucketFor, in the composition: no original is in the public bucket unless
\* a media that has its bytes may be shown, for any media, answers, workers and faults.
THEOREM PublicObjectsAreVisible ==
    ASSUME CommandsAreGiven
    PROVE  MCInit /\ [][MCNext]_MCVars => []PublicIsVisible
  <1>1. ASSUME CommandsHold, which = "media" PROVE MomentsMedia!PublicIsVisible
    BY <1>1, VisibleFollows DEF CommandsHold
  <1>2. CommandsHold => PublicIsVisible
    BY <1>1 DEF PublicIsVisible
  <1> QED
    BY <1>2, CommandsAlwaysHold, PTL

\* verify, plan-recovery and inspectDropSupplement: two complete reports attest one and the
\* same evidence, the plan of a recovery leaves out nothing that keeps its capture from
\* complete, and a supplement that build-d1 accepts was made of one input from the
\* proofs to the references, whatever was killed, repeated or run with other inputs.
THEOREM AttestedStatesAreOne ==
    ASSUME CommandsAreGiven
    PROVE  MCInit /\ [][MCNext]_MCVars => []AttestedIsOneState
  <1>1. ASSUME CommandsHold, which = "media"
        PROVE  MomentsMedia!AttestedIsOneState /\ MomentsMedia!PlanCoversTheGap
    BY <1>1, GapFollows DEF CommandsHold, MediaInv
  <1>2. ASSUME CommandsHold, which = "supplement" PROVE Supplement!AcceptedIsOneInput
    <2>1. CASE Supplement!Accepted
      BY <1>2, <2>1, AcceptedSays DEF CommandsHold, CommandsAreGiven
    <2>2. CASE ~Supplement!Accepted
      BY <2>2 DEF Supplement!AcceptedIsOneInput
    <2> QED
      BY <2>1, <2>2
  <1>3. CommandsHold => AttestedIsOneState
    BY <1>1, <1>2 DEF AttestedIsOneState
  <1> QED
    BY <1>3, CommandsAlwaysHold, PTL

\* The end of a run and the steps of a run with the same catalog, of the directory that
\* build-d1 asks for.
CompletesTheDirectory ==
    /\ Supplement!At("manifest") /\ command' = Supplement!Idle /\ faults' = faults
          /\ manifest'.complete => Binds'
    /\ Binds /\ ~Binds' => command.archive.catalog # manifest.archive.catalog

LEMMA DirectoryIsCompleted ==
    ASSUME Supplement!DropSupplementAssumption, SupplementInv, faults \in Nat,
           [Supplement!Next]_Supplement!vars
    PROVE  CompletesTheDirectory
  BY CatalogKeeps, CompleteBinds DEF CompletesTheDirectory

\* verifyFinalCounts, writeVerificationReport and the manifest of enrich-drops: what is
\* built of the holdings has the rows that were counted last; a report of the media is
\* of the evidence as it stands when it is written; and a supplement that says it is
\* complete is accepted, until a run with another catalog has been at it.
THEOREM WrittenIsCurrent ==
    ASSUME CommandsAreGiven
    PROVE  MCInit /\ [][MCNext]_MCVars => WhatIsWrittenIsCurrent
  <1>1. ASSUME CommandsHold, [MCNext]_MCVars, which = "holdings"
        PROVE  Holdings!BuildIsCounted
    <2>1. [HP!Next]_HP!vars /\ HP!CaptureAssumption /\ HP!IInv
      BY <1>1, StepsAreOfTheCommand, SameHoldings DEF CommandsAreGiven, CommandsHold
    <2>2. [HP!BuildIsCounted]_HP!vars
      BY <2>1, HP!BuildFollows
    <2>3. HP!BuildIsCounted
      BY <2>2 DEF HP!BuildIsCounted, HP!vars, HP!outputVars
    <2> QED
      BY <2>3, SameHoldings
  <1>2. ASSUME CommandsHold, [MCNext]_MCVars, which = "media"
        PROVE  MomentsMedia!ReportIsOfItsEvidence
    <2>1. [MomentsMedia!ReportIsOfItsEvidence]_MomentsMedia!vars
      BY <1>2, StepsAreOfTheCommand, ReportFollows DEF CommandsHold
    <2> QED
      BY <2>1
         DEF MomentsMedia!ReportIsOfItsEvidence, MomentsMedia!vars, MomentsMedia!evidence
  <1>3. ASSUME CommandsHold, [MCNext]_MCVars, which = "supplement"
        PROVE  CompletesTheDirectory
    BY <1>3, StepsAreOfTheCommand, DirectoryIsCompleted DEF CommandsHold, CommandsAreGiven
  <1>4. CommandsHold => (which = "supplement" => (Supplement!Accepted <=> Binds))
    BY BindsIsAccepted DEF CommandsHold, CommandsAreGiven
  <1>5. CommandsHold /\ [MCNext]_MCVars =>
           /\ which' = which
           /\ which = "holdings" => Holdings!BuildIsCounted
           /\ which = "media" => MomentsMedia!ReportIsOfItsEvidence
           /\ which = "supplement" => CompletesTheDirectory
    BY <1>1, <1>2, <1>3, StepsAreOfTheCommand
  <1>6. which' = which => (which = "supplement" => (which = "supplement")')
    OBVIOUS
  <1> QED
    BY <1>4, <1>5, <1>6, CommandsAlwaysHold, PTL
       DEF WhatIsWrittenIsCurrent, Supplement!CompleteIsAccepted, CompletesTheDirectory

\* The captures of the Moments go on in the composition as they do alone, so that the two
\* theorems about them hold of it as well.
THEOREM MomentsGoOn == MCInit /\ [][MCNext]_MCVars => Spec
  <1>1. MCInit => Init
    BY DEF MCInit
  <1>2. [MCNext]_MCVars => [Next]_vars
    BY MomentsStep
  <1> QED
    BY <1>1, <1>2, PTL DEF Spec
=============================================================================
