------------------------ MODULE HoldingsCapture_proofs ------------------------
(***************************************************************************)
(* Theorems about HoldingsCapture: what a shard's cursor says of the rows  *)
(* captured, that rows which stand are not stepped over, and that what is  *)
(* built agrees with the final counts.                                     *)
(***************************************************************************)
EXTENDS HoldingsCapture, FiniteSetTheorems, WellFoundedInduction, TLAPS

Reading == {"capture", "recount", "reset", "finalize", "manifest"}

\* The tables come after the counts, and before them nothing was captured.
PhasesOK ==
    /\ phase \in {"bound", "counts", "identities"} => schema = "none"
    /\ phase = "tables" => schema = "tables"
    /\ phase \in Reading => schema = "ready"
    /\ schema # "ready" => /\ started = {} /\ tokens = {} /\ edition = 0
                           /\ captured = [s \in Shards |-> 0]
    /\ phase = "capture" => pending \cap finished = {}
    /\ phase = "reset" => attempt # 0

\* A manifest is written once in a run.
EditionsAreRuns == edition <= runs /\ (phase # "off" => edition < runs)

\* What an answer on its way says: the rows it has, and that it skips none that stands.
PageHolds(s, page) ==
    /\ page \subseteq InShard(Identities, s)
    /\ \A r \in page : Past(r, s)
    /\ \A r \in standing[s] : Past(r, s) => r \in page \/ (page # {} /\ \A t \in page : Before(t, r))
    /\ ~burned => page \subseteq rows

\* Each worker has an unfinished shard of its own.
WorkersOK ==
    \A w \in Workers : worker[w].at # "off" =>
        /\ phase = "capture"
        /\ worker[w].shard \in started \ (finished \cup pending)
        /\ \A v \in Workers : v # w /\ worker[v].at # "off" => worker[v].shard # worker[w].shard
        /\ worker[w].at = "answered" => PageHolds(worker[w].shard, worker[w].rows)

\* Between its first request and its last page a shard's standing rows are captured, or
\* ahead of its cursor.
PassesOK ==
    schema = "ready" =>
        \A s \in Shards :
           /\ s \notin started => cursor[s] = Start(s) /\ InShard(tokens, s) = {}
           /\ s \in started => /\ standing[s] \subseteq InShard(rows, s)
                               /\ \A r \in standing[s] : r \in tokens \/ Past(r, s)
           /\ s \in finished => standing[s] \subseteq tokens

\* While nothing has disappeared, what was captured is there still.
CapturedStays == ~burned => tokens \subseteq rows

\* The last count of a shard found what is captured of it.
Agrees(s) ==
    /\ Cardinality(seen[s]) = captured[s]
    /\ ~burned => InShard(tokens, s) \subseteq seen[s]

CountsHold ==
    /\ phase = "recount" => \A s \in Shards : s < at => s \in contradicted \/ Agrees(s)
    /\ phase \in {"finalize", "manifest"} => \A s \in Shards : Agrees(s)
    /\ edition > 0 /\ ~edited => phase = "off" /\ \A s \in Shards : Agrees(s)

IInv ==
    /\ TypeOK /\ PhasesOK /\ EditionsAreRuns
    /\ CursorIsExact /\ PassesOK /\ WorkersOK
    /\ CapturedStays /\ CountsHold

-----------------------------------------------------------------------------
(* Ranges of IDs.                                                            *)

\* Division keeps the order.
LEMMA QuotientsOrdered ==
    ASSUME NEW a \in Nat, NEW b \in Nat, a <= b, NEW n \in Nat \ {0}
    PROVE  a \div n \in Nat /\ b \div n \in Nat /\ a \div n <= b \div n
  <1> DEFINE p == a \div n
             q == b \div n
  <1>1. p \in Nat /\ n * p <= a /\ a < n * p + n
    OBVIOUS
  <1>2. q \in Nat /\ n * q <= b /\ b < n * q + n
    OBVIOUS
  <1>3. ASSUME q < p PROVE FALSE
    <2> HIDE DEF p, q
    <2>1. q + 1 <= p
      BY <1>1, <1>2, <1>3
    <2>2. n * (q + 1) <= n * p
      BY <1>1, <1>2, <2>1
    <2>3. n * (q + 1) = n * q + n
      BY <1>2
    <2>4. n * p \in Nat /\ n * q \in Nat
      BY <1>1, <1>2
    <2> QED
      BY <1>1, <1>2, <2>2, <2>3, <2>4
  <1> HIDE DEF p, q
  <1>4. p \in Nat /\ q \in Nat /\ p <= q
    BY <1>1, <1>2, <1>3
  <1> QED
    BY <1>4 DEF p, q

\* A range ends where it begins or later, and before the ranges of higher numbers.
LEMMA RangesOrdered ==
    ASSUME CaptureAssumption, upper \in Nat
    PROVE  \A s \in Shards :
              /\ Lower(s) \in Nat /\ Upper(s) \in Nat
              /\ Lower(s) <= Upper(s) /\ Upper(s) <= upper
              /\ \A t \in Shards : s < t => Upper(s) <= Lower(t)
  <1> TAKE s \in Shards
  <1>1. ShardCount \in Nat \ {0} /\ s \in Nat /\ s + 1 <= ShardCount
    BY DEF CaptureAssumption, Shards
  <1>2. ASSUME NEW i \in Nat, NEW j \in Nat, i <= j
        PROVE  /\ upper * i \in Nat /\ upper * j \in Nat /\ upper * i <= upper * j
               /\ (upper * i) \div ShardCount \in Nat /\ (upper * j) \div ShardCount \in Nat
               /\ (upper * i) \div ShardCount <= (upper * j) \div ShardCount
    <2>1. upper * i \in Nat /\ upper * j \in Nat /\ upper * i <= upper * j
      <3>1. PICK k \in Nat : j = i + k
        <4>1. j - i \in Nat /\ j = i + (j - i)
          BY <1>2
        <4> QED
          BY <4>1
      <3>2. upper * j = upper * i + upper * k /\ upper * i \in Nat /\ upper * k \in Nat
        BY <3>1
      <3> QED
        BY <3>2
    <2> QED
      BY <1>1, <2>1, QuotientsOrdered
  <1>3. (upper * ShardCount) \div ShardCount = upper
    BY <1>1
  <1>4. Lower(s) \in Nat /\ Upper(s) \in Nat /\ Lower(s) <= Upper(s)
    BY <1>1, <1>2 DEF Lower, Upper
  <1>5. Upper(s) <= upper
    BY <1>1, <1>2, <1>3 DEF Upper
  <1>6. ASSUME NEW t \in Shards, s < t PROVE Upper(s) <= Lower(t)
    <2>1. t \in Nat /\ s + 1 <= t
      BY <1>1, <1>6 DEF Shards
    <2> QED
      BY <1>1, <1>2, <2>1 DEF Upper, Lower
  <1> QED
    BY <1>4, <1>5, <1>6

\* The rows of two ranges are different ones, all below the bound.
LEMMA RangesAreApart ==
    ASSUME CaptureAssumption, upper \in Nat, NEW A, A \subseteq Identities, NEW s \in Shards
    PROVE  /\ InShard(A, s) \subseteq A /\ InBound(InShard(A, s)) = InShard(A, s)
           /\ \A r \in InShard(A, s) : Before(Start(s), r)
           /\ \A t \in Shards : t # s => InShard(InShard(A, s), t) = {}
  <1>1. \A r \in A : r[1] \in Nat /\ r[2] \in Nat
    BY DEF CaptureAssumption
  <1>2. ASSUME NEW t \in Shards, t # s PROVE InShard(InShard(A, s), t) = {}
    <2>1. Upper(s) <= Lower(t) \/ Upper(t) <= Lower(s)
      <3>1. s < t \/ t < s
        BY <1>2 DEF Shards, CaptureAssumption
      <3> QED
        BY <3>1, RangesOrdered
    <2>2. /\ Upper(s) \in Nat /\ Lower(t) \in Nat /\ Upper(t) \in Nat /\ Lower(s) \in Nat
      BY RangesOrdered
    <2> QED
      BY <1>1, <2>1, <2>2 DEF InShard
  <1>3. Lower(s) \in Nat /\ Upper(s) \in Nat /\ Upper(s) <= upper
    BY RangesOrdered
  <1>4. InShard(A, s) \subseteq A /\ InBound(InShard(A, s)) = InShard(A, s)
    BY <1>1, <1>3 DEF InShard, InBound
  <1>5. \A r \in InShard(A, s) : Before(Start(s), r)
    BY DEF InShard, Before, Start
  <1> QED
    BY <1>2, <1>4, <1>5

LEMMA PartsOfRanges ==
    ASSUME NEW A, NEW B, NEW s
    PROVE  /\ InShard(A \cup B, s) = InShard(A, s) \cup InShard(B, s)
           /\ InShard(A \ B, s) = InShard(A, s) \ InShard(B, s)
           /\ A \subseteq B => InShard(A, s) \subseteq InShard(B, s)
           /\ InShard(InShard(A, s), s) = InShard(A, s)
           /\ InBound(A \cup B) = InBound(A) \cup InBound(B)
           /\ InShard({}, s) = {}
  BY DEF InShard, InBound

-----------------------------------------------------------------------------
(* The order of the rows, and pages.                                         *)

\* compareIdentity is a strict order in which any two rows compare.
LEMMA RowsAreOrdered ==
    ASSUME CaptureAssumption
    PROVE  /\ \A r \in Nat \X Nat : ~Before(r, r)
           /\ \A r, t, u \in Nat \X Nat : Before(r, t) /\ Before(t, u) => Before(r, u)
           /\ \A r, t \in Nat \X Nat : r = t \/ Before(r, t) \/ Before(t, r)
           /\ Identities \subseteq Nat \X Nat
  <1>1. \A r \in Nat \X Nat : r[1] \in Nat /\ r[2] \in Nat /\ r = <<r[1], r[2]>>
    OBVIOUS
  <1>2. \A r \in Nat \X Nat : ~Before(r, r)
    BY <1>1 DEF Before
  <1>3. \A r, t, u \in Nat \X Nat : Before(r, t) /\ Before(t, u) => Before(r, u)
    BY <1>1 DEF Before
  <1>4. \A r, t \in Nat \X Nat : r = t \/ Before(r, t) \/ Before(t, r)
    <2> TAKE r, t \in Nat \X Nat
    <2>1. r[1] < t[1] \/ t[1] < r[1] \/ r[1] = t[1]
      BY <1>1
    <2>2. r[2] < t[2] \/ t[2] < r[2] \/ r[2] = t[2]
      BY <1>1
    <2> QED
      BY <1>1, <2>1, <2>2 DEF Before
  <1>5. Identities \subseteq Nat \X Nat
    BY DEF CaptureAssumption
  <1> QED
    BY <1>2, <1>3, <1>4, <1>5

LEMMA RowsAreFinite ==
    ASSUME CaptureAssumption, NEW S, S \subseteq Identities
    PROVE  /\ IsFiniteSet(S) /\ Cardinality(S) \in Nat
           /\ Cardinality(S) \in 0 .. Cardinality(Identities)
  BY FS_Subset, FS_CardinalityType DEF CaptureAssumption

\* A finite set has an element with nothing before it in a strict order R.
LEMMA ExtremeExists ==
    ASSUME NEW S, IsFiniteSet(S), S # {}, NEW R,
           \A x \in S : <<x, x>> \notin R,
           \A x, y, z \in S : <<x, y>> \in R /\ <<y, z>> \in R => <<x, z>> \in R
    PROVE  \E x \in S : \A y \in S : <<y, x>> \notin R
  <1> DEFINE Below(x) == {y \in S : <<y, x>> \in R}
             T == {Cardinality(Below(x)) : x \in S}
             L == {ss \in Nat \X Nat : ss[1] < ss[2]}
  <1>1. \A x \in S : Below(x) \subseteq S
    OBVIOUS
  <1>2. \A x \in S : IsFiniteSet(Below(x)) /\ Cardinality(Below(x)) \in Nat
    <2> TAKE x \in S
    <2>1. Below(x) \subseteq S
      OBVIOUS
    <2> HIDE DEF Below
    <2> QED
      BY <2>1, FS_Subset, FS_CardinalityType
  <1>3. T \subseteq Nat /\ T # {}
    <2> HIDE DEF Below
    <2> QED
      BY <1>2
  <1>4. IsWellFoundedOn(L, Nat)
    BY NatLessThanWellFounded DEF OpToRel
  <1>5. PICK t \in T : \A y \in T : ~(<<y, t>> \in L)
    <2> HIDE DEF L, T
    <2> QED
      BY <1>3, <1>4, WFMin
  <1>6. PICK x \in S : t = Cardinality(Below(x))
    BY <1>5
  <1>7. ASSUME NEW y \in S, <<y, x>> \in R
        PROVE  FALSE
    <2>1. Below(y) \subseteq Below(x) /\ y \in Below(x) /\ y \notin Below(y)
      BY <1>7
    <2>2. Cardinality(Below(y)) \in Nat /\ Cardinality(Below(x)) \in Nat
      BY <1>2
    <2>3. Cardinality(Below(y)) < Cardinality(Below(x))
      <3> HIDE DEF Below
      <3>1. Cardinality(Below(y)) <= Cardinality(Below(x)) /\ Cardinality(Below(y)) # Cardinality(Below(x))
        BY <1>2, <2>1, FS_Subset
      <3> QED
        BY <2>2, <3>1
    <2>4. Cardinality(Below(y)) \in T
      OBVIOUS
    <2> HIDE DEF Below, T
    <2>5. <<Cardinality(Below(y)), t>> \in L
      BY <1>6, <2>2, <2>3
    <2> QED
      BY <1>5, <2>4, <2>5
  <1> QED
    BY <1>7

\* Rows have a first one ...
LEMMA FirstExists ==
    ASSUME CaptureAssumption, NEW S, S \subseteq Identities, S # {}
    PROVE  \E r \in S : \A t \in S : ~Before(t, r)
  <1> DEFINE R == {rt \in S \X S : Before(rt[1], rt[2])}
  <1>1. \A x \in S : <<x, x>> \notin R
    BY RowsAreOrdered
  <1>2. \A x, y \in S : <<x, y>> \in R <=> Before(x, y)
    OBVIOUS
  <1>3. \A x, y, z \in S : Before(x, y) /\ Before(y, z) => Before(x, z)
    BY RowsAreOrdered
  <1> HIDE DEF R
  <1>4. \E r \in S : \A t \in S : <<t, r>> \notin R
    BY <1>1, <1>2, <1>3, RowsAreFinite, ExtremeExists
  <1> QED
    BY <1>2, <1>4

\* ... and a last one.
LEMMA LastExists ==
    ASSUME CaptureAssumption, NEW S, S \subseteq Identities, S # {}
    PROVE  LastOf(S) \in S /\ \A t \in S : t = LastOf(S) \/ Before(t, LastOf(S))
  <1> DEFINE R == {rt \in S \X S : Before(rt[2], rt[1])}
  <1>1. \A x \in S : <<x, x>> \notin R
    BY RowsAreOrdered
  <1>2. \A x, y \in S : <<x, y>> \in R <=> Before(y, x)
    OBVIOUS
  <1>3. \A x, y, z \in S : Before(x, y) /\ Before(y, z) => Before(x, z)
    BY RowsAreOrdered
  <1> HIDE DEF R
  <1>4. PICK r \in S : \A t \in S : <<t, r>> \notin R
    BY <1>1, <1>2, <1>3, RowsAreFinite, ExtremeExists
  <1>5. \A t \in S : t = r \/ Before(t, r)
    BY <1>2, <1>4, RowsAreOrdered
  <1> QED
    BY <1>5 DEF LastOf

\* A page skips no row of what is left: its rows come before those it leaves out, and
\* it is empty only when nothing is left.
LEMMA PagesSkipNothing ==
    ASSUME CaptureAssumption, rows \subseteq Identities, NEW s \in Shards,
           NEW r \in InShard(rows, s), Past(r, s), r \notin PageOf(s)
    PROVE  PageOf(s) # {} /\ \A t \in PageOf(s) : Before(t, r)
  <1> DEFINE rest == {x \in InShard(rows, s) : Past(x, s)}
             Ahead(x) == {t \in rest : Before(t, x)}
  <1>1. rest \subseteq Identities
    BY DEF InShard
  <1>2. \A x \in rest : /\ IsFiniteSet(Ahead(x)) /\ Cardinality(Ahead(x)) \in Nat
                        /\ Ahead(x) \subseteq rest
    BY <1>1, RowsAreFinite
  <1>3. PageOf(s) = {x \in rest : Cardinality(Ahead(x)) < PageSize}
    BY DEF PageOf
  <1>4. r \in rest
    OBVIOUS
  <1>5. PageOf(s) # {}
    <2>1. PICK x \in rest : \A t \in rest : ~Before(t, x)
      <3> HIDE DEF rest
      <3> QED
        BY <1>1, <1>4, FirstExists
    <2>2. Ahead(x) = {}
      BY <2>1
    <2>3. Cardinality(Ahead(x)) < PageSize
      BY <2>2, FS_EmptySet DEF CaptureAssumption
    <2> QED
      BY <1>3, <2>3
  <1>6. ASSUME NEW t \in PageOf(s), ~Before(t, r)
        PROVE  FALSE
    <2>1. t \in rest /\ Cardinality(Ahead(t)) < PageSize
      BY <1>3
    <2>2. ~(Cardinality(Ahead(r)) < PageSize)
      BY <1>3, <1>4
    <2>3. Before(r, t)
      BY <1>1, <1>4, <1>6, <2>1, RowsAreOrdered
    <2>4. Ahead(r) \subseteq Ahead(t)
      BY <1>1, <1>4, <2>1, <2>3, RowsAreOrdered
    <2>5. Cardinality(Ahead(r)) <= Cardinality(Ahead(t))
      <3>1. IsFiniteSet(Ahead(t))
        BY <1>2, <2>1
      <3> HIDE DEF Ahead
      <3> QED
        BY <2>4, <3>1, FS_Subset
    <2>6. Cardinality(Ahead(r)) \in Nat /\ Cardinality(Ahead(t)) \in Nat /\ PageSize \in Nat
      BY <1>2, <1>4, <2>1 DEF CaptureAssumption
    <2> HIDE DEF Ahead
    <2> QED
      BY <2>1, <2>2, <2>5, <2>6
  <1> QED
    BY <1>5, <1>6

-----------------------------------------------------------------------------
(* What steps leave alone.                                                   *)

LEMMA TypeFacts ==
    ASSUME CaptureAssumption, TypeOK
    PROVE  /\ Identities \subseteq Nat \X Nat /\ Ids \subseteq Nat /\ upper \in Nat
           /\ rows \subseteq Identities /\ tokens \subseteq Identities
           /\ \A s \in Shards : /\ Start(s) \in Nat \X Nat
                                /\ standing[s] \subseteq Identities /\ seen[s] \subseteq Identities
                                /\ captured[s] \in Nat /\ cursor[s] \in Nat \X Nat
           /\ started \subseteq Shards /\ finished \subseteq started /\ pending \subseteq Shards
           /\ edition \in Nat /\ runs \in Nat /\ at \in Nat /\ tally \in Nat
           /\ \A w \in Workers : worker[w].shard \in Shards /\ worker[w].rows \subseteq Identities
  <1>1. Identities \subseteq Nat \X Nat /\ Ids \subseteq Nat
    BY DEF CaptureAssumption, Ids
  <1>2. upper \in Nat
    BY <1>1 DEF TypeOK
  <1>3. \A s \in Shards : Start(s) \in Nat \X Nat
    BY <1>2, RangesOrdered DEF Start, NoChain
  <1>4. /\ rows \subseteq Identities /\ tokens \subseteq Identities
        /\ started \subseteq Shards /\ finished \subseteq started /\ pending \subseteq Shards
        /\ edition \in Nat /\ runs \in Nat /\ at \in Nat /\ tally \in Nat
    BY DEF TypeOK
  <1>5. ASSUME NEW s \in Shards
        PROVE  /\ standing[s] \subseteq Identities /\ seen[s] \subseteq Identities
               /\ captured[s] \in Nat /\ cursor[s] \in Nat \X Nat
    <2>1. captured[s] \in 0 .. Cardinality(Identities)
      BY DEF TypeOK
    <2> QED
      BY <2>1 DEF TypeOK
  <1>6. \A w \in Workers : worker[w].shard \in Shards /\ worker[w].rows \subseteq Identities
    BY DEF TypeOK
  <1> QED
    BY <1>1, <1>2, <1>3, <1>4, <1>5, <1>6

\* The captured rows, while a step leaves them and the source alone.
LEMMA DatabaseFrame ==
    ASSUME CursorIsExact, PassesOK, CapturedStays,
           UNCHANGED <<rows, burned, schema, upper, shardVars, standing>>
    PROVE  CursorIsExact' /\ PassesOK' /\ CapturedStays'
  <1> USE DEF shardVars
  <1>1. /\ \A s \in Shards : Start(s)' = Start(s) /\ InShard(tokens, s)' = InShard(tokens, s)
                             /\ InShard(rows, s)' = InShard(rows, s)
        /\ \A s \in Shards : \A r : Past(r, s)' = Past(r, s)
        /\ InBound(tokens)' = InBound(tokens)
    BY DEF Start, Lower, Upper, InShard, InBound, Past
  <1>2. CursorIsExact'
    BY <1>1 DEF CursorIsExact
  <1>3. PassesOK'
    BY <1>1 DEF PassesOK
  <1>4. CapturedStays'
    BY DEF CapturedStays
  <1> QED
    BY <1>2, <1>3, <1>4

\* The workers, while a step leaves them and what they read alone.
LEMMA WorkersFrame ==
    ASSUME WorkersOK, UNCHANGED <<phase, rows, burned, upper, shardVars, standing, pending, worker>>
    PROVE  WorkersOK'
  <1> USE DEF shardVars
  <1>1. ASSUME NEW s, NEW p, PageHolds(s, p)
        PROVE  PageHolds(s, p)'
    BY <1>1 DEF PageHolds, InShard, Lower, Upper, Past
  <1> QED
    BY <1>1 DEF WorkersOK

\* Nobody works.
LEMMA NobodyWorks ==
    ASSUME worker' = [w \in Workers |-> Off]
    PROVE  WorkersOK'
  BY DEF WorkersOK, Off

LEMMA IdleWorkers ==
    ASSUME WorkersOK, phase # "capture", worker' = worker
    PROVE  WorkersOK'
  BY DEF WorkersOK

\* The counts, while a step leaves the rows and the counting alone.
LEMMA CountsFrame ==
    ASSUME CountsHold, TypeOK,
           UNCHANGED <<phase, at, contradicted, seen, captured, tokens, upper, burned>>,
           edition' = edition /\ edited' = edited
    PROVE  CountsHold'
  <1>1. \A s \in Shards : Agrees(s)' = Agrees(s)
    BY DEF Agrees, InShard, Lower, Upper
  <1> QED
    BY <1>1 DEF CountsHold

-----------------------------------------------------------------------------
(* The source.                                                               *)

LEMMA MintStep ==
    ASSUME CaptureAssumption, IInv, NEW r \in Identities, Mint(r)
    PROVE  IInv'
  <1> USE DEF IInv, Mint, Change, shardVars, runVars, outputVars
  <1>1. TypeOK'
    BY DEF TypeOK, CaptureAssumption
  <1>2. PhasesOK' /\ EditionsAreRuns'
    BY DEF PhasesOK, EditionsAreRuns
  <1>3. \A s \in Shards : /\ Start(s)' = Start(s) /\ InShard(tokens, s)' = InShard(tokens, s)
                          /\ InShard(rows, s) \subseteq InShard(rows, s)'
    BY DEF Start, Lower, Upper, InShard
  <1>4. \A s \in Shards : \A t : Past(t, s)' = Past(t, s)
    BY DEF Past
  <1>5. CursorIsExact'
    BY <1>3 DEF CursorIsExact, InBound
  <1>6. PassesOK'
    BY <1>3, <1>4 DEF PassesOK
  <1>7. WorkersOK'
    <2>1. ASSUME NEW s, NEW p, PageHolds(s, p)
          PROVE  PageHolds(s, p)'
      BY <2>1 DEF PageHolds, InShard, Lower, Upper, Past
    <2> QED
      BY <2>1 DEF WorkersOK
  <1>8. CapturedStays'
    BY DEF CapturedStays
  <1>9. CountsHold'
    BY CountsFrame
  <1> QED
    BY <1>1, <1>2, <1>5, <1>6, <1>7, <1>8, <1>9

LEMMA BurnStep ==
    ASSUME CaptureAssumption, IInv, NEW r \in Identities, Burn(r)
    PROVE  IInv'
  <1> USE DEF IInv, Burn, Change, shardVars, runVars, outputVars
  <1>1. TypeOK'
    BY DEF TypeOK, CaptureAssumption
  <1>2. PhasesOK' /\ EditionsAreRuns'
    BY DEF PhasesOK, EditionsAreRuns
  <1>3. \A s \in Shards : /\ Start(s)' = Start(s) /\ InShard(tokens, s)' = InShard(tokens, s)
                          /\ InShard(rows, s)' = InShard(rows, s) \ {r}
    BY DEF Start, Lower, Upper, InShard
  <1>4. \A s \in Shards : \A t : Past(t, s)' = Past(t, s)
    BY DEF Past
  <1>5. \A s \in Shards : standing'[s] = standing[s] \ {r}
    BY DEF TypeOK
  <1>6. CursorIsExact'
    BY <1>3 DEF CursorIsExact, InBound
  <1>7. PassesOK'
    <2> SUFFICES ASSUME schema = "ready", NEW s \in Shards
                 PROVE  /\ s \notin started => cursor[s] = Start(s) /\ InShard(tokens, s) = {}
                        /\ s \in started => /\ standing'[s] \subseteq InShard(rows, s)'
                                            /\ \A t \in standing'[s] : t \in tokens \/ Past(t, s)
                        /\ s \in finished => standing'[s] \subseteq tokens
      BY <1>3, <1>4 DEF PassesOK
    <2> QED
      BY <1>3, <1>5 DEF PassesOK
  <1>8. WorkersOK'
    <2>1. ASSUME NEW s \in Shards, NEW p, PageHolds(s, p)
          PROVE  PageHolds(s, p)'
      BY <1>5, <2>1 DEF PageHolds, InShard, Lower, Upper, Past
    <2>2. \A w \in Workers : worker[w].shard \in Shards
      BY TypeFacts
    <2> QED
      BY <2>1, <2>2 DEF WorkersOK
  <1>9. CapturedStays'
    BY DEF CapturedStays
  <1>10. CountsHold'
    <2>1. \A s \in Shards : Agrees(s) => Agrees(s)'
      BY DEF Agrees
    <2> QED
      BY <2>1 DEF CountsHold
  <1> QED
    BY <1>1, <1>2, <1>6, <1>7, <1>8, <1>9, <1>10

-----------------------------------------------------------------------------
(* The beginning and the end of a run.                                       *)

LEMMA BeginStep ==
    ASSUME CaptureAssumption, IInv, Begin
    PROVE  IInv'
  <1> USE DEF IInv, Begin, sourceVars, shardVars, outputVars, BeginCapture, UpgradeSchema
  <1>1. /\ UNCHANGED <<rows, burned, schema, upper, standing, worker, tokens, edition>>
        /\ UNCHANGED <<cursor, captured, started, finished>>
    OBVIOUS
  <1>2. TypeOK'
    <2>1. runs' \in 0 .. MaxRuns
      BY TypeFacts DEF CaptureAssumption
    <2>2. /\ recounted' \subseteq Shards /\ pending' \subseteq Shards /\ contradicted' \subseteq Shards
          /\ edited' \in BOOLEAN /\ phase' \in {"bound", "capture"}
      BY DEF TypeOK
    <2>3. attempt' \in 0 .. 2 /\ at' \in 0 .. ShardCount /\ tally' \in Nat
      BY DEF CaptureAssumption
    <2> QED
      BY <1>1, <2>1, <2>2, <2>3 DEF TypeOK
  <1>3. PhasesOK' /\ EditionsAreRuns'
    <2>1. PhasesOK'
      BY DEF PhasesOK, Reading
    <2>2. edition \in Nat /\ runs \in Nat /\ edition <= runs
      BY TypeFacts DEF EditionsAreRuns
    <2> QED
      BY <2>1, <2>2 DEF EditionsAreRuns
  <1>4. CursorIsExact' /\ PassesOK' /\ CapturedStays'
    BY <1>1, DatabaseFrame
  <1>5. WorkersOK'
    BY <1>1, IdleWorkers
  <1>6. CountsHold'
    <2>1. edition > 0 => edited'
      BY TypeFacts DEF PhasesOK
    <2> QED
      BY <1>1, <2>1 DEF CountsHold
  <1> QED
    BY <1>2, <1>3, <1>4, <1>5, <1>6

LEMMA AbortStep ==
    ASSUME CaptureAssumption, IInv, Abort
    PROVE  IInv'
  <1> USE DEF IInv, Abort, Still, Calm, sourceVars, shardVars, outputVars
  <1>1. TypeOK'
    <2>1. worker' \in [Workers -> [at : {"off", "asking", "answered"}, shard : Shards,
                                   rows : SUBSET Identities]]
      BY DEF Off, CaptureAssumption, Shards
    <2> QED
      BY <2>1 DEF TypeOK, CaptureAssumption
  <1>2. PhasesOK' /\ EditionsAreRuns'
    BY DEF PhasesOK, EditionsAreRuns, Reading
  <1>3. CursorIsExact' /\ PassesOK' /\ CapturedStays'
    BY DatabaseFrame
  <1>4. WorkersOK'
    BY NobodyWorks
  <1>5. CountsHold'
    BY DEF CountsHold
  <1> QED
    BY <1>1, <1>2, <1>3, <1>4, <1>5

\* Before there are tables a step of the first phases concerns nothing captured.
LEMMA NothingCaptured ==
    ASSUME CaptureAssumption, IInv, NoTables, UNCHANGED <<rows, burned>>,
           edition' = edition, schema # "ready", schema' # "ready"
    PROVE  CursorIsExact' /\ PassesOK' /\ CapturedStays'
  BY DEF IInv, CursorIsExact, PassesOK, CapturedStays, NoTables, shardVars

LEMMA FirstCountsStep ==
    ASSUME CaptureAssumption, IInv, ReadUpperBound \/ CountShard \/ CountIdentities
    PROVE  IInv'
  <1> USE DEF IInv, Calm, NoTables, NoWork, sourceVars, shardVars, outputVars
  <1> DEFINE first == {"bound", "counts", "identities"}
  <1>1. /\ UNCHANGED <<rows, burned, changes, runs, edition, edited, companion, built, worker>>
        /\ UNCHANGED <<cursor, captured, started, finished, tokens, standing, seen, recounted>>
        /\ UNCHANGED <<journal, pending, contradicted, attempt>>
        /\ phase \in first /\ phase' \in {"counts", "identities", "tables"}
        /\ schema = "none" /\ schema' = IF phase' = "tables" THEN "tables" ELSE "none"
    BY DEF ReadUpperBound, CountShard, CountIdentities, PhasesOK
  <1>2. upper' \in Ids
    BY DEF ReadUpperBound, CountShard, CountIdentities, TypeOK
  <1>3. tally' \in Nat /\ at' \in 0 .. ShardCount
    <2>1. CASE ReadUpperBound \/ CountIdentities
      BY <2>1 DEF ReadUpperBound, CountIdentities, TypeOK
    <2>2. CASE CountShard
      <3>1. Cardinality(InShard(rows, at)) \in Nat
        <4>1. InShard(rows, at) \subseteq Identities
          BY DEF InShard, TypeOK
        <4> QED
          BY <4>1, RowsAreFinite
      <3>2. at \in Nat /\ at <= ShardCount /\ tally \in Nat
        BY DEF TypeOK, CaptureAssumption
      <3> QED
        BY <2>2, <3>1, <3>2 DEF CountShard, CaptureAssumption
    <2> QED
      BY <2>1, <2>2
  <1>4. TypeOK'
    BY <1>1, <1>2, <1>3 DEF TypeOK
  <1>5. PhasesOK' /\ EditionsAreRuns'
    BY <1>1 DEF PhasesOK, EditionsAreRuns, Reading
  <1>6. CursorIsExact' /\ PassesOK' /\ CapturedStays'
    BY <1>1, NothingCaptured
  <1>7. WorkersOK'
    BY <1>1, IdleWorkers
  <1>8. CountsHold'
    BY <1>1 DEF CountsHold, PhasesOK
  <1> QED
    BY <1>4, <1>5, <1>6, <1>7, <1>8

LEMMA InsertShardsStep ==
    ASSUME CaptureAssumption, IInv, InsertShards
    PROVE  IInv'
  <1> USE DEF IInv, InsertShards, Calm, BeginCapture, sourceVars, outputVars
  <1>1. /\ schema = "tables" /\ started = {} /\ tokens = {} /\ edition = 0
        /\ captured = [s \in Shards |-> 0] /\ finished = {}
    BY DEF PhasesOK, TypeOK
  <1>2. TypeOK'
    <2>1. cursor' \in [Shards -> Nat \X Nat]
      BY TypeFacts
    <2> QED
      BY <2>1 DEF TypeOK
  <1>3. PhasesOK' /\ EditionsAreRuns'
    BY <1>1 DEF PhasesOK, EditionsAreRuns
  <1>4. CursorIsExact'
    <2>1. InBound(tokens)' = {} /\ Cardinality({}) = 0
      BY <1>1, FS_EmptySet DEF InBound
    <2>2. \A s \in Shards : InShard(tokens, s)' = {} /\ captured'[s] = 0
      BY <1>1 DEF InShard
    <2> QED
      BY <1>1, <2>1, <2>2 DEF CursorIsExact
  <1>5. PassesOK'
    <2>1. \A s \in Shards : InShard(tokens, s)' = {} /\ cursor'[s] = Start(s)'
      BY <1>1 DEF InShard, Start, Lower
    <2> QED
      BY <1>1, <2>1 DEF PassesOK
  <1>6. WorkersOK'
    BY IdleWorkers
  <1>7. CapturedStays' /\ CountsHold'
    BY <1>1 DEF CapturedStays, CountsHold
  <1> QED
    BY <1>2, <1>3, <1>4, <1>5, <1>6, <1>7

-----------------------------------------------------------------------------
(* The workers.                                                              *)

\* What an answer says stays true of the shards that a step leaves alone.
LEMMA PagesFrame ==
    ASSUME UNCHANGED <<rows, burned, upper>>, NEW s, NEW p, PageHolds(s, p),
           cursor'[s] = cursor[s], standing'[s] = standing[s]
    PROVE  PageHolds(s, p)'
  BY DEF PageHolds, InShard, Lower, Upper, Past

LEMMA TakeStep ==
    ASSUME CaptureAssumption, IInv, NEW w \in Workers, Take(w)
    PROVE  IInv'
  <1> USE DEF IInv, Calm, KeepShards, sourceVars, outputVars
  <1>1. PICK s \in pending :
            /\ pending' = pending \ {s} /\ started' = started \cup {s}
            /\ worker' = [worker EXCEPT ![w] = [at |-> "asking", shard |-> s, rows |-> {}]]
            /\ standing' = IF s \in started THEN standing
                           ELSE [standing EXCEPT ![s] = InShard(rows, s)]
    BY DEF Take
  <1>2. /\ UNCHANGED <<cursor, captured, finished, tokens, phase, schema, upper, seen, rows, burned,
                       changes, runs, edition, companion, built, recounted, journal, edited,
                       attempt, at, tally, contradicted>>
        /\ phase = "capture" /\ schema = "ready" /\ worker[w].at = "off"
    BY DEF Take, PhasesOK, Reading
  <1>3. s \in Shards /\ s \notin finished
    BY <1>2 DEF TypeOK, PhasesOK
  <1>4. TypeOK'
    <2>1. worker' \in [Workers -> [at : {"off", "asking", "answered"}, shard : Shards,
                                   rows : SUBSET Identities]]
      BY <1>1, <1>3 DEF TypeOK
    <2>2. standing' \in [Shards -> SUBSET Identities]
      BY <1>1 DEF TypeOK, InShard
    <2> QED
      BY <1>1, <1>2, <1>3, <2>1, <2>2 DEF TypeOK
  <1>5. PhasesOK' /\ EditionsAreRuns'
    BY <1>1, <1>2 DEF PhasesOK, EditionsAreRuns, Reading
  <1>6. /\ \A u \in Shards : Start(u)' = Start(u) /\ InShard(tokens, u)' = InShard(tokens, u)
                             /\ InShard(rows, u)' = InShard(rows, u)
        /\ \A u \in Shards : \A r : Past(r, u)' = Past(r, u)
        /\ InBound(tokens)' = InBound(tokens)
    BY <1>2 DEF Start, Lower, Upper, InShard, InBound, Past
  <1>7. CursorIsExact'
    BY <1>2, <1>6 DEF CursorIsExact
  <1>8. PassesOK'
    <2> SUFFICES ASSUME NEW u \in Shards
                 PROVE  /\ u \notin started' => cursor[u] = Start(u) /\ InShard(tokens, u) = {}
                        /\ u \in started' => /\ standing'[u] \subseteq InShard(rows, u)
                                             /\ \A r \in standing'[u] : r \in tokens \/ Past(r, u)
                        /\ u \in finished => standing'[u] \subseteq tokens
      BY <1>2, <1>6 DEF PassesOK
    <2>1. CASE u # s \/ s \in started
      BY <1>1, <1>2, <2>1 DEF PassesOK, TypeOK
    <2>2. CASE u = s /\ s \notin started
      <3>1. standing'[u] = InShard(rows, u)
        BY <1>1, <2>2 DEF TypeOK
      <3>2. cursor[u] = Start(u)
        BY <1>2, <2>2 DEF PassesOK
      <3>3. \A r \in InShard(rows, u) : Past(r, u)
        <4>1. upper \in Nat /\ rows \subseteq Identities
          BY TypeFacts
        <4>2. \A r \in InShard(rows, u) : Before(Start(u), r)
          BY <4>1, RangesAreApart
        <4> QED
          BY <3>2, <4>2 DEF Past
      <3> QED
        BY <1>1, <1>3, <2>2, <3>1, <3>3
    <2> QED
      BY <2>1, <2>2
  <1>9. WorkersOK'
    <2> SUFFICES ASSUME NEW v \in Workers, worker'[v].at # "off"
                 PROVE  /\ phase = "capture"
                        /\ worker'[v].shard \in started' \ (finished \cup pending')
                        /\ \A x \in Workers : x # v /\ worker'[x].at # "off" =>
                              worker'[x].shard # worker'[v].shard
                        /\ worker'[v].at = "answered" =>
                              PageHolds(worker[v].shard, worker[v].rows)' /\ v # w
      BY <1>1, <1>2 DEF WorkersOK, TypeOK
    <2>1. /\ worker'[w] = [at |-> "asking", shard |-> s, rows |-> {}]
          /\ \A x \in Workers : x # w => worker'[x] = worker[x]
      BY <1>1 DEF TypeOK
    <2>2. \A x \in Workers : worker[x].at # "off" => worker[x].shard # s
      BY DEF WorkersOK
    <2>3. worker'[v].at = "answered" => PageHolds(worker[v].shard, worker[v].rows)'
      <3> SUFFICES ASSUME worker'[v].at = "answered" PROVE PageHolds(worker[v].shard, worker[v].rows)'
        OBVIOUS
      <3>1. v # w /\ worker[v].at = "answered" /\ worker[v].shard # s
        BY <2>1, <2>2
      <3>2. PICK u \in Shards, p \in SUBSET Identities : u = worker[v].shard /\ p = worker[v].rows
        BY TypeFacts
      <3>3. PageHolds(u, p)
        BY <3>1, <3>2 DEF WorkersOK
      <3>4. standing'[u] = standing[u]
        BY <1>1, <3>1, <3>2 DEF TypeOK
      <3>5. PageHolds(u, p)'
        BY <1>2, <3>3, <3>4, PagesFrame
      <3>6. worker'[v] = worker[v]
        BY <2>1, <3>1
      <3> QED
        BY <3>2, <3>5, <3>6
    <2> QED
      BY <1>1, <1>2, <1>3, <2>1, <2>2, <2>3 DEF WorkersOK
  <1>10. CapturedStays' /\ CountsHold'
    BY <1>2, CountsFrame DEF CapturedStays
  <1> QED
    BY <1>4, <1>5, <1>7, <1>8, <1>9, <1>10

LEMMA AnswerStep ==
    ASSUME CaptureAssumption, IInv, NEW w \in Workers, Answer(w)
    PROVE  IInv'
  <1> USE DEF IInv, Answer, Still, Calm, KeepShards, sourceVars, outputVars
  <1> DEFINE s == worker[w].shard
  <1>1. worker[w].at = "asking" /\ s \in Shards
    BY DEF TypeOK
  <1>2. /\ worker'[w].at = "answered" /\ worker'[w].shard = s /\ worker'[w].rows = PageOf(s)
        /\ \A v \in Workers : v # w => worker'[v] = worker[v]
    BY DEF TypeOK
  <1>3. PageOf(s) \subseteq Identities
    BY DEF PageOf, InShard, TypeOK
  <1>4. TypeOK'
    <2> DEFINE Jobs == [at : {"off", "asking", "answered"}, shard : Shards, rows : SUBSET Identities]
    <2>1. worker \in [Workers -> Jobs]
      BY DEF TypeOK
    <2>2. [worker[w] EXCEPT !.at = "answered", !.rows = PageOf(s)] \in Jobs
      BY <1>3, <2>1
    <2>3. worker' = [worker EXCEPT ![w] = [worker[w] EXCEPT !.at = "answered", !.rows = PageOf(s)]]
      BY <2>1
    <2>4. worker' \in [Workers -> Jobs]
      <3> HIDE DEF Jobs
      <3> QED
        BY <2>1, <2>2, <2>3
    <2> QED
      BY <2>4 DEF TypeOK, shardVars
  <1>5. PhasesOK' /\ EditionsAreRuns'
    BY DEF PhasesOK, EditionsAreRuns, Reading, shardVars
  <1>6. CursorIsExact' /\ PassesOK' /\ CapturedStays'
    BY DatabaseFrame
  <1>7. WorkersOK'
    <2>1. PageHolds(s, PageOf(s))
      <3>1. s \in started /\ schema = "ready"
        BY <1>1 DEF WorkersOK, PhasesOK, Reading
      <3>2. standing[s] \subseteq InShard(rows, s)
        BY <1>1, <3>1 DEF PassesOK
      <3>3. PageOf(s) \subseteq InShard(rows, s) /\ \A r \in PageOf(s) : Past(r, s)
        BY DEF PageOf
      <3>4. InShard(rows, s) \subseteq InShard(Identities, s) /\ InShard(rows, s) \subseteq rows
        BY DEF InShard, TypeOK
      <3>5. \A r \in standing[s] : Past(r, s) =>
               r \in PageOf(s) \/ (PageOf(s) # {} /\ \A t \in PageOf(s) : Before(t, r))
        BY <1>1, <3>2, TypeFacts, PagesSkipNothing
      <3> QED
        BY <3>3, <3>4, <3>5 DEF PageHolds
    <2>2. PICK u \in Shards, p \in SUBSET Identities : u = s /\ p = PageOf(s)
      BY <1>1, <1>3
    <2>3. UNCHANGED <<rows, burned, upper, cursor, standing, started, finished, pending, phase>>
      BY DEF shardVars
    <2>4. PageHolds(u, p)'
      BY <2>1, <2>2, <2>3, PagesFrame
    <2> SUFFICES ASSUME NEW v \in Workers, worker'[v].at # "off"
                 PROVE  /\ phase = "capture"
                        /\ worker'[v].shard \in started \ (finished \cup pending)
                        /\ \A x \in Workers : x # v /\ worker'[x].at # "off" =>
                              worker'[x].shard # worker'[v].shard
                        /\ worker'[v].at = "answered" => PageHolds(worker[v].shard, worker[v].rows)'
      BY <2>3 DEF WorkersOK
    <2>5. worker'[v].at = "answered" => PageHolds(worker[v].shard, worker[v].rows)'
      <3>1. CASE v = w
        BY <1>2, <2>2, <2>4, <3>1
      <3>2. ASSUME v # w, worker'[v].at = "answered"
            PROVE  PageHolds(worker[v].shard, worker[v].rows)'
        <4>1. worker'[v] = worker[v]
          BY <1>2, <3>2
        <4>2. PICK y \in Shards, q \in SUBSET Identities : y = worker[v].shard /\ q = worker[v].rows
          BY TypeFacts
        <4>3. PageHolds(y, q)
          BY <3>2, <4>1, <4>2 DEF WorkersOK
        <4>4. PageHolds(y, q)'
          BY <2>3, <4>3, PagesFrame
        <4> QED
          BY <4>1, <4>2, <4>4
      <3> QED
        BY <3>1, <3>2
    <2>6. \A x \in Workers : worker'[x].shard = worker[x].shard
                             /\ (worker'[x].at # "off" => worker[x].at # "off")
      BY <1>1, <1>2
    <2> QED
      BY <2>5, <2>6 DEF WorkersOK
  <1>8. CountsHold'
    BY CountsFrame DEF shardVars
  <1> QED
    BY <1>4, <1>5, <1>6, <1>7, <1>8

LEMMA CommitPageStep ==
    ASSUME CaptureAssumption, IInv, NEW w \in Workers, CommitPage(w)
    PROVE  IInv'
  <1> USE DEF IInv, Still, Calm, KeepShards, sourceVars, outputVars
  <1>1. PICK s \in Shards, page \in SUBSET Identities : s = worker[w].shard /\ page = worker[w].rows
    BY TypeFacts
  <1>2. /\ worker[w].at = "answered" /\ page # {} /\ page \cap tokens = {}
        /\ tokens' = tokens \cup page
        /\ cursor' = [cursor EXCEPT ![s] = LastOf(page)]
        /\ captured' = [captured EXCEPT ![s] = @ + Cardinality(page)]
        /\ worker' = [worker EXCEPT ![w].at = "asking", ![w].rows = {}]
        /\ UNCHANGED <<rows, burned, changes, runs, edition, companion, built, schema, upper,
                       standing, seen, started, finished, phase, pending, recounted, journal,
                       edited, attempt, at, tally, contradicted>>
    BY <1>1 DEF CommitPage
  <1>3. /\ phase = "capture" /\ schema = "ready" /\ s \in started \ (finished \cup pending)
        /\ PageHolds(s, page)
    BY <1>1, <1>2 DEF WorkersOK, PhasesOK, Reading
  <1>4. LastOf(page) \in page /\ \A t \in page : t = LastOf(page) \/ Before(t, LastOf(page))
    BY <1>2, LastExists
  <1>5. /\ upper \in Nat /\ tokens \subseteq Identities /\ Identities \subseteq Nat \X Nat
        /\ captured[s] \in Nat /\ cursor[s] \in Nat \X Nat
    BY TypeFacts
  <1>6. InShard(page, s) = page /\ InBound(page) = page
        /\ \A t \in Shards : t # s => InShard(page, t) = {}
    <2>1. InShard(page, s) = page
      BY <1>3 DEF PageHolds, InShard
    <2> QED
      BY <1>5, <2>1, RangesAreApart
  <1>7. /\ InShard(tokens \cup page, s) = InShard(tokens, s) \cup page
        /\ \A t \in Shards : t # s => InShard(tokens \cup page, t) = InShard(tokens, t)
        /\ InBound(tokens \cup page) = InBound(tokens) \cup page
    <2>1. /\ \A t : InShard(tokens \cup page, t) = InShard(tokens, t) \cup InShard(page, t)
          /\ InBound(tokens \cup page) = InBound(tokens) \cup InBound(page)
      BY PartsOfRanges
    <2> QED
      BY <1>6, <2>1
  <1>8. /\ cursor'[s] = LastOf(page) /\ captured'[s] = captured[s] + Cardinality(page)
        /\ \A t \in Shards : t # s => cursor'[t] = cursor[t] /\ captured'[t] = captured[t]
    BY <1>2 DEF TypeOK
  <1>9. \A r \in page : Before(cursor[s], r)
    BY <1>3 DEF PageHolds, Past
  <1>10. CursorIsExact'
    <2>1. tokens' = InBound(tokens)'
      BY <1>2, <1>3, <1>7 DEF CursorIsExact, InBound
    <2>2. \A t \in Shards : InShard(tokens, t)' = InShard(tokens \cup page, t)
      BY <1>2 DEF InShard, Lower, Upper
    <2>3. captured'[s] = Cardinality(InShard(tokens \cup page, s))
      <3> DEFINE old == InShard(tokens, s)
      <3>1. old \subseteq Identities /\ old \cap page = {}
        BY <1>2, <1>5 DEF InShard
      <3>2. captured[s] = Cardinality(old)
        BY <1>3 DEF CursorIsExact
      <3> HIDE DEF old
      <3>3. /\ IsFiniteSet(old) /\ IsFiniteSet(page) /\ Cardinality(old) \in Nat
            /\ Cardinality(page) \in Nat
        BY <3>1, RowsAreFinite
      <3>4. Cardinality(old \cup page) = Cardinality(old) + Cardinality(page) - Cardinality(old \cap page)
        BY <3>3, FS_Union
      <3>5. Cardinality(old \cap page) = 0
        BY <3>1, FS_EmptySet
      <3>6. InShard(tokens \cup page, s) = old \cup page
        BY <1>7 DEF old
      <3>7. Cardinality(old \cup page) = Cardinality(old) + Cardinality(page)
        BY <3>3, <3>4, <3>5
      <3> QED
        BY <1>8, <3>2, <3>6, <3>7
    <2>4. \A r \in InShard(tokens \cup page, s) : r = LastOf(page) \/ Before(r, LastOf(page))
      <3> TAKE r \in InShard(tokens \cup page, s)
      <3>1. CASE r \in page
        BY <1>4, <3>1
      <3>2. CASE r \in InShard(tokens, s)
        <4>1. r = cursor[s] \/ Before(r, cursor[s])
          BY <1>3, <3>2 DEF CursorIsExact
        <4>2. Before(cursor[s], LastOf(page))
          BY <1>4, <1>9
        <4>3. r \in Nat \X Nat /\ LastOf(page) \in Nat \X Nat
          BY <1>4, <1>5, <3>2 DEF InShard
        <4> QED
          BY <1>5, <4>1, <4>2, <4>3, RowsAreOrdered
      <3> QED
        BY <1>7, <3>1, <3>2
    <2>5. \A t \in Shards : /\ captured'[t] = Cardinality(InShard(tokens \cup page, t))
                            /\ \A r \in InShard(tokens \cup page, t) :
                                  r = cursor'[t] \/ Before(r, cursor'[t])
      <3> TAKE t \in Shards
      <3>1. CASE t = s
        BY <1>8, <2>3, <2>4, <3>1
      <3>2. CASE t # s
        BY <1>3, <1>7, <1>8, <3>2 DEF CursorIsExact
      <3> QED
        BY <3>1, <3>2
    <2> QED
      BY <2>1, <2>2, <2>5 DEF CursorIsExact
  <1>11. TypeOK'
    <2>1. tokens' \subseteq Identities
      BY <1>2, <1>5
    <2>2. captured' \in [Shards -> 0 .. Cardinality(Identities)]
      <3>1. \A t \in Shards : captured'[t] = Cardinality(InShard(tokens, t)')
        BY <1>2, <1>3, <1>10 DEF CursorIsExact
      <3>2. \A t \in Shards : InShard(tokens, t)' \subseteq Identities
        BY <2>1 DEF InShard
      <3>3. \A t \in Shards : captured'[t] \in 0 .. Cardinality(Identities)
        BY <3>1, <3>2, RowsAreFinite
      <3>4. captured' = [t \in Shards |-> captured'[t]]
        BY <1>2 DEF TypeOK
      <3> QED
        BY <3>3, <3>4
    <2>3. cursor' \in [Shards -> Nat \X Nat]
      BY <1>2, <1>4, <1>5 DEF TypeOK
    <2>4. worker' \in [Workers -> [at : {"off", "asking", "answered"}, shard : Shards,
                                   rows : SUBSET Identities]]
      <3> DEFINE Jobs == [at : {"off", "asking", "answered"}, shard : Shards, rows : SUBSET Identities]
      <3>1. worker \in [Workers -> Jobs]
        BY DEF TypeOK
      <3>2. [worker[w] EXCEPT !.at = "asking", !.rows = {}] \in Jobs
        BY <3>1
      <3>3. worker' = [worker EXCEPT ![w] = [worker[w] EXCEPT !.at = "asking", !.rows = {}]]
        BY <1>2, <3>1
      <3> HIDE DEF Jobs
      <3>4. worker' \in [Workers -> Jobs]
        BY <3>1, <3>2, <3>3
      <3> QED
        BY <3>4 DEF Jobs
    <2> QED
      BY <1>2, <2>1, <2>2, <2>3, <2>4 DEF TypeOK
  <1>12. PhasesOK' /\ EditionsAreRuns'
    BY <1>2, <1>3 DEF PhasesOK, EditionsAreRuns
  <1>13. PassesOK'
    <2>1. \A t \in Shards : /\ InShard(tokens, t)' = InShard(tokens \cup page, t)
                            /\ InShard(rows, t)' = InShard(rows, t) /\ Start(t)' = Start(t)
                            /\ \A r : Past(r, t)' <=> Before(cursor'[t], r)
      BY <1>2 DEF InShard, Lower, Upper, Start, Past
    <2>2. ASSUME NEW t \in Shards
          PROVE  /\ t \notin started => cursor'[t] = Start(t) /\ InShard(tokens \cup page, t) = {}
                 /\ t \in started => /\ standing[t] \subseteq InShard(rows, t)
                                     /\ \A r \in standing[t] : r \in tokens' \/ Before(cursor'[t], r)
                 /\ t \in finished => standing[t] \subseteq tokens'
      <3>1. CASE t # s
        BY <1>2, <1>3, <1>7, <1>8, <3>1 DEF PassesOK, Past
      <3>2. CASE t = s
        <4>1. \A r \in standing[s] : r \in tokens' \/ Before(LastOf(page), r)
          <5> TAKE r \in standing[s]
          <5>1. CASE r \in tokens
            BY <1>2, <5>1
          <5>2. CASE Past(r, s)
            BY <1>2, <1>3, <1>4, <5>2 DEF PageHolds
          <5> QED
            BY <1>3, <5>1, <5>2 DEF PassesOK
        <4> QED
          BY <1>3, <1>8, <3>2, <4>1 DEF PassesOK
      <3> QED
        BY <3>1, <3>2
    <2>3. ASSUME NEW t \in Shards
          PROVE  /\ t \notin started' => cursor'[t] = Start(t)' /\ InShard(tokens, t)' = {}
                 /\ t \in started' => /\ standing'[t] \subseteq InShard(rows, t)'
                                      /\ \A r \in standing'[t] : r \in tokens' \/ Past(r, t)'
                 /\ t \in finished' => standing'[t] \subseteq tokens'
      <3>1. UNCHANGED <<started, finished, standing>>
        BY <1>2
      <3> QED
        BY <2>1, <2>2, <3>1
    <2> QED
      BY <2>3 DEF PassesOK
  <1>14. WorkersOK'
    <2>1. /\ worker'[w].at = "asking"
          /\ \A v \in Workers : v # w => worker'[v] = worker[v]
          /\ \A v \in Workers : worker'[v].shard = worker[v].shard
                                /\ (worker'[v].at # "off" => worker[v].at # "off")
      BY <1>2 DEF TypeOK
    <2> SUFFICES ASSUME NEW v \in Workers, worker'[v].at # "off"
                 PROVE  /\ phase = "capture"
                        /\ worker'[v].shard \in started \ (finished \cup pending)
                        /\ \A x \in Workers : x # v /\ worker'[x].at # "off" =>
                              worker'[x].shard # worker'[v].shard
                        /\ worker'[v].at = "answered" => PageHolds(worker[v].shard, worker[v].rows)'
      BY <1>2 DEF WorkersOK
    <2>2. ASSUME worker'[v].at = "answered"
          PROVE  PageHolds(worker[v].shard, worker[v].rows)'
      <3>1. v # w /\ worker'[v] = worker[v] /\ worker[v].at = "answered"
        BY <2>1, <2>2
      <3>2. PICK y \in Shards, q \in SUBSET Identities : y = worker[v].shard /\ q = worker[v].rows
        BY TypeFacts
      <3>3. y # s
        BY <1>1, <1>2, <3>1, <3>2 DEF WorkersOK
      <3>4. PageHolds(y, q)
        BY <3>1, <3>2 DEF WorkersOK
      <3>5. PageHolds(y, q)'
        BY <1>2, <1>8, <3>3, <3>4, PagesFrame
      <3> QED
        BY <3>1, <3>2, <3>5
    <2> QED
      BY <2>1, <2>2 DEF WorkersOK
  <1>15. CapturedStays'
    BY <1>2, <1>3 DEF CapturedStays, PageHolds
  <1>16. CountsHold'
    BY <1>2, <1>3 DEF CountsHold
  <1> QED
    BY <1>10, <1>11, <1>12, <1>13, <1>14, <1>15, <1>16

LEMMA CommitTerminalStep ==
    ASSUME CaptureAssumption, IInv, NEW w \in Workers, CommitTerminal(w)
    PROVE  IInv'
  <1> USE DEF IInv, CommitTerminal, Still, Calm, KeepShards, sourceVars, outputVars
  <1>1. PICK s \in Shards : s = worker[w].shard
    BY TypeFacts
  <1>2. /\ phase = "capture" /\ schema = "ready" /\ s \in started \ (finished \cup pending)
        /\ PageHolds(s, {}) /\ finished' = finished \cup {s}
    BY <1>1 DEF WorkersOK, PhasesOK, Reading
  <1>3. TypeOK'
    <2>1. worker' \in [Workers -> [at : {"off", "asking", "answered"}, shard : Shards,
                                   rows : SUBSET Identities]]
      BY DEF Off, CaptureAssumption, Shards, TypeOK
    <2> QED
      BY <1>2, <2>1 DEF TypeOK
  <1>4. PhasesOK' /\ EditionsAreRuns'
    BY <1>2 DEF PhasesOK, EditionsAreRuns
  <1>5. /\ \A t \in Shards : Start(t)' = Start(t) /\ InShard(tokens, t)' = InShard(tokens, t)
                             /\ InShard(rows, t)' = InShard(rows, t)
        /\ \A t \in Shards : \A r : Past(r, t)' = Past(r, t)
        /\ InBound(tokens)' = InBound(tokens)
    BY DEF Start, Lower, Upper, InShard, InBound, Past
  <1>6. CursorIsExact'
    BY <1>5 DEF CursorIsExact
  <1>7. PassesOK'
    <2>1. standing[s] \subseteq tokens
      BY <1>2 DEF PassesOK, PageHolds
    <2> QED
      BY <1>2, <1>5, <2>1 DEF PassesOK
  <1>8. WorkersOK'
    <2>1. worker'[w].at = "off" /\ \A v \in Workers : v # w => worker'[v] = worker[v]
      BY DEF TypeOK, Off
    <2> SUFFICES ASSUME NEW v \in Workers, worker'[v].at # "off"
                 PROVE  /\ phase = "capture"
                        /\ worker'[v].shard \in started \ (finished' \cup pending)
                        /\ \A x \in Workers : x # v /\ worker'[x].at # "off" =>
                              worker'[x].shard # worker'[v].shard
                        /\ worker'[v].at = "answered" => PageHolds(worker[v].shard, worker[v].rows)'
      BY DEF WorkersOK
    <2>2. v # w /\ worker'[v] = worker[v] /\ worker[v].shard # s
      BY <1>1, <2>1 DEF WorkersOK
    <2>3. ASSUME worker'[v].at = "answered"
          PROVE  PageHolds(worker[v].shard, worker[v].rows)'
      <3>1. PICK y \in Shards, q \in SUBSET Identities : y = worker[v].shard /\ q = worker[v].rows
        BY TypeFacts
      <3>2. PageHolds(y, q)
        BY <2>2, <2>3, <3>1 DEF WorkersOK
      <3>3. PageHolds(y, q)'
        BY <3>2, PagesFrame
      <3> QED
        BY <2>2, <3>1, <3>3
    <2> QED
      BY <1>2, <2>1, <2>2, <2>3 DEF WorkersOK
  <1>9. CapturedStays' /\ CountsHold'
    BY <1>2, CountsFrame DEF CapturedStays
  <1> QED
    BY <1>3, <1>4, <1>6, <1>7, <1>8, <1>9

-----------------------------------------------------------------------------
(* The final counts.                                                         *)

LEMMA AllCapturedStep ==
    ASSUME CaptureAssumption, IInv, AllCaptured \/ ReadAgain
    PROVE  IInv'
  <1> USE DEF IInv, AllCaptured, ReadAgain, Still, Calm, sourceVars, shardVars, outputVars
  <1>1. /\ UNCHANGED <<rows, burned, schema, upper, standing, worker, tokens, edition>>
        /\ UNCHANGED <<cursor, captured, started, finished>>
        /\ phase' \in {"capture", "recount"} /\ phase \in {"capture", "reset"}
    BY DEF BeginCapture
  <1>2. TypeOK'
    <2>1. pending' \subseteq Shards /\ contradicted' \subseteq Shards /\ at' \in 0 .. ShardCount
      BY DEF BeginCapture, TypeOK, CaptureAssumption
    <2> QED
      BY <1>1, <2>1 DEF TypeOK
  <1>3. PhasesOK' /\ EditionsAreRuns'
    BY <1>1 DEF PhasesOK, EditionsAreRuns, BeginCapture, Reading
  <1>4. CursorIsExact' /\ PassesOK' /\ CapturedStays'
    BY DatabaseFrame
  <1>5. WorkersOK'
    BY <1>1 DEF WorkersOK
  <1>6. CountsHold'
    <2>1. phase' = "recount" => at' = 0
      BY DEF BeginCapture
    <2>2. \A s \in Shards : ~(s < 0)
      BY DEF Shards
    <2> QED
      BY <1>1, <2>1, <2>2 DEF CountsHold
  <1> QED
    BY <1>2, <1>3, <1>4, <1>5, <1>6

LEMMA RecountStep ==
    ASSUME CaptureAssumption, IInv, Recount
    PROVE  IInv'
  <1> USE DEF IInv, Recount, Calm, sourceVars, outputVars
  <1>1. phase = "recount" /\ at \in Shards /\ at' = at + 1 /\ schema = "ready" /\ at + 1 \in 0 .. ShardCount
    BY DEF TypeOK, Shards, CaptureAssumption, PhasesOK, Reading
  <1>2. InShard(rows, at) \subseteq Identities
    BY DEF InShard, TypeOK
  <1>3. TypeOK'
    BY <1>1, <1>2 DEF TypeOK, shardVars
  <1>4. PhasesOK' /\ EditionsAreRuns'
    BY DEF PhasesOK, EditionsAreRuns, shardVars
  <1>5. CursorIsExact' /\ PassesOK' /\ CapturedStays'
    BY DatabaseFrame
  <1>6. WorkersOK'
    BY <1>1, IdleWorkers
  <1>7. CountsHold'
    <2>1. /\ UNCHANGED <<captured, tokens, upper, burned, phase, edition, edited>>
          /\ seen'[at] = InShard(rows, at)
          /\ \A s \in Shards : s # at => seen'[s] = seen[s]
      BY <1>1 DEF shardVars, TypeOK
    <2>2. \A s \in Shards : s # at /\ Agrees(s) => Agrees(s)'
      BY <2>1 DEF Agrees, InShard, Lower, Upper
    <2>3. \E s \in Shards : s = at /\ (s \in contradicted' \/ Agrees(s)')
      <3>1. PICK s \in Shards : s = at
        BY <1>1
      <3>2. ~burned => InShard(tokens, s) \subseteq InShard(rows, s)
        BY DEF CapturedStays, InShard
      <3>3. seen'[s] = InShard(rows, s) /\ captured'[s] = captured[s]
        BY <2>1, <3>1
      <3>4. InShard(tokens, s)' = InShard(tokens, s)
        BY <2>1 DEF InShard, Lower, Upper
      <3>5. s \in contradicted' \/ Cardinality(InShard(rows, s)) = captured[s]
        BY <3>1
      <3>6. burned' = burned
        BY <2>1
      <3>7. s \in contradicted' \/ Agrees(s)'
        BY <3>2, <3>3, <3>4, <3>5, <3>6 DEF Agrees
      <3> QED
        BY <3>1, <3>7
    <2>4. contradicted \subseteq contradicted'
      OBVIOUS
    <2>5. ASSUME NEW s \in Shards, s < at'
          PROVE  s \in contradicted' \/ Agrees(s)'
      <3>1. CASE s = at
        BY <2>3, <3>1
      <3>2. CASE s # at
        <4>1. s < at
          BY <1>1, <2>5, <3>2 DEF Shards
        <4>2. s \in contradicted \/ Agrees(s)
          BY <1>1, <4>1 DEF CountsHold
        <4> QED
          BY <2>2, <2>4, <3>2, <4>2
      <3> QED
        BY <3>1, <3>2
    <2>6. ~(edition > 0 /\ ~edited)
      BY <1>1 DEF CountsHold
    <2> QED
      BY <1>1, <2>1, <2>5, <2>6 DEF CountsHold
  <1> QED
    BY <1>3, <1>4, <1>5, <1>6, <1>7

LEMMA DecideStep ==
    ASSUME CaptureAssumption, IInv, Decide \/ Finalize
    PROVE  IInv'
  <1> USE DEF IInv, Decide, Finalize, Still, Calm, sourceVars, outputVars
  <1>1. /\ UNCHANGED <<rows, burned, schema, upper, shardVars, standing, worker, seen, contradicted>>
        /\ UNCHANGED <<edition, edited, runs, at>>
        /\ phase \in {"recount", "finalize"} /\ phase' \in {"finalize", "reset", "manifest"}
    OBVIOUS
  <1>2. TypeOK'
    <2>1. attempt' \in 0 .. 2
      BY DEF TypeOK
    <2> QED
      BY <1>1, <2>1 DEF TypeOK, shardVars
  <1>3. PhasesOK' /\ EditionsAreRuns'
    <2>1. phase' = "reset" => attempt' # 0
      BY DEF TypeOK
    <2> QED
      BY <1>1, <2>1 DEF PhasesOK, EditionsAreRuns, shardVars, Reading
  <1>4. CursorIsExact' /\ PassesOK' /\ CapturedStays'
    BY <1>1, DatabaseFrame
  <1>5. WorkersOK'
    BY <1>1, IdleWorkers
  <1>6. CountsHold'
    <2>1. \A s \in Shards : Agrees(s)' = Agrees(s)
      BY <1>1 DEF Agrees, InShard, Lower, Upper, shardVars
    <2>2. phase' \in {"finalize", "manifest"} => \A s \in Shards : Agrees(s)
      <3>1. \A s \in Shards : s < ShardCount
        BY DEF Shards, CaptureAssumption
      <3> QED
        BY <3>1 DEF CountsHold
    <2> QED
      BY <1>1, <2>1, <2>2 DEF CountsHold
  <1> QED
    BY <1>2, <1>3, <1>4, <1>5, <1>6

LEMMA ResetStep ==
    ASSUME CaptureAssumption, IInv, NEW s \in Shards, Reset(s)
    PROVE  IInv'
  <1> USE DEF IInv, Reset, NextReset, Still, Calm, sourceVars, outputVars
  <1> DEFINE left == tokens \ InShard(tokens, s)
  <1>1. phase = "reset" /\ schema = "ready"
    BY DEF PhasesOK, Reading
  <1>2. upper \in Nat /\ tokens \subseteq Identities /\ Start(s) \in Nat \X Nat
    BY TypeFacts
  <1>3. /\ UNCHANGED <<upper, rows, burned, standing, schema>> /\ tokens' = left
        /\ cursor'[s] = Start(s) /\ captured'[s] = 0
        /\ \A t \in Shards : t # s => cursor'[t] = cursor[t] /\ captured'[t] = captured[t]
    BY DEF TypeOK
  <1>4. InShard(left, s) = {} /\ \A t \in Shards : t # s => InShard(left, t) = InShard(tokens, t)
    <2>1. \A t \in Shards : t # s => InShard(InShard(tokens, s), t) = {}
      BY <1>2, RangesAreApart
    <2>2. \A t : InShard(left, t) = InShard(tokens, t) \ InShard(InShard(tokens, s), t)
      BY PartsOfRanges
    <2>3. InShard(InShard(tokens, s), s) = InShard(tokens, s)
      BY PartsOfRanges
    <2> QED
      BY <2>1, <2>2, <2>3
  <1>5. \A t \in Shards : /\ InShard(tokens, t)' = InShard(left, t) /\ InShard(rows, t)' = InShard(rows, t)
                          /\ Start(t)' = Start(t) /\ \A r : Past(r, t)' <=> Before(cursor'[t], r)
    BY <1>3 DEF InShard, Lower, Upper, Start, Past
  <1>6. TypeOK'
    <2>1. cursor' \in [Shards -> Nat \X Nat] /\ captured' \in [Shards -> 0 .. Cardinality(Identities)]
      <3>1. 0 \in 0 .. Cardinality(Identities)
        BY RowsAreFinite
      <3> QED
        BY <1>2, <3>1 DEF TypeOK
    <2>2. <<attempt, s>> \in Attempts \X Shards
      BY DEF TypeOK, Attempts, PhasesOK
    <2> QED
      BY <1>1, <2>1, <2>2 DEF TypeOK
  <1>7. PhasesOK' /\ EditionsAreRuns'
    BY <1>1 DEF PhasesOK, EditionsAreRuns
  <1>8. CursorIsExact'
    <2>1. tokens' = InBound(tokens)'
      BY <1>1, <1>3 DEF CursorIsExact, InBound
    <2>2. ASSUME NEW t \in Shards
          PROVE  /\ captured'[t] = Cardinality(InShard(tokens, t)')
                 /\ \A r \in InShard(tokens, t)' : r = cursor'[t] \/ Before(r, cursor'[t])
      <3>1. CASE t = s
        BY <1>3, <1>4, <1>5, <3>1, FS_EmptySet
      <3>2. CASE t # s
        BY <1>1, <1>3, <1>4, <1>5, <3>2 DEF CursorIsExact
      <3> QED
        BY <3>1, <3>2
    <2> QED
      BY <2>1, <2>2 DEF CursorIsExact
  <1>9. PassesOK'
    <2>1. ASSUME NEW t \in Shards
          PROVE  /\ t \notin started' => cursor'[t] = Start(t)' /\ InShard(tokens, t)' = {}
                 /\ t \in started' => /\ standing'[t] \subseteq InShard(rows, t)'
                                      /\ \A r \in standing'[t] : r \in tokens' \/ Past(r, t)'
                 /\ t \in finished' => standing'[t] \subseteq tokens'
      <3>1. CASE t = s
        BY <1>3, <1>4, <1>5, <3>1 DEF TypeOK
      <3>2. CASE t # s
        <4>1. t \in started => standing[t] \subseteq InShard(rows, t)
          BY <1>1 DEF PassesOK
        <4>2. \A r \in InShard(rows, t) : r \in tokens => r \in left
          <5>1. \A r : r \in InShard(rows, t) /\ r \in tokens => r \in InShard(tokens, t)
            BY DEF InShard
          <5>2. InShard(tokens, t) \subseteq left
            BY <1>4, <3>2 DEF InShard
          <5> QED
            BY <5>1, <5>2
        <4> HIDE DEF left
        <4>3. t \in started => \A r \in standing[t] : r \in left \/ Before(cursor'[t], r)
          BY <1>1, <1>3, <3>2, <4>1, <4>2 DEF PassesOK, Past
        <4>4. t \in finished => standing[t] \subseteq left
          BY <1>1, <4>1, <4>2 DEF PassesOK, TypeOK
        <4>5. t \notin started => cursor[t] = Start(t) /\ InShard(tokens, t) = {}
          BY <1>1 DEF PassesOK
        <4>6. (t \in started' <=> t \in started) /\ (t \in finished' <=> t \in finished)
          BY <3>2
        <4> QED
          BY <1>3, <1>4, <1>5, <3>2, <4>1, <4>3, <4>4, <4>5, <4>6
      <3> QED
        BY <3>1, <3>2
    <2> QED
      BY <2>1 DEF PassesOK
  <1>10. WorkersOK'
    BY <1>1, IdleWorkers
  <1>11. CapturedStays' /\ CountsHold'
    BY <1>1, <1>3 DEF CapturedStays, CountsHold
  <1> QED
    BY <1>6, <1>7, <1>8, <1>9, <1>10, <1>11

LEMMA WriteManifestStep ==
    ASSUME CaptureAssumption, IInv, WriteManifest
    PROVE  IInv'
  <1> USE DEF IInv, WriteManifest, sourceVars
  <1>1. edition \in Nat /\ runs \in Nat /\ edition < runs /\ runs <= MaxRuns /\ schema = "ready"
    BY TypeFacts DEF EditionsAreRuns, PhasesOK, Reading, TypeOK, CaptureAssumption
  <1>2. TypeOK'
    <2>1. edition' \in 0 .. MaxRuns /\ at' \in 0 .. ShardCount
      BY <1>1 DEF CaptureAssumption
    <2>2. /\ UNCHANGED <<rows, changes, burned, schema, upper, cursor, captured, started, finished,
                         tokens, recounted, journal, tally, pending, contradicted, worker, runs,
                         companion, built, standing, seen>>
      BY DEF shardVars
    <2>3. phase' = "off" /\ attempt' \in 0 .. 2
      OBVIOUS
    <2>4. edited' = FALSE
      OBVIOUS
    <2>5. edited' \in BOOLEAN
      BY ONLY <2>4
    <2> HIDE DEF WriteManifest
    <2> QED
      BY <2>1, <2>2, <2>3, <2>5 DEF TypeOK
  <1>3. PhasesOK' /\ EditionsAreRuns'
    BY <1>1 DEF PhasesOK, EditionsAreRuns, shardVars, Reading
  <1>4. CursorIsExact' /\ PassesOK' /\ CapturedStays'
    BY DatabaseFrame
  <1>5. WorkersOK'
    BY IdleWorkers
  <1>6. CountsHold'
    <2>1. \A s \in Shards : Agrees(s)' = Agrees(s)
      BY DEF Agrees, InShard, Lower, Upper, shardVars
    <2> QED
      BY <2>1 DEF CountsHold
  <1> QED
    BY <1>2, <1>3, <1>4, <1>5, <1>6

-----------------------------------------------------------------------------
(* The companion and the build.                                              *)

LEMMA OutputStep ==
    ASSUME CaptureAssumption, IInv,
           RequestDrops \/ (\E d \in Drops : AskDrop(d)) \/ WriteCompanion \/ Build
    PROVE  IInv'
  <1> USE DEF IInv, NoRun, sourceVars, shardVars, runVars
  <1>1. NoRun
    BY DEF RequestDrops, AskDrop, WriteCompanion, Build
  <1>2. /\ companion' \in [edition : 0 .. MaxRuns, requested : SUBSET Drops, asked : SUBSET Drops,
                           drops : SUBSET Drops, manifest : BOOLEAN]
        /\ built' \in [edition : 0 .. MaxRuns, tokens : SUBSET Identities,
                       drops : SUBSET Drops, companion : 0 .. MaxRuns]
    <2> DEFINE Companions == [edition : 0 .. MaxRuns, requested : SUBSET Drops,
                              asked : SUBSET Drops, drops : SUBSET Drops, manifest : BOOLEAN]
               Builds == [edition : 0 .. MaxRuns, tokens : SUBSET Identities,
                          drops : SUBSET Drops, companion : 0 .. MaxRuns]
    <2>1. companion \in Companions /\ built \in Builds
      BY DEF TypeOK
    <2>2. CASE RequestDrops
      <3>1. Referenced(tokens) \subseteq Drops /\ edition \in 0 .. MaxRuns
        BY DEF Referenced, Drops, TypeOK
      <3>2. companion' = [edition |-> edition, requested |-> Referenced(tokens), asked |-> {},
                          drops |-> {}, manifest |-> FALSE]
        BY <2>2 DEF RequestDrops, NoCompanion
      <3> QED
        BY <2>1, <2>2, <3>1, <3>2 DEF RequestDrops
    <2>3. CASE \E d \in Drops : AskDrop(d)
      <3>1. PICK d \in Drops : AskDrop(d)
        BY <2>3
      <3>2. companion.asked \cup {d} \in SUBSET Drops
            /\ companion.drops \cup ({d} \cap VisibleDrops) \in SUBSET Drops
        BY <2>1
      <3>3. companion' \in Companions
        BY <2>1, <3>1, <3>2 DEF AskDrop
      <3> QED
        BY <2>1, <3>1, <3>3 DEF AskDrop
    <2>4. CASE WriteCompanion
      BY <2>1, <2>4 DEF WriteCompanion
    <2>5. CASE Build
      <3>1. tokens \in SUBSET Identities /\ edition \in 0 .. MaxRuns
            /\ companion.drops \in SUBSET Drops /\ companion.edition \in 0 .. MaxRuns
        BY <2>1 DEF TypeOK
      <3> QED
        BY <2>1, <2>5, <3>1 DEF Build
    <2> QED
      BY <2>2, <2>3, <2>4, <2>5
  <1>3. TypeOK'
    BY <1>1, <1>2 DEF TypeOK
  <1>4. PhasesOK' /\ EditionsAreRuns'
    BY <1>1 DEF PhasesOK, EditionsAreRuns
  <1>5. CursorIsExact' /\ PassesOK' /\ CapturedStays'
    BY <1>1, DatabaseFrame
  <1>6. WorkersOK'
    BY <1>1, WorkersFrame
  <1>7. CountsHold'
    BY <1>1, CountsFrame
  <1> QED
    BY <1>3, <1>4, <1>5, <1>6, <1>7

-----------------------------------------------------------------------------
(* The theorems.                                                             *)

LEMMA InitOK ==
    ASSUME CaptureAssumption, Init
    PROVE  IInv
  <1> USE DEF Init
  <1>1. TypeOK
    <2>1. 0 \in 0 .. Cardinality(Identities)
      BY RowsAreFinite
    <2>2. worker \in [Workers -> [at : {"off", "asking", "answered"}, shard : Shards,
                                  rows : SUBSET Identities]]
      BY DEF Off, CaptureAssumption, Shards
    <2>3. /\ companion \in [edition : 0 .. MaxRuns, requested : SUBSET Drops, asked : SUBSET Drops,
                            drops : SUBSET Drops, manifest : BOOLEAN]
          /\ built \in [edition : 0 .. MaxRuns, tokens : SUBSET Identities,
                        drops : SUBSET Drops, companion : 0 .. MaxRuns]
      BY DEF NoCompanion, NoBuild, CaptureAssumption
    <2>4. /\ cursor \in [Shards -> Nat \X Nat]
          /\ captured \in [Shards -> 0 .. Cardinality(Identities)]
          /\ standing \in [Shards -> SUBSET Identities] /\ seen \in [Shards -> SUBSET Identities]
      BY <2>1 DEF NoChain
    <2>5. /\ rows \subseteq Identities /\ changes \in 0 .. MaxChanges /\ upper \in Ids
          /\ attempt \in 0 .. 2 /\ at \in 0 .. ShardCount /\ tally \in Nat
          /\ runs \in 0 .. MaxRuns /\ edition \in 0 .. MaxRuns
      BY DEF CaptureAssumption, Ids
    <2> QED
      BY <2>2, <2>3, <2>4, <2>5 DEF TypeOK
  <1>2. PhasesOK /\ EditionsAreRuns
    BY DEF PhasesOK, EditionsAreRuns, Reading
  <1>3. CursorIsExact /\ PassesOK /\ WorkersOK
    BY DEF CursorIsExact, PassesOK, WorkersOK, Off
  <1>4. CapturedStays /\ CountsHold
    BY DEF CapturedStays, CountsHold
  <1> QED
    BY <1>1, <1>2, <1>3, <1>4 DEF IInv

LEMMA NextKeeps ==
    ASSUME CaptureAssumption, IInv, [Next]_vars
    PROVE  IInv'
  <1>1. CASE \E r \in Identities : Mint(r) \/ Burn(r)
    BY <1>1, MintStep, BurnStep
  <1>2. CASE Begin
    BY <1>2, BeginStep
  <1>3. CASE Abort
    BY <1>3, AbortStep
  <1>4. CASE Capture
    <2>1. CASE ReadUpperBound \/ CountShard \/ CountIdentities
      BY <2>1, FirstCountsStep
    <2>2. CASE InsertShards
      BY <2>2, InsertShardsStep
    <2>3. CASE \E w \in Workers : Take(w) \/ Answer(w) \/ CommitPage(w) \/ CommitTerminal(w)
      BY <2>3, TakeStep, AnswerStep, CommitPageStep, CommitTerminalStep
    <2>4. CASE AllCaptured \/ ReadAgain
      BY <2>4, AllCapturedStep
    <2>5. CASE Recount
      BY <2>5, RecountStep
    <2>6. CASE Decide \/ Finalize
      BY <2>6, DecideStep
    <2>7. CASE \E s \in Shards : Reset(s)
      BY <2>7, ResetStep
    <2>8. CASE WriteManifest
      BY <2>8, WriteManifestStep
    <2> QED
      BY <1>4, <2>1, <2>2, <2>3, <2>4, <2>5, <2>6, <2>7, <2>8 DEF Capture
  <1>5. CASE RequestDrops \/ (\E d \in Drops : AskDrop(d)) \/ WriteCompanion \/ Build
    BY <1>5, OutputStep
  <1>6. CASE UNCHANGED vars
    <2> USE <1>6 DEF IInv, vars, sourceVars, shardVars, runVars, outputVars
    <2>1. TypeOK' /\ PhasesOK' /\ EditionsAreRuns'
      BY DEF TypeOK, PhasesOK, EditionsAreRuns
    <2>2. CursorIsExact' /\ PassesOK' /\ CapturedStays'
      BY DatabaseFrame
    <2>3. WorkersOK' /\ CountsHold'
      BY WorkersFrame, CountsFrame
    <2> QED
      BY <2>1, <2>2, <2>3
  <1> QED
    BY <1>1, <1>2, <1>3, <1>4, <1>5, <1>6 DEF Next

\* The inductive invariant holds for any rows, ranges, workers, page size and bounds.
THEOREM Invariance ==
    ASSUME CaptureAssumption
    PROVE  Spec => []IInv
  <1>1. Init => IInv
    BY InitOK
  <1>2. IInv /\ [Next]_vars => IInv'
    BY NextKeeps
  <1> QED
    BY <1>1, <1>2, PTL DEF Spec

\* Wherever a run of captureShard or resetMismatchedShards stopped, the cursor, the
\* count and the rows of each range describe the same pages.
THEOREM CursorsAreExact ==
    ASSUME CaptureAssumption
    PROVE  Spec => []CursorIsExact
  <1>1. IInv => CursorIsExact
    BY DEF IInv
  <1> QED
    BY <1>1, Invariance, PTL

\* The keyset of captureShard steps over no row that stood during a range's whole pass,
\* over all the runs, answers and resets that the pass took.
THEOREM RowsThatStandAreCaptured ==
    ASSUME CaptureAssumption
    PROVE  Spec => []StandingRowsAreCaptured
  <1>1. IInv => StandingRowsAreCaptured
    BY DEF IInv, PassesOK, PhasesOK, TypeOK, StandingRowsAreCaptured
  <1> QED
    BY <1>1, Invariance, PTL

\* Only a build changes what is built, of counts that hold.
LEMMA BuildFollows ==
    ASSUME CaptureAssumption, IInv, [Next]_vars
    PROVE  [BuildIsCounted]_vars
  <1> SUFFICES ASSUME built' # built
               PROVE  BuildIsCounted
    BY DEF BuildIsCounted
  <1>1. Build
    BY DEF Next, Begin, Capture, Abort, RequestDrops, AskDrop, WriteCompanion, Mint, Burn,
       Change, Calm, Still, ReadUpperBound, CountShard, CountIdentities, InsertShards, Take,
       Answer, CommitPage, CommitTerminal, AllCaptured, Recount, Decide, Reset, ReadAgain,
       Finalize, WriteManifest, outputVars, vars, NoTables, NoWork, KeepShards
  <1>2. /\ built'.tokens = tokens /\ edition > 0 /\ ~edited
        /\ UNCHANGED <<upper, seen, burned>>
    BY <1>1 DEF Build, Manifested, NoRun, sourceVars
  <1>3. ASSUME NEW s \in Shards
        PROVE  /\ Cardinality(InShard(tokens, s)) = Cardinality(seen[s])
               /\ ~burned => InShard(tokens, s) = seen[s]
    <2>1. Agrees(s) /\ schema = "ready"
      BY <1>2, TypeFacts DEF IInv, CountsHold, PhasesOK
    <2>2. captured[s] = Cardinality(InShard(tokens, s))
      BY <2>1 DEF IInv, CursorIsExact
    <2>3. IsFiniteSet(seen[s])
      BY TypeFacts, RowsAreFinite DEF IInv
    <2>4. ~burned => InShard(tokens, s) = seen[s]
      BY <2>1, <2>2, <2>3, FS_Subset DEF Agrees
    <2> QED
      BY <2>1, <2>2, <2>4 DEF Agrees
  <1>4. \A s \in Shards : InShard(built.tokens, s)' = InShard(tokens, s)
    BY <1>2 DEF InShard, Lower, Upper
  <1> QED
    BY <1>2, <1>3, <1>4 DEF BuildIsCounted

\* verifyFinalCounts, the manifest and buildCompassHoldingsD1: what is built has, range by
\* range, as many rows as the source had when the range was counted last, and exactly
\* its rows if none ever disappeared.
THEOREM BuildsAreCounted ==
    ASSUME CaptureAssumption
    PROVE  Spec => [][BuildIsCounted]_vars
  <1>1. IInv /\ [Next]_vars => [BuildIsCounted]_vars
    BY BuildFollows
  <1> QED
    BY <1>1, Invariance, PTL DEF Spec
===============================================================================
