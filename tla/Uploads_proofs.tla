---------------------------- MODULE Uploads_proofs ---------------------------
(***************************************************************************)
(* The four commands that copy files to R2, for any archives, plans, Drops *)
(* and rows, any workers, attempts and faults: the records of the upload   *)
(* and the holdings' archive stand for objects that are in the bucket, the *)
(* reports of the publication for all of its objects, and what failures    *)
(* leave behind is bounded.  The recovery executor's part is an instance   *)
(* of the module that proves it.                                           *)
(***************************************************************************)
EXTENDS Uploads, FiniteSetTheorems, SequenceTheorems, WellFoundedInduction, TLAPS

(* The checkpoint file.                                                      *)

Tokens == Keys \cup {"header", "newline", "fragment"}

\* A file whose records are all of objects in S.
Stands(f, S) == f \in Seq(Tokens) /\ \A i \in 1 .. Len(f) : f[i] \in Keys => f[i] \in S

LEMMA PrefixStands ==
    ASSUME NEW f, NEW S, Stands(f, S), NEW n \in 0 .. Len(f)
    PROVE  Stands(SubSeq(f, 1, n), S) /\ Len(SubSeq(f, 1, n)) = n
  <1>1. f \in Seq(Tokens)
    BY DEF Stands
  <1>2. /\ SubSeq(f, 1, n) \in Seq(Tokens) /\ Len(SubSeq(f, 1, n)) = n
        /\ \A i \in 1 .. n : SubSeq(f, 1, n)[i] = f[i]
    BY <1>1
  <1>3. \A i \in 1 .. n : i \in 1 .. Len(f)
    BY <1>1
  <1> QED
    BY <1>1, <1>2, <1>3 DEF Stands

LEMMA JoinStands ==
    ASSUME NEW f, NEW g, NEW S, Stands(f, S), Stands(g, S)
    PROVE  Stands(f \o g, S) /\ Len(f \o g) = Len(f) + Len(g)
  <1>1. f \in Seq(Tokens) /\ g \in Seq(Tokens)
    BY DEF Stands
  <1>2. /\ f \o g \in Seq(Tokens) /\ Len(f \o g) = Len(f) + Len(g)
        /\ \A i \in 1 .. Len(f) + Len(g) :
              (f \o g)[i] = IF i <= Len(f) THEN f[i] ELSE g[i - Len(f)]
    BY <1>1, ConcatProperties
  <1>3. ASSUME NEW i \in 1 .. Len(f) + Len(g), (f \o g)[i] \in Keys
        PROVE  (f \o g)[i] \in S
    <2>1. CASE i <= Len(f)
      <3>1. i \in 1 .. Len(f)
        BY <1>1, <2>1
      <3> QED
        BY <1>2, <1>3, <2>1, <3>1 DEF Stands
    <2>2. CASE i > Len(f)
      <3>1. i - Len(f) \in 1 .. Len(g)
        BY <1>1, <2>2
      <3>2. (f \o g)[i] = g[i - Len(f)]
        BY <1>1, <1>2, <2>2
      <3> QED
        BY <1>3, <3>1, <3>2 DEF Stands
    <2> QED
      BY <1>1, <2>1, <2>2
  <1> QED
    BY <1>2, <1>3 DEF Stands

LEMMA TokensStand ==
    ASSUME Artwork!CheckpointAssumption, NEW S
    PROVE  /\ Stands(<<>>, S) /\ Stands(<<"fragment">>, S) /\ Stands(Artwork!Line("header"), S)
           /\ \A k \in Keys \cap S : Stands(Artwork!Line(k), S) /\ Stands(<<k>>, S)
  <1>1. Stands(<<>>, S)
    BY DEF Stands
  <1>2. Stands(<<"fragment">>, S)
    BY DEF Stands, Artwork!CheckpointAssumption, Tokens
  <1>3. Stands(Artwork!Line("header"), S)
    <2>1. <<"header", "newline">> \in Seq(Tokens) /\ Len(<<"header", "newline">>) = 2
      BY DEF Tokens
    <2> QED
      BY <2>1 DEF Stands, Artwork!CheckpointAssumption, Artwork!Line
  <1>4. ASSUME NEW k \in Keys \cap S PROVE Stands(Artwork!Line(k), S) /\ Stands(<<k>>, S)
    <2>1. <<k, "newline">> \in Seq(Tokens) /\ Len(<<k, "newline">>) = 2
      BY DEF Tokens
    <2>2. <<k>> \in Seq(Tokens) /\ Len(<<k>>) = 1
      BY DEF Tokens
    <2> QED
      BY <2>1, <2>2 DEF Stands, Artwork!CheckpointAssumption, Artwork!Line
  <1> QED
    BY <1>1, <1>2, <1>3, <1>4

\* A nonempty set of natural numbers has a least one.
LEMMA LeastNumber ==
    ASSUME NEW T \in SUBSET Nat, T # {}
    PROVE  \E m \in T : \A n \in T : m <= n
  <1> DEFINE R == {ss \in Nat \X Nat : ss[1] < ss[2]}
  <1>1. IsWellFoundedOn(R, Nat)
    BY NatLessThanWellFounded DEF OpToRel
  <1>2. \A m, n \in Nat : m < n => <<m, n>> \in R
    OBVIOUS
  <1> HIDE DEF R
  <1>3. PICK m \in T : \A n \in T : <<n, m>> \notin R
    BY <1>1, WFMin
  <1>4. ASSUME NEW n \in T PROVE m <= n
    <2>1. m \in Nat /\ n \in Nat /\ ~(n < m)
      BY <1>2, <1>3
    <2> QED
      BY <2>1
  <1> QED
    BY <1>4

\* A dropped last line is a suffix of the file: the line it starts with exists.
LEMMA LastLine ==
    ASSUME NEW f \in Seq(Tokens), Artwork!HasInvalid(f)
    PROVE  \E s \in Artwork!LineStarts(f) : \A t \in Artwork!LineStarts(f) : t <= s
  <1>1. PICK i \in DOMAIN f : f[i] # "newline"
    BY DEF Artwork!HasInvalid, Artwork!Invalid
  <1>2. DOMAIN f = 1 .. Len(f) /\ Len(f) \in Nat
    OBVIOUS
  <1> DEFINE T == {j \in 1 .. i : \A m \in j .. i : f[m] # "newline"}
  <1>3. T \in SUBSET Nat /\ i \in T
    BY <1>1, <1>2
  <1>4. PICK j \in T : \A n \in T : j <= n
    BY <1>3, LeastNumber
  <1>5. j \in Artwork!LineStarts(f)
    <2>1. j \in DOMAIN f /\ f[j] # "newline"
      BY <1>2
    <2>2. ASSUME j > 1, f[j - 1] # "newline" PROVE FALSE
      <3>1. j - 1 \in 1 .. i /\ \A m \in (j - 1) .. i : m = j - 1 \/ m \in j .. i
        BY <1>2, <2>2
      <3>2. j - 1 \in T
        BY <2>2, <3>1
      <3> QED
        BY <1>3, <1>4, <3>2
    <2> QED
      BY <2>1, <2>2 DEF Artwork!LineStarts
  <1> DEFINE U == {n \in 0 .. Len(f) : Len(f) - n \in Artwork!LineStarts(f)}
  <1>6. U \in SUBSET Nat /\ Len(f) - j \in U
    BY <1>2, <1>5 DEF Artwork!LineStarts
  <1>7. PICK n \in U : \A m \in U : n <= m
    BY <1>6, LeastNumber
  <1>8. ASSUME NEW t \in Artwork!LineStarts(f) PROVE t <= Len(f) - n
    <2>1. t \in 1 .. Len(f) /\ Len(f) - t \in 0 .. Len(f) /\ Len(f) - (Len(f) - t) = t
      BY <1>2 DEF Artwork!LineStarts
    <2>2. Len(f) - t \in U
      BY <2>1
    <2> QED
      BY <1>2, <1>7, <2>1, <2>2
  <1> QED
    BY <1>7, <1>8

LEMMA KeptIsPrefix ==
    ASSUME NEW f \in Seq(Tokens)
    PROVE  \E n \in 0 .. Len(f) : Artwork!Kept(f) = SubSeq(f, 1, n)
  <1>1. CASE Artwork!HasInvalid(f)
    <2> DEFINE last == CHOOSE s \in Artwork!LineStarts(f) : \A t \in Artwork!LineStarts(f) :
        t <= s
    <2>1. last \in Artwork!LineStarts(f)
      BY <1>1, LastLine
    <2>2. last - 1 \in 0 .. Len(f)
      BY <2>1 DEF Artwork!LineStarts
    <2>3. Artwork!Kept(f) = SubSeq(f, 1, last - 1)
      BY <1>1 DEF Artwork!Kept
    <2> QED
      BY <2>2, <2>3
  <1>2. CASE ~Artwork!HasInvalid(f)
    <2>1. Len(f) \in 0 .. Len(f) /\ SubSeq(f, 1, Len(f)) = f
      OBVIOUS
    <2> QED
      BY <1>2, <2>1 DEF Artwork!Kept
  <1> QED
    BY <1>1, <1>2

LEMMA KeptStands ==
    ASSUME NEW f, NEW S, Stands(f, S)
    PROVE  Stands(Artwork!Kept(f), S) /\ Len(Artwork!Kept(f)) <= Len(f) /\
           Artwork!Records(f) \subseteq S
  <1>1. f \in Seq(Tokens)
    BY DEF Stands
  <1>2. PICK n \in 0 .. Len(f) : Artwork!Kept(f) = SubSeq(f, 1, n)
    BY <1>1, KeptIsPrefix
  <1>3. Stands(Artwork!Kept(f), S) /\ Len(Artwork!Kept(f)) = n
    BY <1>2, PrefixStands
  <1>4. ASSUME NEW i \in DOMAIN Artwork!Kept(f), f[i] \in Keys PROVE f[i] \in S
    <2>1. i \in 1 .. n /\ 1 .. n \subseteq 1 .. Len(f)
      BY <1>1, <1>3 DEF Stands
    <2> QED
      BY <1>4, <2>1 DEF Stands
  <1> QED
    BY <1>1, <1>3, <1>4 DEF Artwork!Records

-----------------------------------------------------------------------------
(* The inductive invariant.                                                  *)

\* The keys that hold their object.
Held == {k \in Keys : bucket[k] = "stored"}

UploadShapes ==
    /\ bucket \in [Keys -> {"absent", "foreign", "stored"}]
    /\ task \in [Keys -> Artwork!Tasks]
    /\ phase \in {"down", "header", "reading", "waiting", "loading", "draining"}
    /\ pos \in Nat \ {0} /\ failures \in Nat
    /\ synced \in 0 .. Len(file)

\* What a run could read, and what it has read or recorded, is in the bucket.
CheckpointStands ==
    /\ Stands(file, Held) /\ completed \subseteq Held
    /\ \A k \in Keys : task[k] \in {"write", "done"} => k \in Held

\* A record that waits for its turn is of a task that waits for it.
UploadChain ==
    /\ chain \in Seq(Keys)
    /\ \A i \in 1 .. Len(chain) : task[chain[i]] = "write"
    /\ \A i, j \in 1 .. Len(chain) : chain[i] = chain[j] => i = j

\* Between two runs nothing of a run is left.
UploadDown ==
    /\ phase \in {"down", "header"} =>
         task = Artwork!NoTask /\ failures = 0 /\ pos = 1 /\ chain = <<>>
    /\ phase \in {"waiting", "loading"} => pos <= Len(Archive)

\* What the reader has passed is stored, under way, or counted as a failure.
UploadReader ==
    \A i \in DOMAIN Archive :
        /\ i >= pos => task[Archive[i]] = "none"
        /\ i < pos => failures > 0 \/ Archive[i] \in Held \/ task[Archive[i]] \in {"put", "head"}

ReportStands == report = "complete" => phase = "down" /\ Held = Keys

\* The failures that a run may still count.
UploadBound ==
    /\ Cardinality(Artwork!Active) <= Concurrency
    /\ failures + Cardinality(Artwork!Active) <=
          MaxFailures + Concurrency - (IF damaged = {} THEN 1 ELSE 0)
    /\ phase = "loading" =>
          /\ Cardinality(Artwork!Active) < Concurrency
          /\ failures + Cardinality(Artwork!Active) <= MaxFailures + Concurrency - 2

UploadInv ==
    /\ UploadShapes /\ CheckpointStands /\ UploadChain /\ UploadDown /\ UploadReader
    /\ ReportStands /\ UploadBound

-----------------------------------------------------------------------------
\* The instance has its own copy of the operators of FiniteSets.
LEMMA SameCounts == \A S : Artwork!Cardinality(S) = Cardinality(S)
  BY DEF Artwork!Cardinality, Cardinality, Artwork!IsFiniteSet, IsFiniteSet

LEMMA EntriesAreFinite ==
    ASSUME Artwork!UploadAssumption
    PROVE  IsFiniteSet(Keys)
  <1>1. Archive \in [1 .. Len(Archive) -> Keys] /\ Len(Archive) \in Nat
    BY DEF Artwork!UploadAssumption
  <1>2. Archive \in Surjection(1 .. Len(Archive), Keys)
    BY <1>1 DEF Artwork!UploadAssumption, Surjection
  <1>3. IsFiniteSet(1 .. Len(Archive))
    BY <1>1, FS_Interval
  <1> QED
    BY <1>2, <1>3, FS_Surjection

LEMMA ActiveIsFinite ==
    ASSUME Artwork!UploadAssumption
    PROVE  IsFiniteSet(Artwork!Active) /\ Cardinality(Artwork!Active) \in Nat
  <1>1. Artwork!Active \in SUBSET Keys
    BY DEF Artwork!Active
  <1>2. IsFiniteSet(Artwork!Active)
    BY <1>1, EntriesAreFinite, FS_Subset
  <1> QED
    BY <1>2, FS_CardinalityType

\* More may be stored later: what stood still stands.
LEMMA StandsWithMore ==
    ASSUME NEW f, NEW S, NEW T, S \subseteq T, Stands(f, S)
    PROVE  Stands(f, T)
  BY DEF Stands

\* At the beginning and at the end of a run nothing is under way.
LEMMA NoUploadUnderWay ==
    ASSUME Artwork!UploadAssumption, Artwork!CheckpointAssumption,
           phase' \in {"down", "header", "reading"}, pos' = 1, failures' = 0,
           task' = Artwork!NoTask,
           chain' = <<>>, bucket' \in [Keys -> {"absent", "foreign", "stored"}],
           synced' \in 0 .. Len(file'), Stands(file', Held'), completed' \subseteq Held',
           ReportStands'
    PROVE  UploadInv'
  <1>1. UploadShapes'
    BY DEF UploadShapes, Artwork!NoTask, Artwork!Tasks
  <1>2. CheckpointStands'
    BY DEF CheckpointStands, Artwork!NoTask
  <1>3. UploadChain'
    BY DEF UploadChain
  <1>4. UploadDown'
    BY DEF UploadDown
  <1>5. UploadReader'
    <2>1. \A i \in DOMAIN Archive : Archive[i] \in Keys /\ i >= 1 /\ ~(i < 1)
      BY DEF Artwork!UploadAssumption
    <2> QED
      BY <2>1 DEF UploadReader, Artwork!NoTask
  <1>6. UploadBound'
    <2>1. Artwork!Active' = {}
      BY DEF Artwork!Active, Artwork!NoTask
    <2>2. Cardinality(Artwork!Active') = 0
      BY <2>1, FS_EmptySet
    <2> QED
      BY <2>2 DEF UploadBound, Artwork!UploadAssumption
  <1> QED
    BY <1>1, <1>2, <1>3, <1>4, <1>5, <1>6 DEF UploadInv

LEMMA UploadChainUntouched ==
    ASSUME UploadInv, NEW k \in Keys, NEW s, task[k] # "write",
           task' = [task EXCEPT ![k] = s], UNCHANGED chain
    PROVE  UploadChain'
  BY DEF UploadInv, UploadChain, UploadShapes

LEMMA UploadChainGrows ==
    ASSUME UploadInv, NEW k \in Keys, task[k] # "write",
           task' = [task EXCEPT ![k] = "write"], chain' = Append(chain, k)
    PROVE  UploadChain'
  <1>1. chain \in Seq(Keys) /\ task \in [Keys -> Artwork!Tasks]
    BY DEF UploadInv, UploadChain, UploadShapes
  <1>2. /\ chain' \in Seq(Keys) /\ Len(chain') = Len(chain) + 1
        /\ \A i \in 1 .. Len(chain) : chain'[i] = chain[i]
        /\ chain'[Len(chain) + 1] = k
    BY <1>1
  <1>3. ASSUME NEW i \in 1 .. Len(chain)'
        PROVE  task'[chain'[i]] = "write" /\
               (i # Len(chain) + 1 => chain'[i] # k /\ i \in 1 .. Len(chain))
    <2>1. i = Len(chain) + 1 \/ i \in 1 .. Len(chain)
      BY <1>1, <1>2
    <2>2. ASSUME i \in 1 .. Len(chain)
          PROVE task[chain[i]] = "write" /\ chain[i] # k /\ chain[i] \in Keys
      BY <1>1, <2>2 DEF UploadInv, UploadChain
    <2> QED
      BY <1>1, <1>2, <2>1, <2>2
  <1>4. ASSUME NEW i \in 1 .. Len(chain)', NEW j \in 1 .. Len(chain)', chain'[i] = chain'[j]
        PROVE  i = j
    BY <1>2, <1>3, <1>4 DEF UploadInv, UploadChain
  <1> QED
    BY <1>2, <1>3, <1>4 DEF UploadChain

LEMMA UploadChainShrinks ==
    ASSUME UploadInv, chain # <<>>, NEW s,
           task' = [task EXCEPT ![Head(chain)] = s], chain' = Tail(chain)
    PROVE  UploadChain' /\ Head(chain) \in Keys /\ task[Head(chain)] = "write"
  <1>1. chain \in Seq(Keys) /\ task \in [Keys -> Artwork!Tasks]
    BY DEF UploadInv, UploadChain, UploadShapes
  <1>2. /\ chain' \in Seq(Keys) /\ Len(chain') = Len(chain) - 1 /\ Len(chain) > 0
        /\ \A i \in 1 .. Len(chain) - 1 : chain'[i] = chain[i + 1]
        /\ Head(chain) = chain[1]
    BY <1>1
  <1>3. ASSUME NEW i \in 1 .. Len(chain)'
        PROVE  i + 1 \in 1 .. Len(chain) /\ chain'[i] = chain[i + 1] /\ chain[i + 1] # chain[1]
    <2>1. i + 1 \in 1 .. Len(chain) /\ 1 \in 1 .. Len(chain) /\ i + 1 # 1 /\
          i \in 1 .. Len(chain) - 1
      BY <1>1, <1>2
    <2> QED
      BY <1>2, <2>1 DEF UploadInv, UploadChain
  <1>4. ASSUME NEW i \in 1 .. Len(chain)' PROVE task'[chain'[i]] = "write"
    <2>1. task[chain[i + 1]] = "write" /\ chain[i + 1] \in Keys
      BY <1>1, <1>3 DEF UploadInv, UploadChain
    <2> QED
      BY <1>1, <1>2, <1>3, <2>1
  <1>5. ASSUME NEW i \in 1 .. Len(chain)', NEW j \in 1 .. Len(chain)', chain'[i] = chain'[j]
        PROVE  i = j
    <2>1. i + 1 = j + 1
      BY <1>3, <1>5 DEF UploadInv, UploadChain
    <2> QED
      BY <1>2, <2>1
  <1> QED
    BY <1>1, <1>2, <1>4, <1>5 DEF UploadInv, UploadChain


\* A task goes on; the others and the reader stay where they are.
LEMMA OneUpload ==
    ASSUME UploadInv, Artwork!UploadAssumption, NEW k \in Keys,
           task[k] \in {"put", "head", "write"},
           NEW s \in {"put", "head", "write", "done", "failed"},
           task' = [task EXCEPT ![k] = s], UNCHANGED <<phase, pos, damaged, report>>,
           failures' = IF s = "failed" THEN failures + 1 ELSE failures,
           bucket' \in [Keys -> {"absent", "foreign", "stored"}], Held \subseteq Held',
           s \in {"write", "done"} => k \in Held',
           synced' \in 0 .. Len(file'), Stands(file', Held'), completed' \subseteq Held',
           UploadChain'
    PROVE  UploadInv'
  <1>0. /\ task \in [Keys -> Artwork!Tasks] /\ failures \in Nat
        /\ phase \notin {"down", "header"}
        /\ \A j \in Keys : task'[j] = IF j = k THEN s ELSE task[j]
    BY DEF UploadInv, UploadShapes, UploadDown, Artwork!NoTask
  <1>1. UploadShapes'
    <2>1. task' \in [Keys -> Artwork!Tasks]
      BY <1>0 DEF Artwork!Tasks
    <2> QED
      BY <1>0, <2>1 DEF UploadInv, UploadShapes
  <1>2. CheckpointStands'
    BY <1>0 DEF UploadInv, CheckpointStands
  <1>4. UploadDown'
    BY <1>0 DEF UploadInv, UploadDown
  <1>5. UploadReader'
    <2>1. ASSUME NEW i \in DOMAIN Archive, i >= pos
          PROVE  task'[Archive[i]] = "none"
      <3>1. Archive[i] \in Keys /\ task[Archive[i]] = "none"
        BY <2>1 DEF Artwork!UploadAssumption, UploadInv, UploadReader
      <3> QED
        BY <1>0, <3>1
    <2>2. ASSUME NEW i \in DOMAIN Archive, i < pos
          PROVE  failures' > 0 \/ Archive[i] \in Held' \/ task'[Archive[i]] \in {"put", "head"}
      <3>1. /\ Archive[i] \in Keys
            /\ failures > 0 \/ Archive[i] \in Held \/ task[Archive[i]] \in {"put", "head"}
        BY <2>2 DEF Artwork!UploadAssumption, UploadInv, UploadReader
      <3>2. failures > 0 => failures' > 0
        BY <1>0
      <3>3. CASE Archive[i] = k
        BY <1>0, <3>3
      <3>4. CASE Archive[i] # k
        BY <1>0, <3>1, <3>2, <3>4
      <3> QED
        BY <3>3, <3>4
    <2> QED
      BY <2>1, <2>2 DEF UploadReader
  <1>6. ReportStands'
    BY <1>0 DEF UploadInv, ReportStands
  <1>7. UploadBound'
    <2>1. IsFiniteSet(Artwork!Active) /\ Cardinality(Artwork!Active) \in Nat
      BY ActiveIsFinite
    <2>2. k \in Artwork!Active
      BY DEF Artwork!Active
    <2>3. CASE s \in {"put", "head", "write"}
      <3>1. Artwork!Active' = Artwork!Active /\ failures' = failures
        BY <1>0, <2>2, <2>3 DEF Artwork!Active
      <3> QED
        BY <3>1 DEF UploadInv, UploadBound
    <2>4. CASE s \in {"done", "failed"}
      <3>1. Artwork!Active' = Artwork!Active \ {k}
        BY <1>0, <2>4 DEF Artwork!Active
      <3>2. Cardinality(Artwork!Active') = Cardinality(Artwork!Active) - 1
        BY <2>1, <2>2, <3>1, FS_RemoveElement
      <3>3. failures' \in Nat /\ failures' <= failures + 1
        BY <1>0
      <3>4. /\ Cardinality(Artwork!Active) \in Nat /\ failures \in Nat
            /\ damaged' = damaged /\ phase' = phase
            /\ Cardinality(Artwork!Active') <= Cardinality(Artwork!Active)
            /\ failures' + Cardinality(Artwork!Active') <= failures + Cardinality(Artwork!Active)
        BY <1>0, <2>1, <3>2, <3>3
      <3>5. Cardinality(Artwork!Active') \in Nat
        BY <2>1, <2>2, <3>1, FS_RemoveElement, FS_CardinalityType
      <3>6. /\ MaxFailures \in Nat /\ Concurrency \in Nat
            /\ Cardinality(Artwork!Active) <= Concurrency
            /\ failures + Cardinality(Artwork!Active) <=
                  MaxFailures + Concurrency - (IF damaged = {} THEN 1 ELSE 0)
            /\ phase = "loading" =>
                  /\ Cardinality(Artwork!Active) < Concurrency
                  /\ failures + Cardinality(Artwork!Active) <= MaxFailures + Concurrency - 2
        BY DEF UploadInv, UploadBound, Artwork!UploadAssumption
      <3>7. CASE damaged = {}
        BY <3>3, <3>4, <3>5, <3>6, <3>7 DEF UploadBound
      <3>8. CASE damaged # {}
        BY <3>3, <3>4, <3>5, <3>6, <3>8 DEF UploadBound
      <3> QED
        BY <3>7, <3>8
    <2> QED
      BY <2>3, <2>4
  <1> QED
    BY <1>1, <1>2, <1>4, <1>5, <1>6, <1>7 DEF UploadInv

\* The reader goes on, or what is outside the run changes.
LEMMA ReaderGoesOn ==
    ASSUME UploadInv, Artwork!UploadAssumption,
           phase' \in {"reading", "waiting", "loading", "draining"},
           phase \notin {"down", "header"},
           UNCHANGED <<task, bucket, chain, file, synced, completed, report, damaged>>,
           pos' \in {pos, pos + 1}, failures' \in {failures, failures + 1},
           phase' \in {"waiting", "loading"} => pos' <= Len(Archive),
           pos' = pos + 1 /\ pos <= Len(Archive) => failures' > 0 \/ Archive[pos] \in Held,
           UploadBound'
    PROVE  UploadInv'
  <1>1. UploadShapes' /\ UploadDown' /\ UploadChain' /\ ReportStands'
    BY DEF UploadInv, UploadShapes, UploadDown, UploadChain, ReportStands, Held
  <1>2. CheckpointStands' /\ Held' = Held
    BY DEF UploadInv, CheckpointStands, Held
  <1>3. UploadReader'
    <2>0. pos \in Nat \ {0} /\ failures \in Nat /\ DOMAIN Archive = 1 .. Len(Archive) /\
          Len(Archive) \in Nat
      BY DEF UploadInv, UploadShapes, Artwork!UploadAssumption
    <2>1. ASSUME NEW i \in DOMAIN Archive, i >= pos'
          PROVE  task'[Archive[i]] = "none"
      <3>1. i >= pos
        BY <2>0, <2>1
      <3> QED
        BY <3>1 DEF UploadInv, UploadReader
    <2>2. ASSUME NEW i \in DOMAIN Archive, i < pos'
          PROVE  failures' > 0 \/ Archive[i] \in Held' \/ task'[Archive[i]] \in {"put", "head"}
      <3>1. CASE i < pos
        <4>1. failures > 0 => failures' > 0
          BY <2>0
        <4> QED
          BY <1>2, <3>1, <4>1 DEF UploadInv, UploadReader
      <3>2. CASE ~(i < pos)
        <4>1. i = pos /\ pos' = pos + 1 /\ pos <= Len(Archive)
          BY <2>0, <2>2, <3>2
        <4> QED
          BY <1>2, <4>1
      <3> QED
        BY <3>1, <3>2
    <2> QED
      BY <2>1, <2>2 DEF UploadReader
  <1> QED
    BY <1>1, <1>2, <1>3 DEF UploadInv

\* What an interrupted or a whole write leaves.
LEMMA FileGrows ==
    ASSUME UploadInv, Artwork!CheckpointAssumption, NEW w \in Held \cup {"header"},
           NEW f \in {file} \cup Artwork!Torn(file, w) \cup {file \o Artwork!Line(w)}
    PROVE  Stands(f, Held) /\ Len(file) \in Nat /\ Len(f) \in Nat /\ Len(f) >= Len(file)
  <1>1. Stands(file, Held) /\ Len(file) \in Nat
    BY DEF UploadInv, CheckpointStands, Stands
  <1>2. /\ Stands(<<"fragment">>, Held) /\ Stands(Artwork!Line(w), Held) /\ Stands(<<w>>, Held)
    <2>1. CASE w \in Held
      <3>1. w \in Keys \cap Held
        BY <2>1 DEF Held
      <3> QED
        BY <3>1, TokensStand
    <2>2. CASE w = "header"
      <3>1. Stands(<<w>>, Held)
        BY <2>2 DEF Stands, Tokens, Artwork!CheckpointAssumption
      <3> QED
        BY <2>2, <3>1, TokensStand
    <2> QED
      BY <2>1, <2>2
  <1>3. ASSUME NEW g, Stands(g, Held)
        PROVE  Stands(file \o g, Held) /\ Len(file \o g) \in Nat /\ Len(file \o g) >= Len(file)
    <2>1. Stands(file \o g, Held) /\ Len(file \o g) = Len(file) + Len(g) /\ Len(g) \in Nat
      BY <1>1, <1>3, JoinStands DEF Stands
    <2> QED
      BY <1>1, <2>1
  <1>4. f = file \/ f = file \o <<"fragment">> \/ f = file \o <<w>> \/
        f = file \o Artwork!Line(w)
    BY DEF Artwork!Torn
  <1>5. CASE f = file
    BY <1>1, <1>5
  <1>6. CASE f = file \o <<"fragment">>
    BY <1>1, <1>2, <1>3, <1>6
  <1>7. CASE f = file \o <<w>>
    BY <1>1, <1>2, <1>3, <1>7
  <1>8. CASE f = file \o Artwork!Line(w)
    BY <1>1, <1>2, <1>3, <1>8
  <1> QED
    BY <1>4, <1>5, <1>6, <1>7, <1>8

\* What a loss of power leaves.
LEMMA FileShrinks ==
    ASSUME UploadInv, Artwork!CheckpointAssumption, NEW n \in synced .. Len(file),
           NEW f \in Artwork!Surviving(n)
    PROVE  Stands(f, Held) /\ Len(f) \in Nat
  <1>1. Stands(file, Held) /\ n \in 0 .. Len(file)
    BY DEF UploadInv, CheckpointStands, UploadShapes, Stands
  <1>2. Stands(SubSeq(file, 1, n), Held)
    BY <1>1, PrefixStands
  <1>3. Stands(SubSeq(file, 1, n) \o <<"fragment">>, Held)
    BY <1>2, TokensStand, JoinStands
  <1>4. f = SubSeq(file, 1, n) \/ f = SubSeq(file, 1, n) \o <<"fragment">>
    BY DEF Artwork!Surviving
  <1>5. Stands(f, Held)
    BY <1>2, <1>3, <1>4
  <1> QED
    BY <1>5 DEF Stands

-----------------------------------------------------------------------------
(* Each action.                                                              *)
LEMMA UploadOpens ==
    ASSUME UploadInv, Artwork!UploadAssumption, Artwork!CheckpointAssumption, Artwork!Open
    PROVE  UploadInv'
  <1>1. /\ phase = "down" /\ task = Artwork!NoTask /\ failures = 0 /\ pos = 1 /\ chain = <<>>
        /\ report # "complete" /\ bucket' = bucket /\ Held' = Held /\ report' = report
        /\ task' = task /\ failures' = failures /\ pos' = pos
        /\ bucket' \in [Keys -> {"absent", "foreign", "stored"}]
    BY DEF UploadInv, UploadDown, UploadShapes, Artwork!Open, Artwork!Outside, Held
  <1>2. phase' \in {"header", "reading"} /\ chain' = <<>>
    BY <1>1 DEF Artwork!Open, Artwork!Load, Artwork!checkpointVars
  <1>3. Stands(file, Held) /\ Len(file) \in Nat /\ synced \in 0 .. Len(file) /\
        completed \subseteq Held
    BY DEF UploadInv, CheckpointStands, UploadShapes, Stands
  <1>4. Stands(Artwork!Kept(file), Held) /\ Artwork!Records(file) \subseteq Held
    BY <1>3, KeptStands
  <1>5. Stands(file', Held) /\ synced' \in 0 .. Len(file') /\ completed' \subseteq Held
    <2>1. CASE UNCHANGED Artwork!checkpointVars
      BY <1>3, <2>1 DEF Artwork!checkpointVars
    <2>2. CASE Artwork!Load
      <3>1. file' = Artwork!Kept(file) /\ completed' = Artwork!Records(file)
        BY <2>2 DEF Artwork!Load
      <3>2. Len(Artwork!Kept(file)) \in Nat
        BY <1>4 DEF Stands
      <3>3. CASE Artwork!HasInvalid(file)
        BY <1>4, <2>2, <3>1, <3>2, <3>3 DEF Artwork!Load
      <3>4. CASE ~Artwork!HasInvalid(file)
        BY <1>3, <1>4, <2>2, <3>1, <3>4 DEF Artwork!Load, Artwork!Kept
      <3> QED
        BY <3>3, <3>4
    <2> QED
      BY <2>1, <2>2 DEF Artwork!Open
  <1>6. ReportStands'
    BY <1>1 DEF ReportStands
  <1> QED
    BY <1>1, <1>2, <1>5, <1>6, NoUploadUnderWay

LEMMA UploadHeader ==
    ASSUME UploadInv, Artwork!UploadAssumption, Artwork!CheckpointAssumption, Artwork!Header
    PROVE  UploadInv'
  <1>1. /\ phase = "header" /\ task = Artwork!NoTask /\ failures = 0 /\ pos = 1
        /\ bucket' = bucket /\ Held' = Held /\ report' = report /\ task' = task
        /\ failures' = failures /\ pos' = pos /\ phase' = "reading" /\ chain' = <<>>
        /\ bucket' \in [Keys -> {"absent", "foreign", "stored"}]
    BY
       DEF UploadInv, UploadDown, UploadShapes, Artwork!Header, Artwork!WriteHeader,
           Artwork!Outside, Held
  <1>2. file' = file \o Artwork!Line("header") /\ synced' = Len(file') /\ completed' = {}
    BY DEF Artwork!Header, Artwork!WriteHeader
  <1>3. Stands(file', Held) /\ Len(file') \in Nat
    BY <1>2, FileGrows
  <1>4. ReportStands'
    BY <1>1 DEF UploadInv, ReportStands
  <1> QED
    BY <1>1, <1>2, <1>3, <1>4, NoUploadUnderWay

LEMMA UploadReads ==
    ASSUME UploadInv, Artwork!UploadAssumption, Artwork!CheckpointAssumption, Artwork!NextEntry
    PROVE  UploadInv'
  <1>0. /\ phase = "reading" /\ phase' \in {"reading", "waiting", "draining"}
        /\ UNCHANGED <<task, bucket, chain, file, synced, completed, report, damaged>>
    BY DEF Artwork!NextEntry, Artwork!Outside, Artwork!checkpointVars
  <1>1. pos \in Nat /\ failures \in Nat /\ Len(Archive) \in Nat /\ MaxFailures \in Nat
        /\ Cardinality(Artwork!Active) \in Nat /\ Concurrency \in Nat
    BY ActiveIsFinite DEF UploadInv, UploadShapes, Artwork!UploadAssumption
  <1>2. Artwork!Active' = Artwork!Active
    BY <1>0 DEF Artwork!Active
  <1>3. CASE aborted \/ failures >= MaxFailures \/ pos > Len(Archive)
    <2>1. phase' = "draining" /\ pos' = pos /\ failures' = failures
      BY <1>3 DEF Artwork!NextEntry
    <2>2. UploadBound'
      BY <1>0, <1>2, <2>1 DEF UploadInv, UploadBound
    <2> QED
      BY <1>0, <1>1, <2>1, <2>2, ReaderGoesOn
  <1>4. CASE /\ ~(aborted \/ failures >= MaxFailures \/ pos > Len(Archive))
             /\ Artwork!Entry \in damaged
    <2>1. phase' = "reading" /\ pos' = pos + 1 /\ failures' = failures + 1
      BY <1>0, <1>4 DEF Artwork!NextEntry
    <2>2. damaged # {} /\ damaged' = damaged /\ Cardinality(Artwork!Active) <= Concurrency
          /\ failures + 1 <= MaxFailures
      BY <1>0, <1>1, <1>4 DEF UploadInv, UploadBound
    <2>3. UploadBound'
      BY <1>1, <1>2, <2>1, <2>2 DEF UploadBound
    <2> QED
      BY <1>0, <1>1, <2>1, <2>3, ReaderGoesOn
  <1>5. CASE /\ ~(aborted \/ failures >= MaxFailures \/ pos > Len(Archive))
             /\ Artwork!Entry \notin damaged /\ Artwork!Entry \in completed
    <2>1. phase' = "reading" /\ pos' = pos + 1 /\ failures' = failures
      BY <1>0, <1>5 DEF Artwork!NextEntry
    <2>2. Archive[pos] \in Held
      BY <1>5 DEF UploadInv, CheckpointStands, Artwork!Entry
    <2>3. UploadBound'
      BY <1>0, <1>2, <2>1 DEF UploadInv, UploadBound
    <2> QED
      BY <1>0, <1>1, <2>1, <2>2, <2>3, ReaderGoesOn
  <1>6. CASE /\ ~(aborted \/ failures >= MaxFailures \/ pos > Len(Archive))
             /\ Artwork!Entry \notin damaged /\ Artwork!Entry \notin completed
    <2>1. phase' = "waiting" /\ pos' = pos /\ failures' = failures /\ pos <= Len(Archive)
      BY <1>1, <1>6 DEF Artwork!NextEntry
    <2>2. UploadBound'
      BY <1>0, <1>2, <2>1 DEF UploadInv, UploadBound
    <2> QED
      BY <1>0, <1>1, <2>1, <2>2, ReaderGoesOn
  <1> QED
    BY <1>3, <1>4, <1>5, <1>6

LEMMA UploadSlot ==
    ASSUME UploadInv, Artwork!UploadAssumption, Artwork!CheckpointAssumption, Artwork!Slot
    PROVE  UploadInv'
  <1>0. /\ phase = "waiting" /\ pos' = pos /\ failures' = failures
        /\ phase' = IF failures >= MaxFailures THEN "draining" ELSE "loading"
        /\ Cardinality(Artwork!Active) < Concurrency
        /\ UNCHANGED <<task, bucket, chain, file, synced, completed, report, damaged>>
    BY SameCounts DEF Artwork!Slot, Artwork!Outside, Artwork!checkpointVars
  <1>1. pos \in Nat /\ failures \in Nat /\ Len(Archive) \in Nat /\ MaxFailures \in Nat
        /\ Cardinality(Artwork!Active) \in Nat /\ Concurrency \in Nat /\ pos <= Len(Archive)
    BY <1>0, ActiveIsFinite
       DEF UploadInv, UploadShapes, Artwork!UploadAssumption, UploadDown
  <1>2. Artwork!Active' = Artwork!Active
    BY <1>0 DEF Artwork!Active
  <1>3. UploadBound'
    <2>1. phase' = "loading" => failures < MaxFailures
      BY <1>0, <1>1
    <2>2. phase' = "loading" =>
             failures + Cardinality(Artwork!Active) <= MaxFailures + Concurrency - 2
      BY <1>0, <1>1, <2>1
    <2> QED
      BY <1>0, <1>2, <2>2 DEF UploadInv, UploadBound
  <1> QED
    BY <1>0, <1>1, <1>3, ReaderGoesOn

LEMMA UploadSchedules ==
    ASSUME UploadInv, Artwork!UploadAssumption, Artwork!CheckpointAssumption, Artwork!Schedule
    PROVE  UploadInv'
  <1> DEFINE k == Archive[pos]
  <1>0. /\ phase = "loading" /\ phase' = "reading" /\ pos' = pos + 1 /\ failures' = failures
        /\ task' = [task EXCEPT ![k] = "put"]
        /\ UNCHANGED <<bucket, chain, file, synced, completed, report, damaged>>
    BY DEF Artwork!Schedule, Artwork!Outside, Artwork!checkpointVars, Artwork!Entry
  <1>1. /\ pos \in Nat \ {0} /\ failures \in Nat /\ Len(Archive) \in Nat /\ MaxFailures \in Nat
        /\ Concurrency \in Nat /\ pos <= Len(Archive) /\ DOMAIN Archive = 1 .. Len(Archive)
        /\ task \in [Keys -> Artwork!Tasks] /\ IsFiniteSet(Artwork!Active)
        /\ Cardinality(Artwork!Active) \in Nat
    BY <1>0, ActiveIsFinite
       DEF UploadInv, UploadShapes, Artwork!UploadAssumption, UploadDown
  <1>2. pos \in DOMAIN Archive /\ k \in Keys /\ task[k] = "none"
    BY <1>1 DEF Artwork!UploadAssumption, UploadInv, UploadReader
  <1>3. \A i \in DOMAIN Archive : Archive[i] \in Keys /\ (i # pos => Archive[i] # k)
    BY <1>2 DEF Artwork!UploadAssumption
  <1> HIDE DEF k
  <1>4. \A j \in Keys : task'[j] = IF j = k THEN "put" ELSE task[j]
    BY <1>0, <1>1
  <1>5. UploadShapes' /\ UploadDown' /\ ReportStands' /\ Held' = Held
    <2>1. task' \in [Keys -> Artwork!Tasks]
      BY <1>0, <1>1 DEF Artwork!Tasks
    <2> QED
      BY <1>0, <1>1, <2>1 DEF UploadInv, UploadShapes, UploadDown, ReportStands, Held
  <1>6. CheckpointStands'
    BY <1>0, <1>4, <1>5 DEF UploadInv, CheckpointStands
  <1>7. UploadChain'
    BY <1>0, <1>2, UploadChainUntouched
  <1>8. UploadReader'
    <2>1. ASSUME NEW i \in DOMAIN Archive, i >= pos + 1
          PROVE  task'[Archive[i]] = "none"
      <3>1. i \in Nat /\ i >= pos /\ i # pos
        BY <1>1, <2>1
      <3> QED
        BY <1>3, <1>4, <3>1 DEF UploadInv, UploadReader
    <2>2. ASSUME NEW i \in DOMAIN Archive, i < pos + 1
          PROVE  failures' > 0 \/ Archive[i] \in Held' \/ task'[Archive[i]] \in {"put", "head"}
      <3>1. i = pos \/ i < pos
        BY <1>1, <2>2
      <3>2. CASE i = pos
        BY <1>2, <1>4, <3>2 DEF k
      <3>3. CASE i < pos
        <4>1. Archive[i] # k /\ Archive[i] \in Keys
          BY <1>1, <1>3, <3>3
        <4> QED
          BY <1>0, <1>4, <1>5, <3>3, <4>1 DEF UploadInv, UploadReader
      <3> QED
        BY <3>1, <3>2, <3>3
    <2> QED
      BY <1>0, <2>1, <2>2 DEF UploadReader
  <1>9. UploadBound'
    <2>1. Artwork!Active' = Artwork!Active \cup {k} /\ k \notin Artwork!Active
      BY <1>2, <1>4 DEF Artwork!Active
    <2>2. Cardinality(Artwork!Active') = Cardinality(Artwork!Active) + 1
      BY <1>1, <2>1, FS_AddElement
    <2>3. /\ Cardinality(Artwork!Active) < Concurrency
          /\ failures + Cardinality(Artwork!Active) <= MaxFailures + Concurrency - 2
      BY <1>0 DEF UploadInv, UploadBound
    <2> QED
      BY <1>0, <1>1, <2>2, <2>3 DEF UploadBound
  <1> QED
    BY <1>5, <1>6, <1>7, <1>8, <1>9 DEF UploadInv

\* A task whose object is, or is not, what the bucket holds.
LEMMA UploadTasks ==
    ASSUME UploadInv, Artwork!UploadAssumption, Artwork!CheckpointAssumption, NEW k \in Keys,
           Artwork!Put(k) \/ Artwork!HeadKey(k) \/ Artwork!Cancel(k) \/ Artwork!Lose(k) \/
           Artwork!Refuse(k)
    PROVE  UploadInv'
  <1>0. /\ task[k] \in {"put", "head"} /\ UNCHANGED <<phase, pos, damaged, report, file, synced>>
        /\ synced' \in 0 .. Len(file') /\ Stands(file, Held) /\ completed \subseteq Held
        /\ bucket \in [Keys -> {"absent", "foreign", "stored"}]
    BY
       DEF Artwork!Put, Artwork!HeadKey, Artwork!Cancel, Artwork!Lose, Artwork!Refuse,
           Artwork!ReaderWaits, Artwork!Outside, Artwork!Enqueue, Artwork!checkpointVars,
           UploadInv, UploadShapes, CheckpointStands
  <1>1. CASE /\ bucket' = [bucket EXCEPT ![k] = "stored"] /\ task' = [task EXCEPT ![k] = "write"]
             /\ Artwork!Enqueue(k) /\ failures' = failures
    <2>1. Held' = Held \cup {k} /\ bucket' \in [Keys -> {"absent", "foreign", "stored"}]
      BY <1>0, <1>1 DEF Held
    <2>2. Stands(file', Held')
      BY <1>0, <2>1, StandsWithMore
    <2>3. completed' \subseteq Held' /\ UploadChain'
      BY <1>0, <1>1, <2>1, UploadChainGrows DEF Artwork!Enqueue
    <2> QED
      BY <1>0, <1>1, <2>1, <2>2, <2>3, OneUpload
  <1>2. CASE /\ bucket' = bucket /\ bucket[k] = "stored" /\ task' = [task EXCEPT ![k] = "write"]
             /\ Artwork!Enqueue(k) /\ failures' = failures
    <2>1. Held' = Held /\ k \in Held
      BY <1>2 DEF Held
    <2>2. completed' \subseteq Held' /\ UploadChain'
      BY <1>0, <1>2, <2>1, UploadChainGrows DEF Artwork!Enqueue
    <2> QED
      BY <1>0, <1>2, <2>1, <2>2, OneUpload
  <1>3. CASE /\ bucket' = bucket /\ UNCHANGED Artwork!checkpointVars
             /\ \/ Artwork!Fails(k)
                \/ task' = [task EXCEPT ![k] = "head"] /\ failures' = failures
                \/ task' = [task EXCEPT ![k] = "put"] /\ failures' = failures
    <2>1. Held' = Held /\ completed' = completed
      BY <1>3 DEF Held, Artwork!checkpointVars
    <2>2. PICK s \in {"put", "head", "failed"} :
             /\ task' = [task EXCEPT ![k] = s]
             /\ failures' = IF s = "failed" THEN failures + 1 ELSE failures
      BY <1>3 DEF Artwork!Fails
    <2>3. UploadChain'
      BY <1>0, <1>3, <2>2, UploadChainUntouched DEF Artwork!checkpointVars
    <2> QED
      BY <1>0, <1>3, <2>1, <2>2, <2>3, OneUpload
  <1>4. CASE Artwork!Put(k)
    BY <1>1, <1>3, <1>4 DEF Artwork!Put
  <1>5. CASE Artwork!HeadKey(k)
    BY <1>2, <1>3, <1>5 DEF Artwork!HeadKey, Artwork!Outside
  <1>6. CASE Artwork!Cancel(k) \/ Artwork!Refuse(k)
    BY <1>3, <1>6 DEF Artwork!Cancel, Artwork!Refuse
  <1>7. CASE Artwork!Lose(k)
    BY <1>3, <1>7 DEF Artwork!Lose
  <1> QED
    BY <1>4, <1>5, <1>6, <1>7

\* A record leaves the line: it was written, rejected, or its write failed.
LEMMA UploadRecords ==
    ASSUME UploadInv, Artwork!UploadAssumption, Artwork!CheckpointAssumption,
           Artwork!Write \/ Artwork!Reject \/ Artwork!FailWrite
    PROVE  UploadInv'
  <1> DEFINE k == Head(chain)
  <1>0. /\ chain # <<>> /\ chain' = Tail(chain) /\ completed' = completed /\ bucket' = bucket
        /\ UNCHANGED <<phase, pos, damaged, report>>
    BY
       DEF Artwork!Write, Artwork!Reject, Artwork!FailWrite, Artwork!WriteNext,
           Artwork!RejectNext, Artwork!FailNext, Artwork!ReaderWaits, Artwork!Outside
  <1>1. PICK s \in {"done", "failed"} :
           /\ task' = [task EXCEPT ![k] = s]
           /\ failures' = IF s = "failed" THEN failures + 1 ELSE failures
    BY DEF Artwork!Write, Artwork!Reject, Artwork!FailWrite, Artwork!Fails
  <1>2. k \in Keys /\ task[k] = "write" /\ UploadChain'
    BY <1>0, <1>1, UploadChainShrinks
  <1>3. k \in Held /\ Held' = Held /\ completed \subseteq Held /\ synced \in 0 .. Len(file)
        /\ bucket' \in [Keys -> {"absent", "foreign", "stored"}]
    BY <1>0, <1>2 DEF UploadInv, UploadShapes, CheckpointStands, Held
  <1>4. file' \in {file} \cup Artwork!Torn(file, k) \cup {file \o Artwork!Line(k)}
    BY
       DEF Artwork!Write, Artwork!Reject, Artwork!FailWrite, Artwork!WriteNext,
           Artwork!RejectNext, Artwork!FailNext
  <1>5. synced' \in {synced, Len(file')}
    BY
       DEF Artwork!Write, Artwork!Reject, Artwork!FailWrite, Artwork!WriteNext,
           Artwork!RejectNext, Artwork!FailNext
  <1> HIDE DEF k
  <1>6. Stands(file', Held) /\ Len(file) \in Nat /\ Len(file') \in Nat /\ Len(file') >= Len(file)
    BY <1>3, <1>4, FileGrows
  <1>7. synced' \in 0 .. Len(file')
    BY <1>3, <1>5, <1>6
  <1> QED
    BY <1>0, <1>1, <1>2, <1>3, <1>6, <1>7, OneUpload

\* The command ends.
LEMMA UploadExits ==
    ASSUME UploadInv, Artwork!UploadAssumption, Artwork!CheckpointAssumption,
           Artwork!Finish \/ Artwork!Crash
    PROVE  UploadInv'
  <1>1. /\ phase' = "down" /\ pos' = 1 /\ failures' = 0 /\ task' = Artwork!NoTask
        /\ bucket' = bucket /\ Held' = Held
        /\ bucket' \in [Keys -> {"absent", "foreign", "stored"}]
        /\ Stands(file, Held) /\ Len(file) \in Nat /\ synced \in 0 .. Len(file)
        /\ completed \subseteq Held
    BY
       DEF Artwork!Finish, Artwork!Crash, Artwork!Exit, UploadInv, UploadShapes,
           CheckpointStands, Held, Stands
  <1>2. CASE Artwork!Finish
    <2>1. chain = <<>>
      <3>1. chain \in Seq(Keys) /\ (Len(chain) > 0 => chain[1] \in Keys /\ task[chain[1]] = "write")
        BY DEF UploadInv, UploadChain
      <3>2. Len(chain) = 0
        BY <1>2, <3>1 DEF Artwork!Finish, Artwork!Active
      <3> QED
        BY <3>1, <3>2
    <2>2. chain' = <<>> /\ file' = file /\ completed' = completed /\ synced' \in 0 .. Len(file')
      BY <1>1, <1>2, <2>1 DEF Artwork!Finish, Artwork!Close
    <2>3. ReportStands'
      <3>1. CASE report' = report
        BY <1>1, <3>1 DEF UploadInv, ReportStands
      <3>2. CASE failures = 0 /\ pos > Len(Archive)
        <4>1. ASSUME NEW k \in Keys PROVE k \in Held
          <5>1. PICK i \in DOMAIN Archive : Archive[i] = k
            BY DEF Artwork!UploadAssumption
          <5>2. i < pos
            BY <3>2, <5>1 DEF Artwork!UploadAssumption, UploadInv, UploadShapes
          <5>3. k \notin Artwork!Active
            BY <1>2 DEF Artwork!Finish
          <5> QED
            BY <3>2, <5>1, <5>2, <5>3 DEF UploadInv, UploadReader, Artwork!Active
        <4> QED
          BY <1>1, <4>1 DEF ReportStands, Held
      <3>3. CASE report' = "incomplete"
        BY <3>3 DEF ReportStands
      <3> QED
        BY <1>2, <3>1, <3>2, <3>3 DEF Artwork!Finish
    <2> QED
      BY <1>1, <2>2, <2>3, NoUploadUnderWay
  <1>3. CASE Artwork!Crash
    <2>1. chain' = <<>> /\ completed' = {} /\ report' = report
      BY <1>3 DEF Artwork!Crash, Artwork!Killed, Artwork!PowerLost, Artwork!Forget
    <2>2. Stands(file', Held) /\ synced' \in 0 .. Len(file')
      <3>1. CASE Artwork!Killed(Artwork!Writing)
        <4>1. Artwork!Writing \subseteq Held \cup {"header"}
          <5>1. chain # <<>> => Head(chain) \in Keys /\ task[Head(chain)] = "write"
            <6>1. ASSUME chain # <<>>
                  PROVE 1 \in 1 .. Len(chain) /\ Head(chain) = chain[1] /\ chain[1] \in Keys
              BY <6>1 DEF UploadInv, UploadChain
            <6> QED
              BY <6>1 DEF UploadInv, UploadChain
          <5> QED
            BY <5>1 DEF Artwork!Writing, UploadInv, CheckpointStands
        <4>2. file' = file \/ \E w \in Artwork!Writing :
              file' \in Artwork!Torn(file, w) \cup {file \o Artwork!Line(w)}
          BY <3>1 DEF Artwork!Killed
        <4>3. Stands(file', Held) /\ Len(file') \in Nat /\ Len(file') >= Len(file)
          BY <1>1, <4>1, <4>2, FileGrows
        <4> QED
          BY <1>1, <3>1, <4>3 DEF Artwork!Killed
      <3>2. CASE Artwork!PowerLost
        <4>1. PICK n \in synced .. Len(file) : file' \in Artwork!Surviving(n)
          BY <3>2 DEF Artwork!PowerLost
        <4>2. Stands(file', Held) /\ Len(file') \in Nat
          BY <4>1, FileShrinks
        <4> QED
          BY <3>2, <4>2 DEF Artwork!PowerLost
      <3> QED
        BY <1>3, <3>1, <3>2 DEF Artwork!Crash
    <2>3. ReportStands'
      BY <1>1, <2>1 DEF UploadInv, ReportStands
    <2> QED
      BY <1>1, <2>1, <2>2, <2>3, NoUploadUnderWay
  <1> QED
    BY <1>2, <1>3

\* Killed while the file is written anew: a prefix of what was kept remains.
LEMMA UploadRepairFails ==
    ASSUME UploadInv, Artwork!UploadAssumption, Artwork!CheckpointAssumption,
           Artwork!CrashInRepair
    PROVE  UploadInv'
  <1>1. /\ phase = "down" /\ task = Artwork!NoTask /\ failures = 0 /\ pos = 1 /\ chain = <<>>
        /\ bucket' = bucket /\ Held' = Held /\ report' = report /\ phase' = phase
        /\ task' = task /\ failures' = failures /\ pos' = pos /\ chain' = chain
        /\ completed' = completed /\ synced' = 0
        /\ bucket' \in [Keys -> {"absent", "foreign", "stored"}]
        /\ Stands(file, Held) /\ completed \subseteq Held
    BY
       DEF UploadInv, UploadDown, UploadShapes, CheckpointStands, Artwork!CrashInRepair,
           Artwork!KilledInRepair, Artwork!runVars, Held
  <1>2. Stands(Artwork!Kept(file), Held) /\ Len(Artwork!Kept(file)) \in Nat
    <2>1. Stands(Artwork!Kept(file), Held)
      BY <1>1, KeptStands
    <2> QED
      BY <2>1 DEF Stands
  <1>3. PICK n \in 0 .. Len(Artwork!Kept(file)) - 1 :
           \/ file' = SubSeq(Artwork!Kept(file), 1, n)
           \/ file' = SubSeq(Artwork!Kept(file), 1, n) \o <<"fragment">>
    BY DEF Artwork!CrashInRepair, Artwork!KilledInRepair
  <1>4. Stands(SubSeq(Artwork!Kept(file), 1, n), Held)
    BY <1>2, PrefixStands
  <1>5. Stands(SubSeq(Artwork!Kept(file), 1, n) \o <<"fragment">>, Held)
    BY <1>4, TokensStand, JoinStands
  <1>6. Stands(file', Held) /\ synced' \in 0 .. Len(file')
    <2>1. Stands(file', Held)
      BY <1>3, <1>4, <1>5
    <2> QED
      BY <1>1, <2>1 DEF Stands
  <1>7. ReportStands'
    BY <1>1 DEF UploadInv, ReportStands
  <1> QED
    BY <1>1, <1>6, <1>7, NoUploadUnderWay

\* What happens beside the run: an interrupt, and a put that takes effect late.
LEMMA UploadBeside ==
    ASSUME UploadInv, Artwork!UploadAssumption, Artwork!CheckpointAssumption,
           UNCHANGED <<phase, pos, task, failures, file, synced, completed, chain, report, damaged>>,
           bucket' \in [Keys -> {"absent", "foreign", "stored"}], Held \subseteq Held'
    PROVE  UploadInv'
  <1>1. UploadShapes' /\ UploadChain' /\ UploadDown'
    BY DEF UploadInv, UploadShapes, UploadChain, UploadDown
  <1>2. Stands(file, Held')
    BY StandsWithMore DEF UploadInv, CheckpointStands
  <1>3. CheckpointStands'
    BY <1>2 DEF UploadInv, CheckpointStands
  <1>4. UploadReader'
    BY DEF UploadInv, UploadReader
  <1>5. ReportStands'
    <2>1. Held' \subseteq Keys
      BY DEF Held
    <2> QED
      BY <2>1 DEF UploadInv, ReportStands
  <1>6. UploadBound'
    <2>1. Artwork!Active' = Artwork!Active
      BY DEF Artwork!Active
    <2> QED
      BY <2>1 DEF UploadInv, UploadBound
  <1> QED
    BY <1>1, <1>3, <1>4, <1>5, <1>6 DEF UploadInv

LEMMA UploadStep ==
    ASSUME UploadInv, Artwork!UploadAssumption, Artwork!CheckpointAssumption,
           [Artwork!Next]_Artwork!vars
    PROVE  UploadInv'
  <1>1. CASE Artwork!Open \/ Artwork!Header \/ Artwork!NextEntry \/ Artwork!Slot \/
             Artwork!Schedule
    BY <1>1, UploadOpens, UploadHeader, UploadReads, UploadSlot, UploadSchedules
  <1>2. CASE Artwork!Finish \/ Artwork!Crash \/ Artwork!CrashInRepair
    BY <1>2, UploadExits, UploadRepairFails
  <1>3. CASE Artwork!Write \/ Artwork!Reject \/ Artwork!FailWrite
    BY <1>3, UploadRecords
  <1>4. ASSUME NEW k \in Keys, Artwork!Put(k) \/ Artwork!HeadKey(k) \/ Artwork!Cancel(k) \/
               Artwork!Lose(k) \/ Artwork!Refuse(k)
        PROVE  UploadInv'
    BY <1>4, UploadTasks
  <1>5. CASE Artwork!Interrupt \/ UNCHANGED Artwork!vars \/ \E k \in Keys : Artwork!LatePut(k)
    <2>1. UNCHANGED <<phase, pos, task, failures, file, synced, completed, chain, report, damaged>>
      BY <1>5
         DEF Artwork!Interrupt, Artwork!LatePut, Artwork!vars, Artwork!checkpointVars,
             Artwork!runVars
    <2>2. bucket' \in [Keys -> {"absent", "foreign", "stored"}] /\ Held \subseteq Held'
      BY <1>5
         DEF Artwork!Interrupt, Artwork!LatePut, Artwork!vars, Held, UploadInv,
             UploadShapes
    <2> QED
      BY <2>1, <2>2, UploadBeside
  <1> QED
    BY <1>1, <1>2, <1>3, <1>4, <1>5 DEF Artwork!Next, Artwork!RunStep

LEMMA UploadInit ==
    ASSUME Artwork!UploadAssumption, Artwork!CheckpointAssumption, Artwork!Init
    PROVE  UploadInv
  <1>1. /\ phase = "down" /\ pos = 1 /\ failures = 0 /\ task = Artwork!NoTask
        /\ chain = <<>> /\ file = <<>>
        /\ synced = 0 /\ completed = {} /\ report = "none"
        /\ bucket \in [Keys -> {"absent", "foreign", "stored"}]
    BY DEF Artwork!Init, Artwork!CheckpointInit
  <1>2. UploadShapes /\ UploadChain /\ UploadDown /\ ReportStands
    BY <1>1
       DEF UploadShapes, UploadChain, UploadDown, ReportStands, Artwork!NoTask,
           Artwork!Tasks
  <1>3. CheckpointStands
    BY <1>1, TokensStand DEF CheckpointStands, Artwork!NoTask
  <1>4. UploadReader
    <2>1. \A i \in DOMAIN Archive : Archive[i] \in Keys /\ ~(i < 1)
      BY DEF Artwork!UploadAssumption
    <2> QED
      BY <1>1, <2>1 DEF UploadReader, Artwork!NoTask
  <1>5. UploadBound
    <2>1. Artwork!Active = {}
      BY <1>1 DEF Artwork!Active, Artwork!NoTask
    <2>2. Cardinality(Artwork!Active) = 0
      BY <2>1, FS_EmptySet
    <2> QED
      BY <1>1, <2>2 DEF UploadBound, Artwork!UploadAssumption
  <1> QED
    BY <1>2, <1>3, <1>4, <1>5 DEF UploadInv
-----------------------------------------------------------------------------
(* What follows from it.                                                     *)
LEMMA UploadHolds ==
    ASSUME UploadInv, Artwork!UploadAssumption
    PROVE  Artwork!RecordsAreStored /\ Artwork!FailuresBounded
  <1>1. Artwork!RecordsAreStored
    <2>1. Artwork!Records(file) \subseteq Held
      BY KeptStands DEF UploadInv, CheckpointStands
    <2> QED
      BY <2>1 DEF Artwork!RecordsAreStored, Held
  <1>2. Artwork!FailuresBounded
    BY ActiveIsFinite
       DEF UploadInv, UploadBound, UploadShapes, Artwork!FailuresBounded,
           Artwork!UploadAssumption
  <1> QED
    BY <1>1, <1>2

\* Each step is one of the store: an object appears whole and for good, and a
\* complete report is written when all of them are there.
LEMMA UploadStores ==
    ASSUME UploadInv, UploadInv', Artwork!UploadAssumption, Artwork!CheckpointAssumption,
           [Artwork!Next]_Artwork!vars
    PROVE  Artwork!StoreStep
  <1>0. bucket \in [Keys -> {"absent", "foreign", "stored"}]
    BY DEF UploadInv, UploadShapes
  <1>1. ASSUME bucket' = bucket, report' = report PROVE Artwork!StoreStep
    BY <1>1 DEF Artwork!StoreStep, Artwork!Store!vars
  <1>2. ASSUME NEW k \in Keys, bucket' = [bucket EXCEPT ![k] = "stored"], report' = report
        PROVE  Artwork!StoreStep
    <2>1. {j \in Keys : bucket'[j] = "stored"} = {j \in Keys : bucket[j] = "stored"} \cup {k}
      BY <1>0, <1>2
    <2>2. Artwork!Store!Store(k)
      BY <1>2, <2>1 DEF Artwork!Store!Store
    <2> QED
      BY <2>2 DEF Artwork!StoreStep, Artwork!Store!Next
  <1>3. ASSUME bucket' = bucket, report # "complete", report' = "complete"
        PROVE  Artwork!StoreStep
    <2>1. Held = Keys
      BY <1>3 DEF UploadInv, ReportStands, Held
    <2>2. \A r \in Keys : [k \in Keys |-> k][r] \in {k \in Keys : bucket[k] = "stored"}
      BY <2>1 DEF Held
    <2>3. Artwork!Store!Preserve(Keys)
      BY <1>3, <2>2 DEF Artwork!Store!Preserve
    <2> QED
      BY <2>3 DEF Artwork!StoreStep, Artwork!Store!Next
  <1>4. ASSUME bucket' = bucket, report # "complete", report' # "complete"
        PROVE  Artwork!StoreStep
    BY <1>4 DEF Artwork!StoreStep, Artwork!Store!vars
  <1>5. CASE \E k \in Keys : Artwork!Put(k) \/ Artwork!LatePut(k)
    BY <1>1, <1>2, <1>5 DEF Artwork!Put, Artwork!LatePut
  <1>6. CASE Artwork!Finish
    <2>1. bucket' = bucket /\ report # "complete"
      BY <1>6 DEF Artwork!Finish, UploadInv, ReportStands
    <2> QED
      BY <1>3, <1>4, <2>1
  <1>7. CASE ~Artwork!Finish /\ ~\E k \in Keys : Artwork!Put(k) \/ Artwork!LatePut(k)
    <2>1. bucket' = bucket /\ report' = report
      BY <1>7
         DEF Artwork!Next, Artwork!RunStep, Artwork!Open, Artwork!Header,
             Artwork!NextEntry, Artwork!Slot, Artwork!Schedule, Artwork!Write,
             Artwork!Reject, Artwork!HeadKey, Artwork!Cancel, Artwork!Interrupt,
             Artwork!FailWrite, Artwork!Crash, Artwork!CrashInRepair, Artwork!Lose,
             Artwork!Refuse, Artwork!Outside, Artwork!vars
    <2> QED
      BY <1>1, <2>1
  <1> QED
    BY <1>5, <1>6, <1>7
-----------------------------------------------------------------------------

(* The inductive invariant.                                                  *)

\* A record that waits for its turn is of a worker that waits for it.
PublicationChain ==
    /\ chain \in Seq(Keys)
    /\ \A i \in 1 .. Len(chain) : task[chain[i]] = "record"
    /\ \A i, j \in 1 .. Len(chain) : chain[i] = chain[j] => i = j

\* Between two runs nothing of a run is left.
PublicationDown ==
    phase # "pool" =>
        /\ task = [k \in Keys |-> "none"] /\ counts = Publication!NoCounts /\ cursor = 1
        /\ chain = <<>>

\* What the pool has not come to has no task yet.
PublicationCursor == \A i \in DOMAIN Order : i >= cursor => task[Order[i]] = "none"

\* What an object is counted as goes with the step of its worker.
Counting ==
    /\ counts = [uploaded |-> counts.uploaded, reused |-> counts.reused,
                 proofVerified |-> counts.proofVerified, failed |-> counts.failed]
    /\ counts.uploaded \subseteq Keys /\ counts.reused \subseteq Keys
    /\ counts.proofVerified \subseteq Keys /\ counts.failed \subseteq Keys
    /\ \A k \in Keys :
          /\ task[k] \in {"none", "head", "put"} =>
                k \notin counts.uploaded \cup counts.reused \cup counts.proofVerified \cup
                counts.failed
          /\ task[k] = "record" => k \notin counts.proofVerified /\ bucket[k] = "stored"
          /\ ~(k \in counts.uploaded /\ k \in counts.reused)
          /\ k \in counts.proofVerified => k \notin counts.uploaded \cup counts.reused
          /\ k \in counts.uploaded \cup counts.reused => k \notin Reuses
          /\ task[k] = "put" => k \notin Reuses
          /\ k \in counts.uploaded \cup counts.reused \cup counts.proofVerified =>
               bucket[k] = "stored"
          /\ k \in counts.proofVerified => k \in prior \cup Reuses

PublicationShapes ==
    /\ task \in [Keys -> {"none", "head", "put", "record", "settled"}]
    /\ bucket \in [Keys -> {"absent", "foreign", "stored"}]
    /\ cursor \in Nat \ {0}
    /\ phase \in {"down", "header", "pool"}

PublicationInv ==
    /\ PublicationShapes /\ PublicationChain /\ PublicationDown /\ PublicationCursor /\ Counting

-----------------------------------------------------------------------------
LEMMA ChainUntouched ==
    ASSUME PublicationInv, NEW k \in Keys, NEW s, task[k] # "record",
           task' = [task EXCEPT ![k] = s], UNCHANGED chain
    PROVE  PublicationChain'
  BY DEF PublicationInv, PublicationChain, PublicationShapes

LEMMA ChainGrows ==
    ASSUME PublicationInv, NEW k \in Keys, task[k] # "record",
           task' = [task EXCEPT ![k] = "record"], chain' = Append(chain, k)
    PROVE  PublicationChain'
  <1>1. chain \in Seq(Keys) /\ task \in [Keys -> {"none", "head", "put", "record", "settled"}]
    BY DEF PublicationInv, PublicationChain, PublicationShapes
  <1>2. /\ chain' \in Seq(Keys) /\ Len(chain') = Len(chain) + 1
        /\ \A i \in 1 .. Len(chain) : chain'[i] = chain[i]
        /\ chain'[Len(chain) + 1] = k
    BY <1>1
  <1>3. ASSUME NEW i \in 1 .. Len(chain)'
        PROVE  task'[chain'[i]] = "record" /\
               (i # Len(chain) + 1 => chain'[i] # k /\ i \in 1 .. Len(chain))
    <2>1. i = Len(chain) + 1 \/ i \in 1 .. Len(chain)
      BY <1>1, <1>2
    <2>2. ASSUME i \in 1 .. Len(chain)
          PROVE task[chain[i]] = "record" /\ chain[i] # k /\ chain[i] \in Keys
      BY <1>1, <2>2 DEF PublicationInv, PublicationChain
    <2> QED
      BY <1>1, <1>2, <2>1, <2>2
  <1>4. ASSUME NEW i \in 1 .. Len(chain)', NEW j \in 1 .. Len(chain)', chain'[i] = chain'[j]
        PROVE  i = j
    BY <1>2, <1>3, <1>4 DEF PublicationInv, PublicationChain
  <1> QED
    BY <1>2, <1>3, <1>4 DEF PublicationChain

LEMMA ChainShrinks ==
    ASSUME PublicationInv, chain # <<>>, NEW s,
           task' = [task EXCEPT ![Head(chain)] = s], chain' = Tail(chain)
    PROVE  PublicationChain' /\ Head(chain) \in Keys /\ task[Head(chain)] = "record"
  <1>1. chain \in Seq(Keys) /\ task \in [Keys -> {"none", "head", "put", "record", "settled"}]
    BY DEF PublicationInv, PublicationChain, PublicationShapes
  <1>2. /\ chain' \in Seq(Keys) /\ Len(chain') = Len(chain) - 1 /\ Len(chain) > 0
        /\ \A i \in 1 .. Len(chain) - 1 : chain'[i] = chain[i + 1]
        /\ Head(chain) = chain[1]
    BY <1>1
  <1>3. ASSUME NEW i \in 1 .. Len(chain)'
        PROVE  i + 1 \in 1 .. Len(chain) /\ chain'[i] = chain[i + 1] /\ chain[i + 1] # chain[1]
    <2>1. i + 1 \in 1 .. Len(chain) /\ 1 \in 1 .. Len(chain) /\ i + 1 # 1 /\
          i \in 1 .. Len(chain) - 1
      BY <1>1, <1>2
    <2> QED
      BY <1>2, <2>1 DEF PublicationInv, PublicationChain
  <1>4. ASSUME NEW i \in 1 .. Len(chain)' PROVE task'[chain'[i]] = "record"
    <2>1. task[chain[i + 1]] = "record" /\ chain[i + 1] \in Keys
      BY <1>1, <1>3 DEF PublicationInv, PublicationChain
    <2> QED
      BY <1>1, <1>2, <1>3, <2>1
  <1>5. ASSUME NEW i \in 1 .. Len(chain)', NEW j \in 1 .. Len(chain)', chain'[i] = chain'[j]
        PROVE  i = j
    <2>1. i + 1 = j + 1
      BY <1>3, <1>5 DEF PublicationInv, PublicationChain
    <2> QED
      BY <1>2, <2>1
  <1> QED
    BY <1>1, <1>2, <1>4, <1>5 DEF PublicationInv, PublicationChain

\* At the beginning and at the end of a run nothing is under way.
LEMMA NothingUnderWay ==
    ASSUME Publication!PublicationAssumption, phase' \in {"down", "header", "pool"},
           cursor' = 1, chain' = <<>>,
           task' = [k \in Keys |-> "none"], counts' = Publication!NoCounts,
           bucket' \in [Keys -> {"absent", "foreign", "stored"}]
    PROVE  PublicationInv'
  <1>1. PublicationShapes'
    BY DEF PublicationShapes
  <1>2. PublicationChain'
    BY DEF PublicationChain
  <1>3. PublicationDown'
    BY DEF PublicationDown, Publication!NoCounts
  <1>4. PublicationCursor'
    BY DEF PublicationCursor, Publication!PublicationAssumption
  <1>5. Counting'
    BY DEF Counting, Publication!NoCounts
  <1> QED
    BY <1>1, <1>2, <1>3, <1>4, <1>5 DEF PublicationInv

\* A worker goes on with its object; the others stay where they are.
LEMMA OneTask ==
    ASSUME PublicationInv, Publication!PublicationAssumption, NEW k \in Keys, task[k] # "none",
           NEW s \in {"head", "put", "record", "settled"},
           task' = [task EXCEPT ![k] = s], UNCHANGED <<phase, cursor>>,
           bucket' \in [Keys -> {"absent", "foreign", "stored"}]
    PROVE  PublicationShapes' /\ PublicationDown' /\ PublicationCursor' /\ phase = "pool"
  <1>1. phase = "pool"
    BY DEF PublicationInv, PublicationDown
  <1>2. PublicationShapes'
    BY DEF PublicationInv, PublicationShapes
  <1>3. PublicationDown'
    BY <1>1 DEF PublicationDown
  <1>4. PublicationCursor'
    <2>1. \A i \in DOMAIN Order : Order[i] \in Keys
      BY DEF Publication!PublicationAssumption
    <2> QED
      BY <2>1 DEF PublicationInv, PublicationShapes, PublicationCursor
  <1> QED
    BY <1>1, <1>2, <1>3, <1>4

\* The counts, when the object of one worker is counted in one more set or in none.
LEMMA OneCount ==
    ASSUME PublicationInv, NEW k \in Keys,
           NEW kind \in {"uploaded", "reused", "proofVerified", "failed"},
           counts' = [counts EXCEPT ![kind] = @ \cup {k}]
    PROVE  /\ counts' = [uploaded |-> counts'.uploaded, reused |-> counts'.reused,
                         proofVerified |-> counts'.proofVerified, failed |-> counts'.failed]
           /\ counts'.uploaded =
                 IF kind = "uploaded" THEN counts.uploaded \cup {k} ELSE counts.uploaded
           /\ counts'.reused = IF kind = "reused" THEN counts.reused \cup {k} ELSE counts.reused
           /\ counts'.proofVerified =
                 IF kind = "proofVerified" THEN counts.proofVerified \cup {k}
                                         ELSE counts.proofVerified
           /\ counts'.failed = IF kind = "failed" THEN counts.failed \cup {k} ELSE counts.failed
  BY DEF PublicationInv, Counting

\* An object that settles as a failure, or as nothing.
LEMMA SettlesAsFailure ==
    ASSUME PublicationInv, NEW k \in Keys, task[k] # "none",
           task' = [task EXCEPT ![k] = "settled"],
           counts' = counts \/ counts' = [counts EXCEPT !["failed"] = @ \cup {k}],
           UNCHANGED <<bucket, prior>>
    PROVE  Counting'
  <1>1. CASE counts' = counts
    BY <1>1 DEF PublicationInv, PublicationShapes, Counting
  <1>2. CASE counts' = [counts EXCEPT !["failed"] = @ \cup {k}]
    <2>1. /\ counts' = [uploaded |-> counts'.uploaded, reused |-> counts'.reused,
                        proofVerified |-> counts'.proofVerified, failed |-> counts'.failed]
          /\ counts'.uploaded = counts.uploaded /\ counts'.reused = counts.reused
          /\ counts'.proofVerified = counts.proofVerified
          /\ counts'.failed = counts.failed \cup {k}
      BY <1>2, OneCount
    <2> QED
      BY <2>1 DEF PublicationInv, PublicationShapes, Counting
  <1> QED
    BY <1>1, <1>2

-----------------------------------------------------------------------------
(* Each action.                                                              *)
LEMMA PublicationOpens ==
    ASSUME PublicationInv, Publication!PublicationAssumption, Publication!Open
    PROVE  PublicationInv'
  <1>1. /\ phase = "down" /\ task = [k \in Keys |-> "none"] /\ counts = Publication!NoCounts
        /\ cursor = 1 /\ chain = <<>>
    BY DEF PublicationInv, PublicationDown, Publication!Open
  <1>2. /\ phase' \in {"down", "header", "pool"} /\ chain' = <<>>
        /\ cursor' = 1 /\ task' = [k \in Keys |-> "none"]
        /\ counts' = Publication!NoCounts /\ bucket' = bucket
    BY <1>1
       DEF Publication!Open, Publication!Load, Publication!Outside,
           Publication!checkpointVars
  <1> QED
    BY <1>2, NothingUnderWay DEF PublicationInv, PublicationShapes

LEMMA PublicationHeader ==
    ASSUME PublicationInv, Publication!PublicationAssumption, Publication!Header
    PROVE  PublicationInv'
  <1>1. /\ phase = "header" /\ task = [k \in Keys |-> "none"] /\ counts = Publication!NoCounts
        /\ cursor = 1
    BY DEF PublicationInv, PublicationDown, Publication!Header
  <1>2. /\ phase' \in {"down", "header", "pool"} /\ chain' = <<>>
        /\ cursor' = 1 /\ task' = [k \in Keys |-> "none"]
        /\ counts' = Publication!NoCounts /\ bucket' = bucket
    BY <1>1 DEF Publication!Header, Publication!WriteHeader, Publication!Outside
  <1> QED
    BY <1>2, NothingUnderWay DEF PublicationInv, PublicationShapes

LEMMA PublicationExits ==
    ASSUME PublicationInv, Publication!PublicationAssumption, Publication!Exit,
           chain' = <<>>, bucket' = bucket
    PROVE  PublicationInv'
  BY NothingUnderWay DEF PublicationInv, PublicationShapes, Publication!Exit

LEMMA PublicationTakes ==
    ASSUME PublicationInv, Publication!PublicationAssumption, Publication!Take
    PROVE  PublicationInv'
  <1> DEFINE k == Order[cursor]
  <1>1. cursor \in DOMAIN Order /\ k \in Keys /\ task[k] = "none"
    <2>1. Order \in Seq(Keys) /\ cursor \in Nat \ {0} /\ cursor <= Len(Order)
      BY
         DEF PublicationInv, PublicationShapes, Publication!PublicationAssumption,
             Publication!Take
    <2>2. cursor \in DOMAIN Order
      BY <2>1
    <2> QED
      BY <2>1, <2>2 DEF PublicationInv, PublicationCursor
  <1>2. /\ phase = "pool" /\ phase' = phase /\ task' = [task EXCEPT ![k] = "head"]
        /\ cursor' = cursor + 1 /\ counts' = counts /\ prior' = prior /\ bucket' = bucket
        /\ chain' = chain
    BY DEF Publication!Take, Publication!Outside, Publication!checkpointVars
  <1> HIDE DEF k
  <1>3. PublicationShapes'
    BY <1>1, <1>2 DEF PublicationInv, PublicationShapes
  <1>4. PublicationChain'
    BY <1>1, <1>2, ChainUntouched
  <1>5. PublicationDown'
    BY <1>2 DEF PublicationDown
  <1>6. PublicationCursor'
    <2>1. \A i \in DOMAIN Order : Order[i] \in Keys
      BY DEF Publication!PublicationAssumption
    <2>2. \A i \in DOMAIN Order : i # cursor => Order[i] # k
      BY <1>1 DEF Publication!PublicationAssumption, k
    <2>3. ASSUME NEW i \in DOMAIN Order, i >= cursor + 1 PROVE task'[Order[i]] = "none"
      <3>1. i \in Nat /\ i >= cursor /\ i # cursor
        BY <2>3 DEF Publication!PublicationAssumption, PublicationInv, PublicationShapes
      <3> QED
        BY <3>1, <1>1, <1>2, <2>1, <2>2
           DEF PublicationInv, PublicationShapes, PublicationCursor
    <2> QED
      BY <1>2, <2>3 DEF PublicationCursor
  <1>7. Counting'
    BY <1>1, <1>2 DEF PublicationInv, PublicationShapes, Counting
  <1> QED
    BY <1>3, <1>4, <1>5, <1>6, <1>7 DEF PublicationInv

\* A lookup: the object is refused, proved, to be recorded or to be put.
LEMMA PublicationHeads ==
    ASSUME PublicationInv, Publication!PublicationAssumption, NEW k \in Keys,
           Publication!HeadObject(k)
    PROVE  PublicationInv'
  <1>1. /\ task[k] = "head" /\ UNCHANGED <<phase, cursor, prior>> /\ bucket' = bucket
        /\ bucket' \in [Keys -> {"absent", "foreign", "stored"}]
    BY
       DEF Publication!HeadObject, Publication!PoolWaits, Publication!Outside,
           PublicationInv, PublicationShapes
  <1>2. CASE Publication!Refused(k) /\ Publication!Settle(k, "failed") /\
             UNCHANGED Publication!checkpointVars
    <2>1. task' = [task EXCEPT ![k] = "settled"] /\
          counts' = [counts EXCEPT !["failed"] = @ \cup {k}]
          /\ chain' = chain
      BY <1>2 DEF Publication!Settle, Publication!checkpointVars
    <2>2. PublicationShapes' /\ PublicationDown' /\ PublicationCursor'
      BY <1>1, <2>1, OneTask
    <2>3. PublicationChain'
      BY <1>1, <2>1, ChainUntouched
    <2>4. Counting'
      BY <1>1, <2>1, SettlesAsFailure
    <2> QED
      BY <2>2, <2>3, <2>4 DEF PublicationInv
  <1>3. CASE Publication!BridgeHead(k) = "confirmed" /\ k \in prior /\
             Publication!Settle(k, "proofVerified")
             /\ UNCHANGED Publication!checkpointVars
    <2>1. /\ task' = [task EXCEPT ![k] = "settled"]
          /\ counts' = [counts EXCEPT !["proofVerified"] = @ \cup {k}] /\ chain' = chain
      BY <1>3 DEF Publication!Settle, Publication!checkpointVars
    <2>2. PublicationShapes' /\ PublicationDown' /\ PublicationCursor'
      BY <1>1, <2>1, OneTask
    <2>3. PublicationChain'
      BY <1>1, <2>1, ChainUntouched
    <2>4. bucket[k] = "stored"
      BY <1>3 DEF Publication!BridgeHead, PublicationInv, PublicationShapes
    <2>5. /\ counts' = [uploaded |-> counts'.uploaded, reused |-> counts'.reused,
                        proofVerified |-> counts'.proofVerified, failed |-> counts'.failed]
          /\ counts'.uploaded = counts.uploaded /\ counts'.reused = counts.reused
          /\ counts'.proofVerified = counts.proofVerified \cup {k}
          /\ counts'.failed = counts.failed
      BY <2>1, OneCount
    <2>6. Counting'
      BY <1>1, <1>3, <2>1, <2>4, <2>5 DEF PublicationInv, PublicationShapes, Counting
    <2> QED
      BY <2>2, <2>3, <2>6 DEF PublicationInv
  <1>4. CASE Publication!BridgeHead(k) = "confirmed" /\
             task' = [task EXCEPT ![k] = "record"] /\ Publication!Enqueue(k)
             /\ counts' = counts
    <2>1. PublicationShapes' /\ PublicationDown' /\ PublicationCursor'
      BY <1>1, <1>4, OneTask
    <2>2. PublicationChain'
      BY <1>1, <1>4, ChainGrows DEF Publication!Enqueue
    <2>3. bucket[k] = "stored"
      BY <1>4 DEF Publication!BridgeHead, PublicationInv, PublicationShapes
    <2>4. Counting'
      BY <1>1, <1>4, <2>3 DEF PublicationInv, PublicationShapes, Counting
    <2> QED
      BY <2>1, <2>2, <2>4 DEF PublicationInv
  <1>5. CASE k \in Publication!Uploads /\ task' = [task EXCEPT ![k] = "put"] /\ counts' = counts
             /\ UNCHANGED Publication!checkpointVars
    <2>1. PublicationShapes' /\ PublicationDown' /\ PublicationCursor'
      BY <1>1, <1>5, OneTask
    <2>2. PublicationChain'
      BY <1>1, <1>5, ChainUntouched DEF Publication!checkpointVars
    <2>3. Counting'
      BY <1>1, <1>5 DEF PublicationInv, PublicationShapes, Counting, Publication!Uploads
    <2> QED
      BY <2>1, <2>2, <2>3 DEF PublicationInv
  <1> QED
    BY <1>2, <1>3, <1>4, <1>5 DEF Publication!HeadObject

LEMMA PublicationPuts ==
    ASSUME PublicationInv, Publication!PublicationAssumption, NEW k \in Keys,
           Publication!PutObject(k)
    PROVE  PublicationInv'
  <1>1. task[k] = "put" /\ UNCHANGED <<phase, cursor, prior>>
    BY DEF Publication!PutObject, Publication!PoolWaits
  <1>2. CASE Publication!Settle(k, "failed") /\ UNCHANGED bucket /\
             UNCHANGED Publication!checkpointVars
    <2>1. task' = [task EXCEPT ![k] = "settled"] /\
          counts' = [counts EXCEPT !["failed"] = @ \cup {k}]
          /\ chain' = chain /\ bucket' = bucket
      BY <1>2 DEF Publication!Settle, Publication!checkpointVars
    <2>2. bucket' \in [Keys -> {"absent", "foreign", "stored"}]
      BY <2>1 DEF PublicationInv, PublicationShapes
    <2>3. PublicationShapes' /\ PublicationDown' /\ PublicationCursor'
      BY <1>1, <2>1, <2>2, OneTask
    <2>4. PublicationChain'
      BY <1>1, <2>1, ChainUntouched
    <2>5. Counting'
      BY <1>1, <2>1, SettlesAsFailure
    <2> QED
      BY <2>3, <2>4, <2>5 DEF PublicationInv
  <1>3. CASE /\ Publication!BridgePut(k) \in {"uploaded", "reused"} /\ bucket' = [bucket EXCEPT ![k] = "stored"]
             /\ counts' = [counts EXCEPT ![Publication!BridgePut(k)] = @ \cup {k}]
             /\ task' = [task EXCEPT ![k] = "record"] /\ Publication!Enqueue(k)
    <2>1. bucket' \in [Keys -> {"absent", "foreign", "stored"}]
      BY <1>3 DEF PublicationInv, PublicationShapes
    <2>2. PublicationShapes' /\ PublicationDown' /\ PublicationCursor'
      BY <1>1, <1>3, <2>1, OneTask
    <2>3. PublicationChain'
      BY <1>1, <1>3, ChainGrows DEF Publication!Enqueue
    <2>4. /\ counts' = [uploaded |-> counts'.uploaded, reused |-> counts'.reused,
                        proofVerified |-> counts'.proofVerified, failed |-> counts'.failed]
          /\ counts'.proofVerified = counts.proofVerified /\ counts'.failed = counts.failed
          /\ \/ counts'.uploaded = counts.uploaded \cup {k} /\ counts'.reused = counts.reused
             \/ counts'.uploaded = counts.uploaded /\ counts'.reused = counts.reused \cup {k}
      BY <1>3, OneCount
    <2>5. bucket'[k] = "stored" /\ \A j \in Keys : bucket[j] = "stored" => bucket'[j] = "stored"
      BY <1>3 DEF PublicationInv, PublicationShapes
    <2>6. Counting'
      BY <1>1, <1>3, <2>4, <2>5 DEF PublicationInv, PublicationShapes, Counting
    <2> QED
      BY <2>2, <2>3, <2>6 DEF PublicationInv
  <1> QED
    BY <1>2, <1>3 DEF Publication!PutObject

\* A record leaves the line: it was written, rejected, or its write failed.
LEMMA PublicationRecords ==
    ASSUME PublicationInv, Publication!PublicationAssumption, chain # <<>>, chain' = Tail(chain),
           Publication!Settle(Head(chain), Publication!Counted(Head(chain))) \/
           Publication!Settle(Head(chain), "failed"),
           UNCHANGED <<phase, cursor, prior, bucket>>
    PROVE  PublicationInv'
  <1> DEFINE k == Head(chain)
  <1>1. task' = [task EXCEPT ![k] = "settled"]
    BY DEF Publication!Settle
  <1>2. k \in Keys /\ task[k] = "record" /\ PublicationChain'
    BY <1>1, ChainShrinks
  <1>3. bucket' \in [Keys -> {"absent", "foreign", "stored"}] /\ bucket' = bucket
    BY DEF PublicationInv, PublicationShapes
  <1>4. Publication!Counted(k) \in {"none", "proofVerified", "reused"}
    BY DEF Publication!Counted
  <1>5. Publication!Settle(k, Publication!Counted(k)) \/ Publication!Settle(k, "failed")
    OBVIOUS
  <1> HIDE DEF k
  <1>6. PublicationShapes' /\ PublicationDown' /\ PublicationCursor'
    BY <1>1, <1>2, <1>3, OneTask
  <1>7. ASSUME counts' = counts \/ counts' = [counts EXCEPT !["failed"] = @ \cup {k}]
        PROVE  Counting'
    BY <1>1, <1>2, <1>7, SettlesAsFailure
  <1>8. ASSUME Publication!Counted(k) \in {"proofVerified", "reused"},
               counts' = [counts EXCEPT ![Publication!Counted(k)] = @ \cup {k}]
        PROVE  Counting'
    <2>1. /\ counts' = [uploaded |-> counts'.uploaded, reused |-> counts'.reused,
                        proofVerified |-> counts'.proofVerified, failed |-> counts'.failed]
          /\ counts'.uploaded = counts.uploaded /\ counts'.failed = counts.failed
          /\ \/ /\ Publication!Counted(k) = "proofVerified" /\ counts'.proofVerified = counts.proofVerified \cup {k}
                /\ counts'.reused = counts.reused
             \/ /\ Publication!Counted(k) = "reused" /\ counts'.reused = counts.reused \cup {k}
                /\ counts'.proofVerified = counts.proofVerified
      BY <1>2, <1>8, OneCount
    <2>2. /\ Publication!Counted(k) = "proofVerified" => k \in Reuses
          /\ Publication!Counted(k) = "reused" => k \notin Reuses \cup counts.uploaded
      BY DEF Publication!Counted
    <2>3. Counting'
      BY <1>1, <1>2, <1>3, <2>1, <2>2 DEF PublicationInv, PublicationShapes, Counting
    <2> QED
      BY <2>3
  <1>9. \/ counts' = counts
        \/ counts' = [counts EXCEPT !["failed"] = @ \cup {k}]
        \/ Publication!Counted(k) \in {"proofVerified", "reused"} /\
             counts' = [counts EXCEPT ![Publication!Counted(k)] = @ \cup {k}]
    BY <1>4, <1>5 DEF Publication!Settle
  <1> QED
    BY <1>2, <1>6, <1>7, <1>8, <1>9 DEF PublicationInv

\* A request is given up or cancelled.
LEMMA PublicationGivesUp ==
    ASSUME PublicationInv, Publication!PublicationAssumption, NEW k \in Keys,
           Publication!Lose(k) \/ Publication!Cancel(k)
    PROVE  PublicationInv'
  <1>1. /\ task[k] \in {"head", "put"} /\ UNCHANGED <<phase, cursor, prior>> /\ chain' = chain
        /\ bucket' = bucket /\ bucket' \in [Keys -> {"absent", "foreign", "stored"}]
    BY
       DEF Publication!Lose, Publication!Cancel, Publication!PoolWaits,
           Publication!checkpointVars, PublicationInv, PublicationShapes
  <1>2. \/ task' = task /\ counts' = counts
        \/ /\ task' = [task EXCEPT ![k] = "settled"]
           /\ counts' = counts \/ counts' = [counts EXCEPT !["failed"] = @ \cup {k}]
    BY DEF Publication!Lose, Publication!Cancel, Publication!Settle
  <1>3. CASE task' = task /\ counts' = counts
    BY <1>1, <1>3 DEF PublicationInv, PublicationShapes, PublicationChain, PublicationDown,
                      PublicationCursor, Counting
  <1>4. CASE /\ task' = [task EXCEPT ![k] = "settled"]
             /\ counts' = counts \/ counts' = [counts EXCEPT !["failed"] = @ \cup {k}]
    <2>1. PublicationShapes' /\ PublicationDown' /\ PublicationCursor'
      BY <1>1, <1>4, OneTask
    <2>2. PublicationChain'
      BY <1>1, <1>4, ChainUntouched
    <2>3. Counting'
      BY <1>1, <1>4, SettlesAsFailure
    <2> QED
      BY <2>1, <2>2, <2>3 DEF PublicationInv
  <1> QED
    BY <1>2, <1>3, <1>4

\* What happens outside the run: an object appears late, or is removed between two runs.
LEMMA PublicationOutside ==
    ASSUME PublicationInv, Publication!PublicationAssumption,
           UNCHANGED <<chain, phase, cursor, task, counts, prior>>,
           bucket' \in [Keys -> {"absent", "foreign", "stored"}],
           phase = "down" \/ \A k \in Keys : bucket[k] = "stored" => bucket'[k] = "stored"
    PROVE  PublicationInv'
  <1>1. PublicationShapes' /\ PublicationChain' /\ PublicationDown' /\ PublicationCursor'
    BY
       DEF PublicationInv, PublicationShapes, PublicationChain, PublicationDown,
           PublicationCursor
  <1>2. CASE phase = "down"
    <2>1. task' = [k \in Keys |-> "none"] /\ counts' = Publication!NoCounts
      BY <1>2 DEF PublicationInv, PublicationDown
    <2> QED
      BY <1>1, <2>1 DEF PublicationInv, Counting, Publication!NoCounts
  <1>3. CASE \A k \in Keys : bucket[k] = "stored" => bucket'[k] = "stored"
    <2>1. Counting'
      BY <1>3 DEF PublicationInv, Counting
    <2> QED
      BY <1>1, <2>1 DEF PublicationInv
  <1> QED
    BY <1>2, <1>3

LEMMA PublicationStep ==
    ASSUME PublicationInv, Publication!PublicationAssumption, [Publication!Next]_Publication!vars
    PROVE  PublicationInv'
  <1>0. bucket \in [Keys -> {"absent", "foreign", "stored"}]
    BY DEF PublicationInv, PublicationShapes
  <1>1. CASE Publication!Open \/ Publication!Header \/ Publication!Take
    BY <1>1, PublicationOpens, PublicationHeader, PublicationTakes
  <1>2. CASE Publication!Finish
    <2>1. chain = <<>>
      <3>1. chain \in Seq(Keys) /\ (Len(chain) > 0 => chain[1] \in Keys /\ task[chain[1]] = "record")
        BY DEF PublicationInv, PublicationChain
      <3>2. Len(chain) = 0
        BY <1>2, <3>1 DEF Publication!Finish, Publication!Active
      <3> QED
        BY <3>1, <3>2
    <2> QED
      BY <1>2, <2>1, PublicationExits DEF Publication!Finish, Publication!Close
  <1>3. CASE Publication!Crash
    <2>1. chain' = <<>>
      BY <1>3
         DEF Publication!Crash, Publication!Killed, Publication!PowerLost,
             Publication!Forget
    <2> QED
      BY <1>3, <2>1, PublicationExits DEF Publication!Crash
  <1>4. CASE Publication!Write \/ Publication!Reject \/ Publication!FailWrite
    <2>1. chain # <<>> /\ chain' = Tail(chain) /\ UNCHANGED <<phase, cursor, prior, bucket>>
      BY <1>4
         DEF Publication!Write, Publication!WriteNext, Publication!Reject,
             Publication!RejectNext, Publication!FailWrite, Publication!FailNext,
             Publication!PoolWaits, Publication!Outside
    <2>2. Publication!Settle(Head(chain), Publication!Counted(Head(chain))) \/
          Publication!Settle(Head(chain), "failed")
      BY <1>4 DEF Publication!Write, Publication!Reject, Publication!FailWrite
    <2> QED
      BY <2>1, <2>2, PublicationRecords
  <1>5. ASSUME NEW k \in Keys, Publication!HeadObject(k) \/ Publication!PutObject(k) \/
               Publication!Cancel(k) \/ Publication!Lose(k)
        PROVE  PublicationInv'
    BY <1>5, PublicationHeads, PublicationPuts, PublicationGivesUp
  <1>6. ASSUME NEW k \in Keys, Publication!LatePut(k) \/ Publication!Remove(k)
        PROVE  PublicationInv'
    <2>1. UNCHANGED <<chain, phase, cursor, task, counts, prior>>
      BY <1>6
         DEF Publication!LatePut, Publication!Remove, Publication!checkpointVars,
             Publication!runVars
    <2>2. /\ bucket' \in [Keys -> {"absent", "foreign", "stored"}]
          /\ phase = "down" \/ \A j \in Keys : bucket[j] = "stored" => bucket'[j] = "stored"
      BY <1>0, <1>6 DEF Publication!LatePut, Publication!Remove
    <2> QED
      BY <2>1, <2>2, PublicationOutside
  <1>7. CASE Publication!Restore \/ Publication!Interrupt \/ Publication!CrashInRepair \/
             UNCHANGED Publication!vars \/ \E k \in Keys : Publication!Change(k)
    <2>1. UNCHANGED <<chain, phase, cursor, task, counts, prior, bucket>>
      BY <1>7
         DEF Publication!Restore, Publication!Interrupt, Publication!CrashInRepair,
             Publication!Change, Publication!KilledInRepair, Publication!vars,
             Publication!checkpointVars, Publication!runVars
    <2> QED
      BY <1>0, <2>1, PublicationOutside
  <1> QED
    BY <1>1, <1>2, <1>3, <1>4, <1>5, <1>6, <1>7 DEF Publication!Next, Publication!RunStep

LEMMA PublicationInit ==
    ASSUME Publication!PublicationAssumption, Publication!Init
    PROVE  PublicationInv
  <1>1. /\ phase = "down" /\ cursor = 1 /\ chain = <<>> /\ task = [k \in Keys |-> "none"]
        /\ counts = Publication!NoCounts /\ bucket \in [Keys -> {"absent", "foreign", "stored"}]
    BY DEF Publication!Init, Publication!CheckpointInit
  <1>2. PublicationShapes /\ PublicationChain /\ PublicationDown
    BY <1>1 DEF PublicationShapes, PublicationChain, PublicationDown, Publication!NoCounts
  <1>3. PublicationCursor
    BY <1>1 DEF PublicationCursor, Publication!PublicationAssumption
  <1>4. Counting
    BY <1>1 DEF Counting, Publication!NoCounts
  <1> QED
    BY <1>2, <1>3, <1>4 DEF PublicationInv
-----------------------------------------------------------------------------
(* The report.                                                               *)
LEMMA PlannedAreFinite ==
    ASSUME Publication!PublicationAssumption
    PROVE  IsFiniteSet(Keys)
  <1>1. Order \in [1 .. Len(Order) -> Keys] /\ Len(Order) \in Nat
    BY DEF Publication!PublicationAssumption
  <1>2. Order \in Surjection(1 .. Len(Order), Keys)
    BY <1>1 DEF Publication!PublicationAssumption, Surjection
  <1>3. IsFiniteSet(1 .. Len(Order))
    BY <1>1, FS_Interval
  <1> QED
    BY <1>2, <1>3, FS_Surjection

LEMMA SameTotals == \A S : Publication!Cardinality(S) = Cardinality(S)
  BY DEF Publication!Cardinality, Cardinality, Publication!IsFiniteSet, IsFiniteSet

\* No object is counted twice: the counts add up to the plan only when every
\* object is counted.
LEMMA CountsAddUp ==
    ASSUME PublicationInv, Publication!PublicationAssumption,
           Publication!Outcome(counts) \in {"complete", "accepted"}
    PROVE  counts.uploaded \cup counts.reused \cup counts.proofVerified = Keys
  <1> DEFINE U == counts.uploaded
             R == counts.reused
             P == counts.proofVerified
  <1>1. /\ U \subseteq Keys /\ R \subseteq Keys /\ P \subseteq Keys
        /\ U \cap R = {} /\ (U \cup R) \cap P = {}
    BY DEF PublicationInv, Counting
  <1>2. Cardinality(U) + Cardinality(R) + Cardinality(P) = Cardinality(Keys)
    BY SameTotals DEF Publication!Outcome
  <1> HIDE DEF U, R, P
  <1>3. IsFiniteSet(Keys) /\ IsFiniteSet(U) /\ IsFiniteSet(R) /\ IsFiniteSet(P)
    BY <1>1, PlannedAreFinite, FS_Subset
  <1>4. IsFiniteSet(U \cup R) /\ Cardinality(U \cup R) = Cardinality(U) + Cardinality(R)
    <2>1. Cardinality(U \cap R) = 0
      BY <1>1, FS_EmptySet
    <2>2. /\ IsFiniteSet(U \cup R)
          /\ Cardinality(U \cup R) = Cardinality(U) + Cardinality(R) - Cardinality(U \cap R)
      BY <1>3, FS_Union
    <2>3. Cardinality(U) \in Nat /\ Cardinality(R) \in Nat
      BY <1>3, FS_CardinalityType
    <2> QED
      BY <2>1, <2>2, <2>3
  <1>5. IsFiniteSet(U \cup R \cup P)
        /\ Cardinality(U \cup R \cup P) = Cardinality(U) + Cardinality(R) + Cardinality(P)
    <2>1. Cardinality((U \cup R) \cap P) = 0
      BY <1>1, FS_EmptySet
    <2>2. /\ IsFiniteSet((U \cup R) \cup P)
          /\ Cardinality((U \cup R) \cup P)
                = Cardinality(U \cup R) + Cardinality(P) - Cardinality((U \cup R) \cap P)
      BY <1>3, <1>4, FS_Union
    <2>3. Cardinality(U) \in Nat /\ Cardinality(R) \in Nat /\ Cardinality(P) \in Nat
      BY <1>3, FS_CardinalityType
    <2> QED
      BY <1>4, <2>1, <2>2, <2>3
  <1>6. U \cup R \cup P \in SUBSET Keys
    BY <1>1
  <1>7. Cardinality(U \cup R \cup P) = Cardinality(Keys) => U \cup R \cup P = Keys
    BY <1>3, <1>6, FS_Subset
  <1> QED
    BY <1>2, <1>5, <1>7 DEF U, R, P

LEMMA ReportsAreTrue ==
    ASSUME PublicationInv, Publication!PublicationAssumption, [Publication!Next]_Publication!vars
    PROVE  Publication!ReportsWhatIsStored /\ Publication!AcceptsSecondPass
  <1> SUFFICES ASSUME report' # report, report' \in {"complete", "accepted"}
               PROVE  /\ \A k \in Keys : bucket[k] = "stored"
                      /\ report' = "accepted" => Publication!Uploads \subseteq prior
    BY
       DEF Publication!ReportsWhatIsStored, Publication!AcceptsSecondPass,
           Publication!Uploads
  <1>1. Publication!Finish
    BY
       DEF Publication!Next, Publication!RunStep, Publication!Open, Publication!Header,
           Publication!Take, Publication!Write, Publication!Reject, Publication!HeadObject,
           Publication!PutObject, Publication!Cancel, Publication!Restore,
           Publication!Interrupt, Publication!FailWrite, Publication!Crash,
           Publication!CrashInRepair, Publication!Lose, Publication!LatePut,
           Publication!Remove, Publication!Change, Publication!Outside, Publication!vars
  <1>2. report' = Publication!Outcome(counts)
    BY <1>1 DEF Publication!Finish
  <1>3. counts.uploaded \cup counts.reused \cup counts.proofVerified = Keys
    BY <1>2, CountsAddUp
  <1>4. \A k \in Keys : bucket[k] = "stored"
    BY <1>3 DEF PublicationInv, Counting
  <1>5. ASSUME report' = "accepted" PROVE Publication!Uploads \subseteq prior
    <2>1. counts.uploaded = {} /\ counts.reused = {}
      BY <1>2, <1>5 DEF Publication!Outcome
    <2> QED
      BY <1>3, <2>1 DEF PublicationInv, Counting, Publication!Uploads
  <1> QED
    BY <1>4, <1>5
-----------------------------------------------------------------------------
(* The rows of a release.                                                    *)

LEMMA SameSizes == \A S : Holdings!Cardinality(S) = Cardinality(S)
  BY DEF Cardinality, IsFiniteSet, Holdings!Cardinality, Holdings!IsFiniteSet

LEMMA DropsAreFinite ==
    ASSUME Holdings!ArtworkAssumption
    PROVE  /\ Len(DropOrder) \in Nat /\ DOMAIN DropOrder = 1 .. Len(DropOrder)
           /\ IsFiniteSet(Holdings!Drops) /\ Holdings!Cardinality(Holdings!Drops) <= Len(DropOrder)
           /\ \A S \in SUBSET Holdings!Drops :
                 IsFiniteSet(S) /\ Holdings!Cardinality(S) \in Nat
                 /\ Holdings!Cardinality(S) <= Len(DropOrder)
  <1>1. DropOrder \in Seq(Holdings!Drops)
    BY DEF Holdings!ArtworkAssumption
  <1>2. Len(DropOrder) \in Nat /\ DOMAIN DropOrder = 1 .. Len(DropOrder)
    BY <1>1
  <1>3. DropOrder \in Surjection(1 .. Len(DropOrder), Holdings!Drops)
    <2>1. DropOrder \in [1 .. Len(DropOrder) -> Holdings!Drops]
      BY <1>1, <1>2
    <2>2. \A d \in Holdings!Drops : \E i \in 1 .. Len(DropOrder) : DropOrder[i] = d
      BY <1>2 DEF Holdings!Drops
    <2> QED
      BY <2>1, <2>2 DEF Surjection
  <1>4. IsFiniteSet(1 .. Len(DropOrder)) /\ Cardinality(1 .. Len(DropOrder)) = Len(DropOrder)
    <2>1. \A m \in Nat : IsFiniteSet(1 .. m) /\ Cardinality(1 .. m) = m
      BY FS_Interval
    <2> QED
      BY <1>2, <2>1
  <1>5. IsFiniteSet(Holdings!Drops) /\ Cardinality(Holdings!Drops) <= Len(DropOrder)
    BY <1>3, <1>4, FS_Surjection
  <1>6. ASSUME NEW S \in SUBSET Holdings!Drops
        PROVE  IsFiniteSet(S) /\ Cardinality(S) \in Nat /\ Cardinality(S) <= Len(DropOrder)
    <2>1. IsFiniteSet(S) /\ Cardinality(S) <= Cardinality(Holdings!Drops)
      BY <1>5, FS_Subset
    <2>2. Cardinality(S) \in Nat /\ Cardinality(Holdings!Drops) \in Nat
      BY <1>5, <2>1, FS_CardinalityType
    <2> QED
      BY <1>2, <1>5, <2>1, <2>2
  <1> QED
    BY <1>2, <1>5, <1>6, SameSizes

\* The rows of a release are its Drops, each once.
LEMMA RowsAreDrops ==
    ASSUME Holdings!ArtworkAssumption, NEW S \in SUBSET Holdings!Drops
    PROVE  /\ DOMAIN Holdings!RowsOf(S) = 1 .. Holdings!Cardinality(S)
           /\ Len(Holdings!RowsOf(S)) = Holdings!Cardinality(S)
           /\ \A i \in 1 .. Holdings!Cardinality(S) : Holdings!RowsOf(S)[i] \in S
           /\ \A d \in S : \E i \in 1 .. Holdings!Cardinality(S) : Holdings!RowsOf(S)[i] = d
  <1> DEFINE N == Len(DropOrder)
             n == Holdings!Cardinality(S)
             P == {p \in 1 .. N : DropOrder[p] \in S}
             rank == [p \in P |-> Holdings!Cardinality(Holdings!UpTo(p, S))]
  <1>1. /\ N \in Nat /\ DOMAIN DropOrder = 1 .. N /\ IsFiniteSet(S) /\ n \in Nat
    BY DropsAreFinite
  <1>2. P \in SUBSET (1 .. N) /\ IsFiniteSet(1 .. N)
    BY <1>1, FS_Interval
  <1>3. IsFiniteSet(P)
    BY <1>2, FS_Subset
  <1>4. Holdings!Cardinality(P) = n
    <2> DEFINE f == [p \in P |-> DropOrder[p]]
    <2>1. f \in Injection(P, S) /\ f \in Surjection(P, S)
      <3>1. f \in [P -> S]
        OBVIOUS
      <3>2. \A a, b \in P : f[a] = f[b] => a = b
        BY <1>1 DEF Holdings!ArtworkAssumption
      <3>3. \A d \in S : \E p \in P : f[p] = d
        BY <1>1 DEF Holdings!Drops
      <3> QED
        BY <3>1, <3>2, <3>3 DEF Injection, IsInjective, Surjection
    <2> HIDE DEF f, P
    <2> QED
      BY <1>3, <2>1, FS_Surjection, SameSizes
  <1>5. ASSUME NEW p \in P
        PROVE  /\ p \in Holdings!UpTo(p, S) /\ Holdings!UpTo(p, S) \in SUBSET P
               /\ IsFiniteSet(Holdings!UpTo(p, S))
               /\ rank[p] \in 1 .. n
    <2>1. p \in Holdings!UpTo(p, S) /\ Holdings!UpTo(p, S) \in SUBSET P
      BY <1>1 DEF Holdings!UpTo
    <2> HIDE DEF P
    <2>2. /\ IsFiniteSet(Holdings!UpTo(p, S)) /\ Holdings!Cardinality(Holdings!UpTo(p, S)) <= n
          /\ Holdings!Cardinality(Holdings!UpTo(p, S)) \in Nat
      BY <1>3, <1>4, <2>1, FS_Subset, FS_CardinalityType, SameSizes
    <2>3. Holdings!Cardinality(Holdings!UpTo(p, S)) # 0
      BY <2>1, <2>2, FS_EmptySet, SameSizes
    <2> QED
      BY <1>1, <2>1, <2>2, <2>3
  <1>6. ASSUME NEW p \in P, NEW q \in P, p < q PROVE rank[p] # rank[q]
    <2>1. Holdings!UpTo(p, S) \in SUBSET Holdings!UpTo(q, S) /\ q \notin Holdings!UpTo(p, S)
          /\ q \in Holdings!UpTo(q, S)
      BY <1>1, <1>6 DEF Holdings!UpTo
    <2>2. IsFiniteSet(Holdings!UpTo(q, S))
      BY <1>5
    <2>3. Holdings!Cardinality(Holdings!UpTo(p, S)) # Holdings!Cardinality(Holdings!UpTo(q, S))
      BY <2>1, <2>2, FS_Subset, SameSizes
    <2> QED
      BY <2>3
  <1>7. rank \in Surjection(P, 1 .. n)
    <2>1. rank \in [P -> 1 .. n]
      <3> HIDE DEF P
      <3> QED
        BY <1>5
    <2>2. \A p, q \in P : rank[p] = rank[q] => p = q
      <3> SUFFICES ASSUME NEW p \in P, NEW q \in P, rank[p] = rank[q] PROVE p = q
        OBVIOUS
      <3>1. ~(p < q) /\ ~(q < p)
        <4> HIDE DEF P, rank
        <4> QED
          BY <1>6
      <3> QED
        BY <3>1, <1>1
    <2>3. rank \in Injection(P, 1 .. n)
      <3> HIDE DEF P, rank, n
      <3> QED
        BY <2>1, <2>2 DEF Injection, IsInjective
    <2>4. IsFiniteSet(1 .. n) /\ Holdings!Cardinality(1 .. n) = n
      <3>1. \A m \in Nat : IsFiniteSet(1 .. m) /\ Cardinality(1 .. m) = m
        BY FS_Interval
      <3> HIDE DEF n
      <3> QED
        BY <1>1, <3>1, SameSizes
    <2> HIDE DEF P, rank, n
    <2> QED
      BY <1>4, <2>3, <2>4, FS_Injection, SameSizes
  <1>8. ASSUME NEW i \in 1 .. n
        PROVE  /\ Holdings!RowsOf(S)[i] \in S
               /\ \A d \in S, p \in P :
                     DropOrder[p] = d /\ rank[p] = i => Holdings!RowsOf(S)[i] = d
    <2> DEFINE OK(p) == DropOrder[p] \in S /\ Holdings!Cardinality(Holdings!UpTo(p, S)) = i
               c == CHOOSE p \in DOMAIN DropOrder : OK(p)
    <2>1. Holdings!RowsOf(S)[i] = DropOrder[c]
      BY DEF Holdings!RowsOf
    <2>2. PICK p \in P : rank[p] = i
      <3> HIDE DEF P, rank
      <3> QED
        BY <1>7 DEF Surjection
    <2>3. p \in DOMAIN DropOrder /\ OK(p)
      BY <1>1, <2>2
    <2>4. c \in DOMAIN DropOrder /\ OK(c)
      <3> HIDE DEF OK
      <3> QED
        BY <2>3
    <2>5. c \in P /\ rank[c] = i
      BY <1>1, <2>4
    <2>6. \A q \in P : rank[q] = i => q = c
      <3> SUFFICES ASSUME NEW q \in P, rank[q] = i PROVE q = c
        OBVIOUS
      <3>1. ~(q < c) /\ ~(c < q)
        <4> HIDE DEF P, rank, c
        <4> QED
          BY <1>6, <2>5
      <3>2. q \in Nat /\ c \in Nat
        BY <1>1, <2>5
      <3> HIDE DEF c, P
      <3> QED
        BY <3>1, <3>2
    <2> HIDE DEF c, P
    <2> QED
      BY <2>1, <2>4, <2>6
  <1>9. ASSUME NEW d \in S PROVE \E i \in 1 .. n : Holdings!RowsOf(S)[i] = d
    <2>1. PICK p \in P : DropOrder[p] = d
      BY <1>1 DEF Holdings!Drops
    <2> HIDE DEF P, n
    <2>2. rank[p] \in 1 .. n
      BY <1>5
    <2> QED
      BY <1>8, <2>1, <2>2
  <1>10. DOMAIN Holdings!RowsOf(S) = 1 .. n /\ Len(Holdings!RowsOf(S)) = n
    <2>1. Holdings!RowsOf(S) = [i \in 1 .. n |-> Holdings!RowsOf(S)[i]]
      BY DEF Holdings!RowsOf
    <2> HIDE DEF n
    <2>2. DOMAIN Holdings!RowsOf(S) = 1 .. n
      BY <2>1, Zenon
    <2>3. Holdings!RowsOf(S) \in Seq(S)
      BY <1>1, <1>8, <2>1, SeqDef
    <2> QED
      BY <1>1, <2>2, <2>3, LenProperties
  <1> QED
    BY <1>8, <1>9, <1>10
-----------------------------------------------------------------------------
(* The artwork of the holdings: the inductive invariant.                     *)

\* A run of the capture has workers, whose uploads are theirs; what is recorded as
\* stored, or about to be, is in the bucket.
HoldingsWorkers ==
    /\ phase # "capture" => step = Holdings!NoStep /\ ~jammed
    /\ \A d \in Holdings!Drops :
          /\ d \in todo => step[d] = "none"
          /\ step[d] = "download" => Len(tried[d]) < Candidates[d]
          /\ step[d] = "record" => Bytes[d] \in bucket
          /\ Holdings!IsStored(d) => Bytes[d] \in bucket
          /\ d \in uploads /\ faults = 0 => step[d] \in {"complete", "finish"}

\* A review that is current is of what the checkpoint says now.
HoldingsReviewed ==
    review.current =>
        review.rows = Holdings!FailedDrops
        /\ \A d \in Holdings!FailedDrops : Holdings!Exhausted(d)

HoldingsReleased ==
    /\ phase = "release" => Holdings!MayFinalize
    /\ phase \in {"shards", "load"} \/ d1Report.made => release.made
    /\ release.made => \A d \in release.drops : Bytes[d] \in bucket
    /\ phase = "shards" =>
          \A d \in Holdings!Drops \ release.drops : Holdings!IsFailed(d) /\ Holdings!Exhausted(d)

\* The first n shards hold the first n rows of these Drops.
Sharded(drops, n) ==
    n <= Holdings!Cardinality(drops) /\ n <= Len(shards)
    /\ \A i \in 1 .. n : shards[i] = Holdings!RowsOf(drops)[i]

HoldingsSharded ==
    /\ phase = "shards" => Sharded(release.drops, cursor - 1)
    /\ d1Report.made => Sharded(d1Report.drops, Holdings!Cardinality(d1Report.drops))

HoldingsLoaded ==
    /\ phase = "load" =>
          /\ d1Report.made
          /\ Holdings!Cardinality(release.drops) = Holdings!Cardinality(d1Report.drops)
          /\ cursor <= Holdings!Cardinality(d1Report.drops) + 1
          /\ \A i \in 1 .. Holdings!Cardinality(d1Report.drops) :
                i < cursor => table[shards[i]] # "none"
    /\ remote.made => /\ phase \in {"idle", "header", "capture"}
                      /\ remote = d1Report /\ Holdings!TableIs(remote.drops)

CheckpointRecords ==
    [Holdings!Drops -> [status : {"none", "stored", "failed"}, attempts : Holdings!Attempts]]
CaptureReports ==
    [made : BOOLEAN, stored : SUBSET Holdings!Drops, failed : SUBSET Holdings!Drops,
      current : BOOLEAN]
Reviews == [made : BOOLEAN, rows : SUBSET Holdings!Drops, current : BOOLEAN]
DropFiles == [made : BOOLEAN, drops : SUBSET Holdings!Drops]

\* TypeOK in full.
HoldingsShapes ==
    /\ DOMAIN source = Holdings!Drops
    /\ \A d \in Holdings!Drops : source[d] \in [1 .. Candidates[d] -> {"good", "gone", "busy"}]
    /\ bucket \subseteq Holdings!Originals /\ uploads \subseteq Holdings!Drops
    /\ records \in CheckpointRecords
    /\ tail \in {"empty", "whole", "open", "broken"}
    /\ phase \in {"idle", "header", "capture", "release", "shards", "load"}
    /\ todo \subseteq Holdings!Drops /\ step \in [Holdings!Drops -> Holdings!Steps]
       /\ tried \in [Holdings!Drops -> Holdings!Attempts]
    /\ jammed \in BOOLEAN /\ report \in CaptureReports /\ review \in Reviews
    /\ {release, d1Report, remote} \subseteq DropFiles
    /\ shards \in Seq(Holdings!Drops) /\ cursor \in 1 .. Len(DropOrder) + 1
    /\ table \in [Holdings!Drops -> {"none", "row", "other"}]
    /\ faults \in 0 .. MaxFaults

HoldingsInv ==
    /\ HoldingsShapes /\ HoldingsWorkers /\ HoldingsReviewed /\ HoldingsReleased
    /\ HoldingsSharded /\ HoldingsLoaded

LEMMA HoldingsInit ==
    ASSUME Holdings!ArtworkAssumption, Holdings!Init
    PROVE  HoldingsInv
  <1>1. Holdings!Drops = {DropOrder[i] : i \in DOMAIN DropOrder}
    BY DEF Holdings!Drops
  <1>2. HoldingsShapes
    <2>1. <<>> \in Holdings!Attempts /\ <<>> \in Seq(Holdings!Drops)
      BY DEF Holdings!Attempts
    <2>2. records \in CheckpointRecords
      BY <2>1 DEF Holdings!Init, Holdings!NoRecord, CheckpointRecords
    <2>3. step \in [Holdings!Drops -> Holdings!Steps]
          /\ tried \in [Holdings!Drops -> Holdings!Attempts]
      BY <2>1 DEF Holdings!Init, Holdings!NoStep, Holdings!NoAttempts, Holdings!Steps
    <2>4. /\ DOMAIN source = Holdings!Drops
          /\ \A d \in Holdings!Drops :
               source[d] \in [1 .. Candidates[d] -> {"good", "gone", "busy"}]
      BY DEF Holdings!Init
    <2>5. table \in [Holdings!Drops -> {"none", "row", "other"}]
      BY DEF Holdings!Init
    <2>6. /\ report \in CaptureReports
          /\ review \in Reviews
          /\ {release, d1Report, remote} \subseteq DropFiles
      BY
         DEF Holdings!Init, Holdings!NoReport, Holdings!NoReview, Holdings!NoFile,
             CaptureReports, Reviews, DropFiles
    <2>7. cursor \in 1 .. Len(DropOrder) + 1 /\ faults \in 0 .. MaxFaults
      BY DropsAreFinite DEF Holdings!Init, Holdings!ArtworkAssumption
    <2> QED
      BY <2>1, <2>2, <2>3, <2>4, <2>5, <2>6, <2>7 DEF HoldingsShapes, Holdings!Init
  <1>3. HoldingsWorkers
    BY
       DEF HoldingsWorkers, Holdings!Init, Holdings!NoStep, Holdings!NoRecord,
           Holdings!Stored, Holdings!IsStored
  <1>4. HoldingsReviewed /\ HoldingsReleased
    BY
       DEF HoldingsReviewed, HoldingsReleased, Holdings!Init, Holdings!NoReview,
           Holdings!NoFile
  <1>5. HoldingsSharded /\ HoldingsLoaded
    BY DEF HoldingsSharded, HoldingsLoaded, Holdings!Init, Holdings!NoFile
  <1> QED
    BY <1>2, <1>3, <1>4, <1>5 DEF HoldingsInv

\* What a step leaves alone stays true.
LEMMA ReleaseUntouched ==
    ASSUME HoldingsInv, UNCHANGED <<release, shards, d1Report, table, remote>>,
           bucket \subseteq bucket',
           \/ phase' \in {"idle", "header", "capture"}
           \/ phase' = phase /\ UNCHANGED <<cursor, records, tail, report, review>>
    PROVE  HoldingsReleased' /\ HoldingsSharded' /\ HoldingsLoaded'
  <1>1. HoldingsReleased'
    <2>1. phase' = "release" => Holdings!MayFinalize'
      BY
         DEF HoldingsInv, HoldingsReleased, Holdings!MayFinalize, Holdings!Readable,
             Holdings!IsComplete, Holdings!LeftOut, Holdings!IsStored
    <2>2. phase' = "shards" => \A d \in Holdings!Drops \ release'.drops :
            (Holdings!IsFailed(d) /\ Holdings!Exhausted(d))'
      BY DEF HoldingsInv, HoldingsReleased, Holdings!IsFailed, Holdings!Exhausted
    <2> QED
      BY <2>1, <2>2 DEF HoldingsInv, HoldingsReleased
  <1>2. HoldingsSharded'
    BY DEF HoldingsInv, HoldingsSharded, Sharded
  <1>3. HoldingsLoaded'
    BY DEF HoldingsInv, HoldingsLoaded, Holdings!TableIs
  <1> QED
    BY <1>1, <1>2, <1>3

\* A command begins; nobody works for it yet.
LEMMA HoldingsBegins ==
    ASSUME Holdings!ArtworkAssumption, HoldingsInv,
           Holdings!StartCapture \/ Holdings!StartFinalize \/ Holdings!StartLoad
           \/ Holdings!ReviewUnavailable,
           faults' \in {faults, faults + 1} /\ faults' \in 0 .. MaxFaults
    PROVE  HoldingsInv'
  <1>1. phase = "idle" /\ UNCHANGED <<source, Holdings!r2Vars, records, tail, report, step, tried,
          jammed>>
        /\ UNCHANGED <<release, shards, d1Report, table, remote>>
    BY
       DEF Holdings!StartCapture, Holdings!StartFinalize, Holdings!StartLoad,
           Holdings!ReviewUnavailable, Holdings!ckptVars, Holdings!runVars,
           Holdings!releaseVars
  <1>2. step = Holdings!NoStep /\ ~jammed
    BY <1>1 DEF HoldingsInv, HoldingsWorkers
  <1>3. todo' \subseteq Holdings!Drops
        /\ phase' \in {"idle", "header", "capture", "release", "load"}
        /\ cursor' \in {cursor, 1}
    BY <1>1
       DEF Holdings!StartCapture, Holdings!StartFinalize, Holdings!StartLoad,
          Holdings!ReviewUnavailable, Holdings!ckptVars, Holdings!runVars,
          Holdings!releaseVars, HoldingsInv, HoldingsShapes, Holdings!Pending
  <1>4. review' \in Reviews
    <2>1. CASE Holdings!ReviewUnavailable
      <3>1. Holdings!FailedDrops \in SUBSET Holdings!Drops
        BY DEF Holdings!FailedDrops
      <3> QED
        BY <2>1, <3>1 DEF Holdings!ReviewUnavailable, Reviews
    <2>2. CASE review' = review
      BY <2>2 DEF HoldingsInv, HoldingsShapes
    <2> QED
      BY <2>1, <2>2
         DEF Holdings!StartCapture, Holdings!StartFinalize, Holdings!StartLoad,
             Holdings!ckptVars
  <1>5. HoldingsShapes'
    <2>1. cursor' \in 1 .. Len(DropOrder) + 1
      BY <1>3, DropsAreFinite DEF HoldingsInv, HoldingsShapes
    <2> QED
      BY <1>1, <1>3, <1>4, <2>1 DEF HoldingsInv, HoldingsShapes, Holdings!r2Vars
  <1>6. HoldingsWorkers'
    <2>1. \A d \in Holdings!Drops : step[d] = "none"
      BY <1>2 DEF Holdings!NoStep
    <2>2. faults' = 0 => faults = 0
      BY DEF HoldingsInv, HoldingsShapes
    <2> QED
      BY <1>1, <1>2, <2>1, <2>2
         DEF HoldingsInv, HoldingsWorkers, Holdings!r2Vars, Holdings!IsStored
  <1>7. HoldingsReviewed'
    <2>1. CASE Holdings!ReviewUnavailable
      <3>1. review'.rows = Holdings!FailedDrops
        BY <2>1 DEF Holdings!ReviewUnavailable
      <3>2. Holdings!FailedDrops' = Holdings!FailedDrops
            /\ \A d \in Holdings!FailedDrops : Holdings!Exhausted(d)'
        BY <1>1, <2>1
           DEF Holdings!ReviewUnavailable, Holdings!MayReview, Holdings!FailedDrops,
              Holdings!IsFailed, Holdings!Exhausted
      <3> QED
        BY <3>1, <3>2 DEF HoldingsReviewed
    <2>2. CASE review' = review
      BY <1>1, <2>2
         DEF HoldingsInv, HoldingsReviewed, Holdings!FailedDrops, Holdings!IsFailed,
             Holdings!Exhausted
    <2> QED
      BY <2>1, <2>2
         DEF Holdings!StartCapture, Holdings!StartFinalize, Holdings!StartLoad,
             Holdings!ckptVars
  <1>8. CASE Holdings!StartCapture \/ Holdings!ReviewUnavailable
    <2>1. phase' \in {"idle", "header", "capture"} /\ bucket \subseteq bucket'
      BY <1>1, <1>8
         DEF Holdings!StartCapture, Holdings!ReviewUnavailable, Holdings!runVars,
             Holdings!r2Vars
    <2> QED
      BY <1>1, <1>5, <1>6, <1>7, <2>1, ReleaseUntouched DEF HoldingsInv
  <1>9. CASE Holdings!StartFinalize
    <2>1. Holdings!MayFinalize /\ ~remote.made /\ phase' = "release"
          /\ UNCHANGED <<Holdings!ckptVars, Holdings!releaseVars, bucket>>
      BY <1>9 DEF Holdings!StartFinalize, Holdings!r2Vars
    <2>2. Holdings!MayFinalize'
      BY <2>1
         DEF Holdings!MayFinalize, Holdings!Readable, Holdings!IsComplete,
            Holdings!LeftOut, Holdings!IsStored, Holdings!ckptVars
    <2>3. HoldingsReleased'
      BY <2>1, <2>2 DEF HoldingsInv, HoldingsReleased, Holdings!releaseVars
    <2>4. HoldingsSharded' /\ HoldingsLoaded'
      BY <2>1
         DEF HoldingsInv, HoldingsSharded, HoldingsLoaded, Sharded, Holdings!TableIs,
            Holdings!releaseVars
    <2> QED
      BY <1>5, <1>6, <1>7, <2>3, <2>4 DEF HoldingsInv
  <1>10. CASE Holdings!StartLoad
    <2>1. /\ d1Report.made /\ ~remote.made /\ phase' = "load" /\ cursor' = 1
          /\ Holdings!Cardinality(release.drops) = Holdings!Cardinality(d1Report.drops)
          /\ UNCHANGED <<release, shards, d1Report, table, remote, Holdings!ckptVars, bucket>>
      BY <1>10 DEF Holdings!StartLoad, Holdings!r2Vars
    <2>2. HoldingsReleased'
      BY <2>1 DEF HoldingsInv, HoldingsReleased
    <2>3. HoldingsSharded'
      BY <2>1 DEF HoldingsInv, HoldingsSharded, Sharded
    <2>4. HoldingsLoaded'
      <3>1. Holdings!Cardinality(d1Report.drops) \in Nat
        BY DropsAreFinite DEF HoldingsInv, HoldingsShapes, DropFiles
      <3> QED
        BY <2>1, <3>1 DEF HoldingsLoaded
    <2> QED
      BY <1>5, <1>6, <1>7, <2>2, <2>3, <2>4 DEF HoldingsInv
  <1> QED
    BY <1>8, <1>9, <1>10

\* The worker of a Drop goes on, with or without what it asked R2 for.
LEMMA WorkerGoesOn ==
    ASSUME Holdings!ArtworkAssumption, HoldingsInv, NEW d \in Holdings!Drops,
           NEW s \in Holdings!Steps, NEW t \in Holdings!Attempts,
           step' = [step EXCEPT ![d] = s], tried' = [tried EXCEPT ![d] = t],
           phase = "capture", phase' = phase, jammed' = jammed,
           todo' \in {todo, todo \ {d}}, d \notin todo',
           UNCHANGED <<source, records, tail, report, review>>,
           UNCHANGED <<release, shards, d1Report, cursor, table, remote>>,
           bucket \subseteq bucket', bucket' \subseteq Holdings!Originals,
           \A e \in Holdings!Drops : e \in uploads' /\ e # d => e \in uploads,
           uploads' \subseteq Holdings!Drops,
           faults' \in {faults, faults + 1}, faults' \in 0 .. MaxFaults,
           d \in uploads' /\ faults' = 0 => s \in {"complete", "finish"},
           s = "download" => Len(t) < Candidates[d],
           s = "record" => Bytes[d] \in bucket'
    PROVE  HoldingsInv'
  <1>1. HoldingsShapes'
    <2>1. step' \in [Holdings!Drops -> Holdings!Steps]
          /\ tried' \in [Holdings!Drops -> Holdings!Attempts] /\ todo' \subseteq Holdings!Drops
      BY DEF HoldingsInv, HoldingsShapes
    <2> QED
      BY <2>1 DEF HoldingsInv, HoldingsShapes
  <1>2. HoldingsWorkers'
    <2>1. faults' = 0 => faults = 0
      BY DEF HoldingsInv, HoldingsShapes
    <2>2. ASSUME NEW e \in Holdings!Drops
          PROVE  /\ e \in todo' => step'[e] = "none"
                 /\ step'[e] = "download" => Len(tried'[e]) < Candidates[e]
                 /\ step'[e] = "record" => Bytes[e] \in bucket'
                 /\ Holdings!IsStored(e)' => Bytes[e] \in bucket'
                 /\ e \in uploads' /\ faults' = 0 => step'[e] \in {"complete", "finish"}
      <3>1. CASE e = d
        <4>1. step'[e] = s /\ tried'[e] = t
          BY <3>1 DEF HoldingsInv, HoldingsShapes
        <4> QED
          BY <3>1, <4>1 DEF HoldingsInv, HoldingsWorkers, Holdings!IsStored
      <3>2. CASE e # d
        <4>1. step'[e] = step[e] /\ tried'[e] = tried[e]
          BY <3>2 DEF HoldingsInv, HoldingsShapes
        <4> QED
          BY <2>1, <3>2, <4>1 DEF HoldingsInv, HoldingsWorkers, Holdings!IsStored
      <3> QED
        BY <3>1, <3>2
    <2> QED
      BY <2>2 DEF HoldingsWorkers
  <1>3. HoldingsReviewed'
    BY
       DEF HoldingsInv, HoldingsReviewed, Holdings!FailedDrops, Holdings!IsFailed,
           Holdings!Exhausted
  <1> QED
    BY <1>1, <1>2, <1>3, ReleaseUntouched DEF HoldingsInv

\* Where the worker of a Drop is.
LEMMA WorkersPlace ==
    ASSUME HoldingsInv, NEW d \in Holdings!Drops, step[d] # "none"
    PROVE  /\ phase = "capture" /\ d \notin todo /\ tried[d] \in Holdings!Attempts
           /\ tried = [tried EXCEPT ![d] = tried[d]]
           /\ d \in uploads /\ faults = 0 => step[d] \in {"complete", "finish"}
           /\ faults \in 0 .. MaxFaults /\ uploads \subseteq Holdings!Drops
              /\ bucket \subseteq Holdings!Originals
           /\ Bytes[d] \in Holdings!Originals
  <1>1. phase = "capture"
    BY DEF HoldingsInv, HoldingsWorkers, Holdings!NoStep
  <1> QED
    BY <1>1 DEF HoldingsInv, HoldingsWorkers, HoldingsShapes, Holdings!Originals

LEMMA HoldingsTakes ==
    ASSUME Holdings!ArtworkAssumption, HoldingsInv, NEW d \in Holdings!Drops, Holdings!Take(d)
    PROVE  HoldingsInv'
  <1>1. /\ phase = "capture" /\ step[d] = "none" /\ d \in todo
        /\ step' = [step EXCEPT ![d] = "download"] /\ tried' = [tried EXCEPT ![d] = <<>>]
        /\ todo' = todo \ {d} /\ phase' = phase /\ jammed' = jammed /\ faults' = faults
        /\ UNCHANGED <<source, records, tail, report, review, bucket, uploads>>
        /\ UNCHANGED <<release, shards, d1Report, cursor, table, remote>>
    BY
       DEF Holdings!Take, Holdings!Go, HoldingsInv, HoldingsWorkers, Holdings!r2Vars,
           Holdings!ckptVars, Holdings!releaseVars
  <1>2. <<>> \in Holdings!Attempts /\ "download" \in Holdings!Steps /\ Len(<<>>) = 0
    BY DEF Holdings!Attempts, Holdings!Steps
  <1>3. Candidates[d] \in Nat \ {0}
    BY DEF Holdings!ArtworkAssumption
  <1>4. /\ d \in uploads => faults # 0
        /\ faults \in 0 .. MaxFaults /\ uploads \subseteq Holdings!Drops
           /\ bucket \subseteq Holdings!Originals
    BY <1>1 DEF HoldingsInv, HoldingsWorkers, HoldingsShapes
  <1>5. Len(<<>>) < Candidates[d]
    BY <1>2, <1>3
  <1>6. /\ faults' \in {faults, faults + 1} /\ faults' \in 0 .. MaxFaults
        /\ bucket \subseteq bucket' /\ bucket' \subseteq Holdings!Originals
           /\ uploads' \subseteq Holdings!Drops
        /\ \A e \in Holdings!Drops : e \in uploads' /\ e # d => e \in uploads
        /\ d \notin todo' /\ todo' \in {todo, todo \ {d}} /\ ~(d \in uploads' /\ faults' = 0)
    BY <1>1, <1>4
  <1> QED
    BY <1>1, <1>2, <1>5, <1>6, WorkerGoesOn

LEMMA HoldingsDownloads ==
    ASSUME Holdings!ArtworkAssumption, HoldingsInv, NEW d \in Holdings!Drops,
           Holdings!Download(d) \/ Holdings!LoseDownload(d)
    PROVE  HoldingsInv'
  <1>1. /\ step[d] = "download" /\ phase' = phase /\ todo' = todo /\ jammed' = jammed
        /\ UNCHANGED <<source, records, tail, report, review, bucket, uploads>>
        /\ UNCHANGED <<release, shards, d1Report, cursor, table, remote>>
        /\ faults' \in {faults, faults + 1} /\ (faults' = faults \/ faults < MaxFaults)
    BY
       DEF Holdings!Download, Holdings!LoseDownload, Holdings!Same, Holdings!Fault,
           Holdings!r2Vars, Holdings!ckptVars, Holdings!releaseVars
  <1>2. /\ phase = "capture" /\ d \notin todo /\ tried[d] \in Holdings!Attempts
        /\ tried = [tried EXCEPT ![d] = tried[d]]
        /\ d \in uploads => faults # 0
        /\ faults \in 0 .. MaxFaults /\ uploads \subseteq Holdings!Drops
           /\ bucket \subseteq Holdings!Originals
    BY <1>1, WorkersPlace
  <1>3. faults' \in 0 .. MaxFaults /\ (d \in uploads => faults' # 0)
    BY <1>1, <1>2 DEF Holdings!ArtworkAssumption
  <1>4. {"head", "download", "abandon"} \subseteq Holdings!Steps
    BY DEF Holdings!Steps
  <1>5. Len(tried[d]) < Candidates[d]
    BY <1>1 DEF HoldingsInv, HoldingsWorkers
  <1> DEFINE candidate == Len(tried[d]) + 1
             answer == source[d][candidate]
  <1>6. CASE Holdings!Download(d) /\ answer = "good"
    <2>1. step' = [step EXCEPT ![d] = "head"] /\ tried' = [tried EXCEPT ![d] = tried[d]]
      BY <1>2, <1>6 DEF Holdings!Download, Holdings!Go
    <2> QED
      BY <1>1, <1>2, <1>3, <1>4, <2>1, WorkerGoesOn
  <1>7. CASE Holdings!Download(d) /\ answer # "good"
    <2>1. candidate \in 1 .. Candidates[d]
      BY <1>2, <1>5 DEF Holdings!ArtworkAssumption, Holdings!Attempts
    <2>2. answer \in {"gone", "busy"}
      <3> HIDE DEF candidate
      <3>1. source[d] \in [1 .. Candidates[d] -> {"good", "gone", "busy"}]
        BY DEF HoldingsInv, HoldingsShapes
      <3> QED
        BY <1>7, <2>1, <3>1
    <2>3. Append(tried[d], answer) \in Holdings!Attempts
          /\ Len(Append(tried[d], answer)) = candidate
      BY <1>2, <2>2 DEF Holdings!Attempts
    <2>4. tried' = [tried EXCEPT ![d] = Append(tried[d], answer)]
      BY <1>7 DEF Holdings!Download
    <2>5. CASE candidate < Candidates[d]
      <3>1. step' = [step EXCEPT ![d] = "download"]
        BY <1>1, <1>7, <2>5 DEF Holdings!Download, HoldingsInv, HoldingsShapes
      <3> HIDE DEF answer, candidate
      <3> QED
        BY <1>1, <1>2, <1>3, <1>4, <2>3, <2>4, <2>5, <3>1, WorkerGoesOn
    <2>6. CASE ~(candidate < Candidates[d])
      <3>1. step' = [step EXCEPT ![d] = "abandon"]
        BY <1>7, <2>6 DEF Holdings!Download, Holdings!Go
      <3> HIDE DEF answer, candidate
      <3> QED
        BY <1>1, <1>2, <1>3, <1>4, <2>3, <2>4, <3>1, WorkerGoesOn
    <2> QED
      BY <2>5, <2>6
  <1>8. CASE Holdings!LoseDownload(d)
    <2>1. Append(tried[d], "lost") \in Holdings!Attempts
      BY <1>2 DEF Holdings!Attempts
    <2>2. step' = [step EXCEPT ![d] = "abandon"]
          /\ tried' = [tried EXCEPT ![d] = Append(tried[d], "lost")]
      BY <1>8 DEF Holdings!LoseDownload, Holdings!Go
    <2> QED
      BY <1>1, <1>2, <1>3, <1>4, <2>1, <2>2, WorkerGoesOn
  <1> QED
    BY <1>6, <1>7, <1>8

\* A worker that asks R2, and gets its answer.
LEMMA HoldingsAsks ==
    ASSUME Holdings!ArtworkAssumption, HoldingsInv, NEW d \in Holdings!Drops,
           \/ Holdings!HeadBeforeUpload(d) \/ Holdings!Put(d)
           \/ Holdings!CreateMultipart(d) \/ Holdings!CompleteMultipart(d)
           \/ Holdings!FinishMultipart(d) \/ Holdings!VerifyUploaded(d) \/ Holdings!Drop(d)
    PROVE  HoldingsInv'
  <1>1. /\ step[d] # "none" /\ phase' = phase /\ todo' = todo /\ jammed' = jammed
        /\ UNCHANGED <<source, records, tail, report, review, tried, faults>>
        /\ UNCHANGED <<release, shards, d1Report, cursor, table, remote>>
    BY
       DEF Holdings!HeadBeforeUpload, Holdings!Put, Holdings!CreateMultipart,
           Holdings!CompleteMultipart, Holdings!FinishMultipart, Holdings!VerifyUploaded,
           Holdings!Drop, Holdings!Same, Holdings!ckptVars, Holdings!releaseVars
  <1>2. /\ phase = "capture" /\ d \notin todo /\ tried[d] \in Holdings!Attempts
        /\ tried = [tried EXCEPT ![d] = tried[d]]
        /\ d \in uploads /\ faults = 0 => step[d] \in {"complete", "finish"}
        /\ faults \in 0 .. MaxFaults /\ uploads \subseteq Holdings!Drops
           /\ bucket \subseteq Holdings!Originals
        /\ Bytes[d] \in Holdings!Originals
    BY <1>1, WorkersPlace
  <1>3. /\ bucket' \in {bucket, bucket \cup {Bytes[d]}}
        /\ uploads' \in {uploads, uploads \ {d}, uploads \cup {d}}
    BY
       DEF Holdings!HeadBeforeUpload, Holdings!Put, Holdings!CreateMultipart,
           Holdings!CompleteMultipart, Holdings!FinishMultipart, Holdings!VerifyUploaded,
           Holdings!Drop, Holdings!r2Vars
  <1>4. \E s \in {"verify", "create", "put", "complete", "finish", "record", "done"} :
           /\ step' = [step EXCEPT ![d] = s]
           /\ d \in uploads' /\ faults = 0 => s \in {"complete", "finish"}
           /\ s = "record" => Bytes[d] \in bucket'
    <2>1. CASE Holdings!HeadBeforeUpload(d) \/ Holdings!VerifyUploaded(d) \/ Holdings!Drop(d)
      BY <1>2, <2>1
         DEF Holdings!HeadBeforeUpload, Holdings!VerifyUploaded, Holdings!Drop,
             Holdings!Go, Holdings!r2Vars
    <2>2. CASE Holdings!Put(d) \/ Holdings!FinishMultipart(d)
      BY <1>2, <2>2 DEF Holdings!Put, Holdings!FinishMultipart, Holdings!Go
    <2>3. CASE Holdings!CreateMultipart(d) \/ Holdings!CompleteMultipart(d)
      BY <1>2, <2>3 DEF Holdings!CreateMultipart, Holdings!CompleteMultipart, Holdings!Go
    <2> QED
      BY <2>1, <2>2, <2>3
  <1>5. PICK s \in {"verify", "create", "put", "complete", "finish", "record", "done"} :
           /\ step' = [step EXCEPT ![d] = s]
           /\ d \in uploads' /\ faults = 0 => s \in {"complete", "finish"}
           /\ s = "record" => Bytes[d] \in bucket'
    BY <1>4
  <1>6. s \in Holdings!Steps /\ s # "download"
    BY DEF Holdings!Steps
  <1>7. bucket \subseteq bucket' /\ bucket' \subseteq Holdings!Originals
        /\ uploads' \subseteq Holdings!Drops
        /\ \A e \in Holdings!Drops : e \in uploads' /\ e # d => e \in uploads
    BY <1>2, <1>3
  <1> QED
    BY <1>1, <1>2, <1>5, <1>6, <1>7, WorkerGoesOn

LEMMA HoldingsLosesBridge ==
    ASSUME Holdings!ArtworkAssumption, HoldingsInv, NEW d \in Holdings!Drops, Holdings!LoseBridge(d)
    PROVE  HoldingsInv'
  <1>1. /\ step[d] # "none" /\ phase' = phase /\ todo' = todo /\ jammed' = jammed
        /\ UNCHANGED <<source, records, tail, report, review>>
        /\ UNCHANGED <<release, shards, d1Report, cursor, table, remote>>
        /\ faults' = faults + 1 /\ faults < MaxFaults
        /\ bucket' \in {bucket, bucket \cup {Bytes[d]}}
        /\ uploads' \in {uploads, uploads \ {d}, uploads \cup {d}}
    BY DEF Holdings!LoseBridge, Holdings!Fault, Holdings!ckptVars, Holdings!releaseVars
  <1>2. /\ phase = "capture" /\ d \notin todo /\ tried[d] \in Holdings!Attempts
        /\ tried = [tried EXCEPT ![d] = tried[d]]
        /\ faults \in 0 .. MaxFaults /\ uploads \subseteq Holdings!Drops
           /\ bucket \subseteq Holdings!Originals
        /\ Bytes[d] \in Holdings!Originals
    BY <1>1, WorkersPlace
  <1>3. bucket \subseteq bucket' /\ bucket' \subseteq Holdings!Originals
        /\ uploads' \subseteq Holdings!Drops
        /\ \A e \in Holdings!Drops : e \in uploads' /\ e # d => e \in uploads
    BY <1>1, <1>2
  <1>4. faults' # 0 /\ faults' \in 0 .. MaxFaults /\ <<>> \in Holdings!Attempts
        /\ {"abandon", "create"} \subseteq Holdings!Steps
    BY <1>1, <1>2 DEF Holdings!ArtworkAssumption, Holdings!Attempts, Holdings!Steps
  <1>5. \/ /\ step' = [step EXCEPT ![d] = "abandon"] /\ tried' = [tried EXCEPT ![d] = <<>>]
        \/ /\ step' = [step EXCEPT ![d] = "create"] /\ tried' = [tried EXCEPT ![d] = tried[d]]
    BY <1>2 DEF Holdings!LoseBridge, Holdings!Go
  <1>6. CASE /\ step' = [step EXCEPT ![d] = "abandon"] /\ tried' = [tried EXCEPT ![d] = <<>>]
    BY <1>1, <1>2, <1>3, <1>4, <1>6, WorkerGoesOn
  <1>7. CASE /\ step' = [step EXCEPT ![d] = "create"] /\ tried' = [tried EXCEPT ![d] = tried[d]]
    BY <1>1, <1>2, <1>3, <1>4, <1>7, WorkerGoesOn
  <1> QED
    BY <1>5, <1>6, <1>7

\* An append, whole or cut short, unbinds the reports from the checkpoint.
LEMMA CutUnbinds ==
    ASSUME Holdings!ArtworkAssumption, HoldingsInv, NEW d \in Holdings!Drops,
           step[d] \in {"record", "abandon"},
           Holdings!Cut(d)
    PROVE  /\ records' \in CheckpointRecords
           /\ tail' \in {"empty", "whole", "open", "broken"}
           /\ report' \in CaptureReports
           /\ review' \in Reviews
           /\ HoldingsReviewed'
           /\ \A e \in Holdings!Drops : Holdings!IsStored(e)' => Bytes[e] \in bucket
  <1>1. Holdings!Outcome(d) \in [status : {"none", "stored", "failed"},
          attempts : Holdings!Attempts]
    <2>1. tried[d] \in Holdings!Attempts /\ <<>> \in Holdings!Attempts
      BY DEF HoldingsInv, HoldingsShapes, Holdings!Attempts
    <2> QED
      BY <2>1 DEF Holdings!Outcome, Holdings!Stored, Holdings!Failed
  <1>2. Holdings!Outcome(d) = Holdings!Stored => Bytes[d] \in bucket
    BY DEF Holdings!Outcome, Holdings!Stored, Holdings!Failed, HoldingsInv, HoldingsWorkers
  <1>3. /\ records \in CheckpointRecords
        /\ tail \in {"empty", "whole", "open", "broken"}
        /\ report \in CaptureReports
        /\ review \in Reviews
    BY DEF HoldingsInv, HoldingsShapes
  <1>4. records' \in {records, [records EXCEPT ![d] = Holdings!Outcome(d)]}
    BY DEF Holdings!Cut, Holdings!Append1, Holdings!ckptVars
  <1>5. tail' \in {tail, "open", "broken"}
    BY DEF Holdings!Cut, Holdings!Append1, Holdings!ckptVars
  <1>6. \/ report' = report /\ review' = review /\ records' = records
        \/ report' = Holdings!Unbind(report) /\ review' = Holdings!Unbind(review)
    BY DEF Holdings!Cut, Holdings!Append1, Holdings!ckptVars
  <1>7. /\ records' \in CheckpointRecords
        /\ \A e \in Holdings!Drops : Holdings!IsStored(e)' => Bytes[e] \in bucket
    BY <1>1, <1>2, <1>3, <1>4
       DEF Holdings!IsStored, HoldingsInv, HoldingsWorkers, CheckpointRecords
  <1>8. /\ report' \in CaptureReports
        /\ review' \in Reviews
    BY <1>3, <1>6 DEF Holdings!Unbind, CaptureReports, Reviews
  <1>9. HoldingsReviewed'
    BY <1>3, <1>6
       DEF HoldingsInv, HoldingsReviewed, Holdings!FailedDrops, Holdings!IsFailed,
          Holdings!Exhausted, Holdings!Unbind, Reviews
  <1> QED
    BY <1>3, <1>5, <1>7, <1>8, <1>9

LEMMA HoldingsRecords ==
    ASSUME Holdings!ArtworkAssumption, HoldingsInv, NEW d \in Holdings!Drops,
           Holdings!Record(d) \/ Holdings!FailAppend(d)
    PROVE  HoldingsInv'
  <1>1. /\ step[d] \in {"record", "abandon"} /\ Holdings!Cut(d)
           /\ step' = [step EXCEPT ![d] = "done"]
        /\ jammed' \in BOOLEAN /\ UNCHANGED <<source, bucket, uploads, phase, todo, tried>>
        /\ UNCHANGED <<release, shards, d1Report, cursor, table, remote>>
        /\ faults' \in {faults, faults + 1} /\ (faults' = faults \/ faults < MaxFaults)
    BY
       DEF Holdings!Record, Holdings!FailAppend, Holdings!Fault, Holdings!Cut, Holdings!Go,
           Holdings!Same, Holdings!r2Vars, Holdings!releaseVars, HoldingsInv,
           HoldingsShapes
  <1>2. /\ phase = "capture" /\ d \notin todo /\ (d \in uploads => faults # 0)
        /\ faults \in 0 .. MaxFaults
    BY <1>1, WorkersPlace
  <1>3. faults' \in 0 .. MaxFaults /\ (faults' = 0 => faults = 0)
    BY <1>1, <1>2 DEF Holdings!ArtworkAssumption
  <1>4. HoldingsShapes'
    <2>1. step' \in [Holdings!Drops -> Holdings!Steps]
      BY <1>1 DEF HoldingsInv, HoldingsShapes, Holdings!Steps
    <2> QED
      BY <1>1, <1>3, <2>1, CutUnbinds DEF HoldingsInv, HoldingsShapes
  <1>5. HoldingsWorkers'
    <2>1. \A e \in Holdings!Drops : Holdings!IsStored(e)' => Bytes[e] \in bucket'
      BY <1>1, CutUnbinds
    <2>2. \A e \in Holdings!Drops : step'[e] = IF e = d THEN "done" ELSE step[e]
      BY <1>1 DEF HoldingsInv, HoldingsShapes
    <2> QED
      BY <1>1, <1>2, <1>3, <2>1, <2>2 DEF HoldingsInv, HoldingsWorkers
  <1>6. HoldingsReviewed'
    BY <1>1, CutUnbinds
  <1> QED
    BY <1>1, <1>2, <1>4, <1>5, <1>6, ReleaseUntouched DEF HoldingsInv

LEMMA HoldingsHeads ==
    ASSUME Holdings!ArtworkAssumption, HoldingsInv, Holdings!Header
    PROVE  HoldingsInv'
  <1>1. /\ phase = "header" /\ phase' = "capture" /\ tail' = "whole"
        /\ UNCHANGED <<source, bucket, uploads, records, report, review, todo, step, tried,
                       jammed, faults>>
        /\ UNCHANGED <<release, shards, d1Report, cursor, table, remote>>
    BY DEF Holdings!Header, Holdings!r2Vars, Holdings!releaseVars
  <1>2. HoldingsShapes'
    BY <1>1 DEF HoldingsInv, HoldingsShapes
  <1>3. HoldingsWorkers'
    BY <1>1 DEF HoldingsInv, HoldingsWorkers, Holdings!IsStored
  <1>4. HoldingsReviewed'
    BY <1>1
       DEF HoldingsInv, HoldingsReviewed, Holdings!FailedDrops, Holdings!IsFailed,
           Holdings!Exhausted
  <1> QED
    BY <1>1, <1>2, <1>3, <1>4, ReleaseUntouched DEF HoldingsInv

\* The files of a run whose process has ended, whatever they hold.
LEMMA HoldingsLeave ==
    ASSUME Holdings!ArtworkAssumption, HoldingsInv, Holdings!Leave,
           records' \in CheckpointRecords,
           tail' \in {"empty", "whole", "open", "broken"},
           report' \in CaptureReports,
           review' \in Reviews,
           HoldingsReviewed',
           \A e \in Holdings!Drops : Holdings!IsStored(e)' => Bytes[e] \in bucket,
           UNCHANGED <<source, bucket, uploads, release, shards, d1Report, table, remote>>,
           cursor' \in {cursor, 1}, faults' \in 0 .. MaxFaults,
           faults' = 0 => uploads = {}
    PROVE  HoldingsInv'
  <1>1. phase' = "idle" /\ todo' = {} /\ step' = Holdings!NoStep /\ tried' = Holdings!NoAttempts
        /\ jammed' = FALSE
    BY DEF Holdings!Leave
  <1>2. HoldingsShapes'
    <2>1. step' \in [Holdings!Drops -> Holdings!Steps]
          /\ tried' \in [Holdings!Drops -> Holdings!Attempts]
      <3>1. <<>> \in Holdings!Attempts
        BY DEF Holdings!Attempts
      <3> QED
        BY <1>1, <3>1 DEF Holdings!NoStep, Holdings!NoAttempts, Holdings!Steps
    <2>2. cursor' \in 1 .. Len(DropOrder) + 1
      BY DropsAreFinite DEF HoldingsInv, HoldingsShapes
    <2> QED
      BY <1>1, <2>1, <2>2 DEF HoldingsInv, HoldingsShapes
  <1>3. HoldingsWorkers'
    BY <1>1 DEF HoldingsWorkers, Holdings!NoStep
  <1> QED
    BY <1>1, <1>2, <1>3, ReleaseUntouched DEF HoldingsInv

LEMMA HoldingsEnds ==
    ASSUME Holdings!ArtworkAssumption, HoldingsInv, Holdings!EndCapture
    PROVE  HoldingsInv'
  <1>1. /\ Holdings!Leave /\ Holdings!Active = {} /\ phase = "capture"
        /\ UNCHANGED <<source, records, tail, faults, bucket, uploads>>
        /\ UNCHANGED <<release, shards, d1Report, table, remote, cursor>>
    BY DEF Holdings!EndCapture, Holdings!r2Vars, Holdings!releaseVars
  <1>2. \/ UNCHANGED <<report, review>>
        \/ /\ report' = [made |-> TRUE, stored |-> Holdings!StoredDrops,
                         failed |-> Holdings!FailedDrops, current |-> TRUE]
           /\ review' = Holdings!Unbind(review)
    BY DEF Holdings!EndCapture
  <1>3. Holdings!StoredDrops \in SUBSET Holdings!Drops
        /\ Holdings!FailedDrops \in SUBSET Holdings!Drops
    BY DEF Holdings!StoredDrops, Holdings!FailedDrops
  <1>4. review \in Reviews
    BY DEF HoldingsInv, HoldingsShapes
  <1>5. report' \in CaptureReports
    <2>1. CASE report' = report
      BY <2>1 DEF HoldingsInv, HoldingsShapes
    <2>2. CASE report' = [made |-> TRUE, stored |-> Holdings!StoredDrops,
                          failed |-> Holdings!FailedDrops, current |-> TRUE]
      BY <1>3, <2>2 DEF CaptureReports
    <2> QED
      BY <1>2, <2>1, <2>2
  <1>6. review' \in Reviews
    BY <1>2, <1>4 DEF Holdings!Unbind, Reviews
  <1>7. HoldingsReviewed'
    BY <1>1, <1>2, <1>4
       DEF HoldingsInv, HoldingsReviewed, Holdings!FailedDrops, Holdings!IsFailed,
          Holdings!Exhausted, Holdings!Unbind, Reviews
  <1>8. faults = 0 => uploads = {}
    BY <1>1 DEF Holdings!Active, HoldingsInv, HoldingsWorkers, HoldingsShapes
  <1>9. /\ \A e \in Holdings!Drops : Holdings!IsStored(e)' => Bytes[e] \in bucket
        /\ records' \in CheckpointRecords
        /\ tail' \in {"empty", "whole", "open", "broken"} /\ faults' \in 0 .. MaxFaults
    BY <1>1 DEF HoldingsInv, HoldingsWorkers, HoldingsShapes, Holdings!IsStored
  <1> QED
    BY <1>1, <1>5, <1>6, <1>7, <1>8, <1>9, HoldingsLeave

LEMMA HoldingsCrash ==
    ASSUME Holdings!ArtworkAssumption, HoldingsInv, Holdings!Crash
    PROVE  HoldingsInv'
  <1>1. /\ Holdings!Leave /\ cursor' = 1 /\ UNCHANGED <<source, bucket, uploads>>
        /\ UNCHANGED <<release, shards, d1Report, table, remote>>
        /\ faults' = faults + 1 /\ faults < MaxFaults
    BY DEF Holdings!Crash, Holdings!Fault, Holdings!r2Vars
  <1>2. faults' \in 0 .. MaxFaults /\ faults' # 0
    BY <1>1 DEF HoldingsInv, HoldingsShapes, Holdings!ArtworkAssumption
  <1>3. CASE \E d \in Holdings!Active :
                step[d] \in {"record", "abandon"} /\ ~jammed /\ Holdings!Cut(d)
    <2>1. PICK d \in Holdings!Drops : step[d] \in {"record", "abandon"} /\ Holdings!Cut(d)
      BY <1>3 DEF Holdings!Active
    <2> QED
      BY <1>1, <1>2, <2>1, CutUnbinds, HoldingsLeave
  <1>4. CASE UNCHANGED <<records, report, review>> /\ tail' \in {tail, "open", "broken"}
    <2>1. /\ \A e \in Holdings!Drops : Holdings!IsStored(e)' => Bytes[e] \in bucket
          /\ records' \in CheckpointRecords
          /\ tail' \in {"empty", "whole", "open", "broken"}
          /\ report' \in CaptureReports
          /\ review' \in Reviews
      BY <1>4 DEF HoldingsInv, HoldingsWorkers, HoldingsShapes, Holdings!IsStored
    <2>2. HoldingsReviewed'
      BY <1>4
         DEF HoldingsInv, HoldingsReviewed, Holdings!FailedDrops, Holdings!IsFailed,
             Holdings!Exhausted
    <2> QED
      BY <1>1, <1>2, <2>1, <2>2, HoldingsLeave
  <1> QED
    BY <1>3, <1>4 DEF Holdings!Crash, Holdings!ckptVars

LEMMA HoldingsSourceChanges ==
    ASSUME Holdings!ArtworkAssumption, HoldingsInv, NEW d \in Holdings!Drops,
           Holdings!SourceChanges(d)
    PROVE  HoldingsInv'
  <1>1. /\ UNCHANGED <<bucket, uploads, records, tail, report, review>>
        /\ UNCHANGED <<phase, todo, step, tried, jammed>>
        /\ UNCHANGED <<release, shards, d1Report, cursor, table, remote>>
        /\ faults' = faults + 1 /\ faults < MaxFaults
    BY
       DEF Holdings!SourceChanges, Holdings!Fault, Holdings!r2Vars, Holdings!ckptVars,
           Holdings!runVars, Holdings!releaseVars
  <1>2. PICK i \in 1 .. Candidates[d], answer \in {"good", "gone", "busy"} :
           source' = [source EXCEPT ![d][i] = answer]
    BY DEF Holdings!SourceChanges
  <1>3. faults' \in 0 .. MaxFaults /\ faults' # 0
    BY <1>1 DEF HoldingsInv, HoldingsShapes, Holdings!ArtworkAssumption
  <1>4. /\ DOMAIN source' = Holdings!Drops
        /\ \A e \in Holdings!Drops : source'[e] \in [1 .. Candidates[e] -> {"good", "gone", "busy"}]
    BY <1>2 DEF HoldingsInv, HoldingsShapes
  <1>5. HoldingsShapes'
    BY <1>1, <1>3, <1>4 DEF HoldingsInv, HoldingsShapes
  <1>6. HoldingsWorkers'
    BY <1>1, <1>3 DEF HoldingsInv, HoldingsWorkers, Holdings!IsStored
  <1>7. HoldingsReviewed'
    BY <1>1
       DEF HoldingsInv, HoldingsReviewed, Holdings!FailedDrops, Holdings!IsFailed,
           Holdings!Exhausted
  <1> QED
    BY <1>1, <1>5, <1>6, <1>7, ReleaseUntouched DEF HoldingsInv
-----------------------------------------------------------------------------
(* Review, release and load.                                                 *)

\* Steps of a command that nobody works for leave the capture's files alone.
LEMMA CaptureUntouched ==
    ASSUME Holdings!ArtworkAssumption, HoldingsInv, phase \in {"release", "shards", "load"},
           phase' \in {"idle", "release", "shards", "load"},
           UNCHANGED <<source, bucket, uploads, records, tail, report, review>>,
           UNCHANGED <<todo, step, tried, jammed, faults>>,
           {release', d1Report', remote'} \subseteq DropFiles,
           shards' \in Seq(Holdings!Drops), cursor' \in 1 .. Len(DropOrder) + 1,
           table' \in [Holdings!Drops -> {"none", "row", "other"}]
    PROVE  HoldingsShapes' /\ HoldingsWorkers' /\ HoldingsReviewed'
  <1>1. HoldingsShapes'
    BY DEF HoldingsInv, HoldingsShapes
  <1>2. HoldingsWorkers'
    BY DEF HoldingsInv, HoldingsWorkers, Holdings!IsStored
  <1>3. HoldingsReviewed'
    BY
       DEF HoldingsInv, HoldingsReviewed, Holdings!FailedDrops, Holdings!IsFailed,
           Holdings!Exhausted
  <1> QED
    BY <1>1, <1>2, <1>3

\* The shapes of the release's files, and the number of its rows.
LEMMA ReleaseShapes ==
    ASSUME Holdings!ArtworkAssumption, HoldingsInv
    PROVE  /\ release \in DropFiles
           /\ d1Report \in DropFiles
           /\ remote \in DropFiles
           /\ shards \in Seq(Holdings!Drops) /\ cursor \in 1 .. Len(DropOrder) + 1
           /\ table \in [Holdings!Drops -> {"none", "row", "other"}]
           /\ Len(DropOrder) \in Nat /\ Len(shards) \in Nat
           /\ Holdings!Cardinality(release.drops) \in Nat
              /\ Holdings!Cardinality(d1Report.drops) \in Nat
           /\ Holdings!Cardinality(release.drops) <= Len(DropOrder)
           /\ Holdings!Cardinality(d1Report.drops) <= Len(DropOrder)
  <1>1. /\ release \in DropFiles
        /\ d1Report \in DropFiles
        /\ remote \in DropFiles
        /\ shards \in Seq(Holdings!Drops) /\ cursor \in 1 .. Len(DropOrder) + 1
        /\ table \in [Holdings!Drops -> {"none", "row", "other"}]
    BY DEF HoldingsInv, HoldingsShapes
  <1>2. release.drops \in SUBSET Holdings!Drops /\ d1Report.drops \in SUBSET Holdings!Drops
    BY <1>1 DEF DropFiles
  <1>3. Len(shards) \in Nat
    BY <1>1
  <1> QED
    BY <1>1, <1>2, <1>3, DropsAreFinite

LEMMA HoldingsWritesRelease ==
    ASSUME Holdings!ArtworkAssumption, HoldingsInv, Holdings!WriteRelease
    PROVE  HoldingsInv'
  <1>1. /\ phase = "release" /\ phase' = "shards" /\ cursor' = 1
        /\ release' = Holdings!Naming(Holdings!Drops \ Holdings!LeftOut)
        /\ UNCHANGED <<source, bucket, uploads, records, tail, report, review>>
        /\ UNCHANGED <<todo, step, tried, jammed, faults, shards, d1Report, table, remote>>
    BY DEF Holdings!WriteRelease, Holdings!r2Vars, Holdings!ckptVars
  <1>2. release'.made /\ release'.drops = Holdings!Drops \ Holdings!LeftOut
        /\ release' \in DropFiles
    BY <1>1 DEF Holdings!Naming, DropFiles
  <1>3. Holdings!MayFinalize /\ ~remote.made
    BY <1>1 DEF HoldingsInv, HoldingsReleased, HoldingsLoaded
  <1>4. HoldingsShapes' /\ HoldingsWorkers' /\ HoldingsReviewed'
    <2>1. 1 \in 1 .. Len(DropOrder) + 1
      BY ReleaseShapes
    <2> QED
      BY <1>1, <1>2, <2>1, ReleaseShapes, CaptureUntouched
  <1>5. \A d \in release'.drops : Bytes[d] \in bucket
    BY <1>2, <1>3 DEF Holdings!MayFinalize, HoldingsInv, HoldingsWorkers
  <1>6. \A d \in Holdings!Drops \ release'.drops : Holdings!IsFailed(d) /\ Holdings!Exhausted(d)
    <2> SUFFICES ASSUME NEW d \in Holdings!Drops, d \in Holdings!LeftOut
                 PROVE Holdings!IsFailed(d) /\ Holdings!Exhausted(d)
      BY <1>2
    <2>1. review.current /\ d \in review.rows
      BY <1>3 DEF Holdings!LeftOut, Holdings!MayFinalize
    <2> QED
      BY <2>1 DEF HoldingsInv, HoldingsReviewed, Holdings!FailedDrops
  <1>7. HoldingsReleased'
    <2>1. \A d \in Holdings!Drops \ release'.drops :
            (Holdings!IsFailed(d) /\ Holdings!Exhausted(d))'
      BY <1>1, <1>6 DEF Holdings!IsFailed, Holdings!Exhausted
    <2>2. phase' # "release"
      BY <1>1
    <2>3. \A d \in release'.drops : Bytes[d] \in bucket'
      BY <1>1, <1>5
    <2> QED
      BY <1>2, <2>1, <2>2, <2>3 DEF HoldingsReleased
  <1>8. HoldingsSharded'
    <2>1. Holdings!Cardinality(release'.drops) \in Nat
      BY <1>2, DropsAreFinite
    <2>2. Len(shards) \in Nat
      BY ReleaseShapes
    <2> QED
      BY <1>1, <2>1, <2>2 DEF HoldingsInv, HoldingsSharded, Sharded
  <1>9. HoldingsLoaded'
    BY <1>1, <1>3 DEF HoldingsLoaded
  <1> QED
    BY <1>4, <1>7, <1>8, <1>9 DEF HoldingsInv

LEMMA HoldingsWritesShard ==
    ASSUME Holdings!ArtworkAssumption, HoldingsInv, Holdings!WriteShard
    PROVE  HoldingsInv'
  <1> DEFINE rows == Holdings!RowsOf(release.drops)
             n == Holdings!Cardinality(release.drops)
  <1>1. /\ phase = "shards"
        /\ UNCHANGED <<source, bucket, uploads, records, tail, report, review>>
        /\ UNCHANGED <<todo, step, tried, jammed, faults, release, table, remote>>
    BY DEF Holdings!WriteShard, Holdings!r2Vars, Holdings!ckptVars
  <1>2. /\ ~remote.made /\ release.made
        /\ \A d \in release.drops : Bytes[d] \in bucket
        /\ \A d \in Holdings!Drops \ release.drops : Holdings!IsFailed(d) /\ Holdings!Exhausted(d)
    BY <1>1 DEF HoldingsInv, HoldingsReleased, HoldingsLoaded
  <1>3. /\ Len(rows) = n /\ \A i \in 1 .. n : rows[i] \in Holdings!Drops
        /\ n \in Nat /\ n <= Len(DropOrder)
    <2>1. release.drops \in SUBSET Holdings!Drops
      BY ReleaseShapes DEF DropFiles
    <2> QED
      BY <2>1, RowsAreDrops, ReleaseShapes
  <1>4. /\ cursor \in Nat \ {0} /\ cursor - 1 <= n /\ cursor - 1 <= Len(shards)
        /\ \A i \in 1 .. cursor - 1 : shards[i] = rows[i]
    BY <1>1, ReleaseShapes DEF HoldingsInv, HoldingsSharded, Sharded
  <1>5. d1Report.made =>
           /\ Holdings!Cardinality(d1Report.drops) <= Len(shards)
           /\ \A i \in 1 .. Holdings!Cardinality(d1Report.drops) :
                shards[i] = Holdings!RowsOf(d1Report.drops)[i]
    BY DEF HoldingsInv, HoldingsSharded, Sharded
  <1> HIDE DEF rows, n
  <1>6. CASE phase' = "idle" /\ cursor' = 1 /\ UNCHANGED <<shards, d1Report>>
    <2>1. HoldingsShapes' /\ HoldingsWorkers' /\ HoldingsReviewed'
      <3>1. 1 \in 1 .. Len(DropOrder) + 1
        BY ReleaseShapes
      <3> QED
        BY <1>1, <1>6, <3>1, ReleaseShapes, CaptureUntouched
    <2> QED
      BY <1>1, <1>6, <2>1, ReleaseUntouched DEF HoldingsInv
  <1>7. CASE /\ cursor <= n /\ (cursor <= Len(shards) => shards[cursor] = rows[cursor])
             /\ shards' = IF cursor <= Len(shards) THEN shards ELSE Append(shards, rows[cursor])
             /\ cursor' = cursor + 1 /\ UNCHANGED <<phase, d1Report>>
    <2>1. /\ shards' \in Seq(Holdings!Drops) /\ cursor <= Len(shards')
             /\ Len(shards) <= Len(shards')
          /\ \A i \in 1 .. Len(shards) : shards'[i] = shards[i]
          /\ shards'[cursor] = rows[cursor] /\ Len(shards') \in Nat
      <3>1. rows[cursor] \in Holdings!Drops /\ shards \in Seq(Holdings!Drops) /\ Len(shards) \in Nat
        BY <1>3, <1>4, <1>7, ReleaseShapes
      <3>2. CASE cursor <= Len(shards)
        BY <1>4, <1>7, <3>1, <3>2
      <3>3. CASE ~(cursor <= Len(shards))
        <4>1. cursor = Len(shards) + 1 /\ shards' = Append(shards, rows[cursor])
          BY <1>4, <1>7, <3>1, <3>3
        <4> QED
          BY <3>1, <4>1
      <3> QED
        BY <3>2, <3>3
    <2>2. HoldingsShapes' /\ HoldingsWorkers' /\ HoldingsReviewed'
      <3>1. cursor + 1 \in 1 .. Len(DropOrder) + 1
        BY <1>3, <1>4, <1>7, ReleaseShapes
      <3> QED
        BY <1>1, <1>7, <2>1, <3>1, ReleaseShapes, CaptureUntouched
    <2>3. HoldingsReleased'
      BY <1>1, <1>2, <1>7 DEF HoldingsReleased, Holdings!IsFailed, Holdings!Exhausted
    <2>4. HoldingsSharded'
      <3>1. cursor' - 1 = cursor /\ cursor' - 1 <= Len(shards')
        BY <1>4, <1>7, <2>1
      <3>2. ASSUME NEW i \in 1 .. cursor PROVE shards'[i] = rows[i]
        <4>1. CASE i = cursor
          BY <2>1, <4>1
        <4>2. CASE i # cursor
          <5>1. i \in 1 .. cursor - 1 /\ i \in 1 .. Len(shards)
            BY <1>4, <4>2, ReleaseShapes
          <5> QED
            BY <1>4, <2>1, <5>1
        <4> QED
          BY <4>1, <4>2
      <3>3. phase' = "shards" => Sharded(release.drops, cursor - 1)'
        BY <1>1, <1>7, <3>1, <3>2 DEF Sharded, rows, n
      <3>4. d1Report'.made => Sharded(d1Report.drops, Holdings!Cardinality(d1Report.drops))'
        <4> DEFINE m == Holdings!Cardinality(d1Report.drops)
        <4>1. m \in Nat /\ Len(shards) \in Nat
          BY ReleaseShapes
        <4> SUFFICES ASSUME d1Report.made
                     PROVE  /\ m <= Len(shards')
                            /\ \A i \in 1 .. m : shards'[i] = Holdings!RowsOf(d1Report.drops)[i]
          BY <1>7, <4>1 DEF Sharded
        <4>2. m <= Len(shards) /\ \A i \in 1 .. m : shards[i] = Holdings!RowsOf(d1Report.drops)[i]
          BY <1>5
        <4> HIDE DEF m
        <4> QED
          BY <2>1, <4>1, <4>2
      <3> QED
        BY <3>3, <3>4 DEF HoldingsSharded
    <2>5. HoldingsLoaded'
      BY <1>1, <1>2, <1>7 DEF HoldingsLoaded
    <2> QED
      BY <2>2, <2>3, <2>4, <2>5 DEF HoldingsInv
  <1>8. CASE ~(cursor <= n) /\ d1Report' = release /\ phase' = "idle" /\ cursor' = 1
             /\ shards' = shards
    <2>1. HoldingsShapes' /\ HoldingsWorkers' /\ HoldingsReviewed'
      <3>1. 1 \in 1 .. Len(DropOrder) + 1
        BY ReleaseShapes
      <3> QED
        BY <1>1, <1>8, <3>1, ReleaseShapes, CaptureUntouched
    <2>2. cursor - 1 = n
      BY <1>3, <1>4, <1>8
    <2>3. HoldingsReleased'
      BY <1>1, <1>2, <1>8 DEF HoldingsReleased
    <2>4. HoldingsSharded'
      BY <1>1, <1>3, <1>4, <1>8, <2>2 DEF HoldingsSharded, Sharded, rows, n
    <2>5. HoldingsLoaded'
      BY <1>1, <1>2, <1>8 DEF HoldingsLoaded
    <2> QED
      BY <2>1, <2>3, <2>4, <2>5 DEF HoldingsInv
  <1> QED
    <2>1. rows = Holdings!RowsOf(release.drops) /\ Len(rows) = n
      BY <1>3 DEF rows
    <2> QED
      BY <1>6, <1>7, <1>8, <2>1 DEF Holdings!WriteShard

LEMMA HoldingsLoadsShard ==
    ASSUME Holdings!ArtworkAssumption, HoldingsInv, Holdings!LoadShard
    PROVE  HoldingsInv'
  <1> DEFINE n == Holdings!Cardinality(d1Report.drops)
  <1>1. /\ phase = "load" /\ phase' = "load" /\ cursor <= n /\ cursor' = cursor + 1
        /\ table' = [table EXCEPT ![shards[cursor]] = IF @ = "none" THEN "row" ELSE @]
        /\ UNCHANGED <<source, bucket, uploads, records, tail, report, review>>
        /\ UNCHANGED <<todo, step, tried, jammed, faults, release, shards, d1Report, remote>>
    BY DEF Holdings!LoadShard, Holdings!r2Vars, Holdings!ckptVars, Holdings!runVars
  <1>2. /\ ~remote.made /\ d1Report.made /\ release.made
        /\ Holdings!Cardinality(release.drops) = n /\ n <= Len(shards)
        /\ \A i \in 1 .. n : i < cursor => table[shards[i]] # "none"
    BY <1>1 DEF HoldingsInv, HoldingsReleased, HoldingsLoaded, HoldingsSharded, Sharded
  <1>3. /\ cursor \in Nat \ {0} /\ n \in Nat /\ n <= Len(DropOrder) /\ Len(DropOrder) \in Nat
        /\ shards \in Seq(Holdings!Drops) /\ Len(shards) \in Nat
        /\ table \in [Holdings!Drops -> {"none", "row", "other"}]
    BY ReleaseShapes
  <1> HIDE DEF n
  <1>4. \A i \in 1 .. n : shards[i] \in Holdings!Drops
    BY <1>2, <1>3
  <1>5. cursor \in 1 .. n
    BY <1>1, <1>3
  <1>6. /\ table' \in [Holdings!Drops -> {"none", "row", "other"}]
        /\ \A i \in 1 .. n : i < cursor' => table'[shards[i]] # "none"
    <2>1. shards[cursor] \in Holdings!Drops
      BY <1>4, <1>5
    <2>2. table' \in [Holdings!Drops -> {"none", "row", "other"}]
      BY <1>1, <1>3, <2>1
    <2>3. \A d \in Holdings!Drops : table[d] # "none" => table'[d] # "none"
      BY <1>1, <1>3
    <2>4. table'[shards[cursor]] # "none"
      BY <1>1, <1>3, <2>1
    <2>5. ASSUME NEW i \in 1 .. n, i < cursor' PROVE table'[shards[i]] # "none"
      <3>1. i = cursor \/ i < cursor
        BY <1>1, <1>3, <2>5
      <3> QED
        BY <1>2, <1>4, <2>3, <2>4, <3>1
    <2> QED
      BY <2>2, <2>5
  <1>7. HoldingsShapes' /\ HoldingsWorkers' /\ HoldingsReviewed'
    <2>1. cursor + 1 \in 1 .. Len(DropOrder) + 1
      BY <1>1, <1>3
    <2> QED
      BY <1>1, <1>6, <2>1, ReleaseShapes, CaptureUntouched
  <1>8. HoldingsReleased' /\ HoldingsSharded'
    BY <1>1 DEF HoldingsInv, HoldingsReleased, HoldingsSharded, Sharded
  <1>9. HoldingsLoaded'
    BY <1>1, <1>2, <1>3, <1>6 DEF HoldingsLoaded, n
  <1> QED
    BY <1>7, <1>8, <1>9 DEF HoldingsInv

\* The verified table is the release, whose rows are as many as the D1 report's:
\* as every row of the report is in the table, the two are the same.
LEMMA HoldingsVerifies ==
    ASSUME Holdings!ArtworkAssumption, HoldingsInv, Holdings!VerifyLoad
    PROVE  HoldingsInv'
  <1> DEFINE n == Holdings!Cardinality(d1Report.drops)
  <1>1. /\ phase = "load" /\ phase' = "idle" /\ cursor > n /\ cursor' = 1
        /\ remote' = IF Holdings!TableIs(release.drops) THEN release ELSE remote
        /\ UNCHANGED <<source, bucket, uploads, records, tail, report, review, table>>
        /\ UNCHANGED <<todo, step, tried, jammed, faults, release, shards, d1Report>>
    BY DEF Holdings!VerifyLoad, Holdings!r2Vars, Holdings!ckptVars
  <1>2. /\ ~remote.made /\ d1Report.made /\ release.made
        /\ Holdings!Cardinality(release.drops) = n
        /\ \A i \in 1 .. n : i < cursor => table[shards[i]] # "none"
        /\ \A i \in 1 .. n : shards[i] = Holdings!RowsOf(d1Report.drops)[i]
    BY <1>1 DEF HoldingsInv, HoldingsReleased, HoldingsLoaded, HoldingsSharded, Sharded
  <1>3. cursor \in Nat /\ n \in Nat
    BY ReleaseShapes
  <1>4. release.drops \in SUBSET Holdings!Drops /\ d1Report.drops \in SUBSET Holdings!Drops
    BY ReleaseShapes DEF DropFiles
  <1>5. Holdings!TableIs(release.drops) => release = d1Report
    <2> SUFFICES ASSUME Holdings!TableIs(release.drops) PROVE release = d1Report
      OBVIOUS
    <2>1. ASSUME NEW d \in d1Report.drops PROVE d \in release.drops
      <3>1. PICK i \in 1 .. n : Holdings!RowsOf(d1Report.drops)[i] = d
        BY <1>4, RowsAreDrops
      <3>2. i < cursor
        BY <1>1, <1>3, <3>1
      <3>3. table[d] # "none"
        BY <1>2, <3>1, <3>2
      <3>4. d \in Holdings!Drops
        BY <1>4
      <3> QED
        BY <3>3, <3>4 DEF Holdings!TableIs
    <2>2. d1Report.drops \in SUBSET release.drops /\ IsFiniteSet(release.drops)
      BY <1>4, <2>1, DropsAreFinite
    <2>3. d1Report.drops = release.drops
      BY <1>2, <2>2, FS_Subset, SameSizes
    <2> QED
      BY <1>2, <2>3, ReleaseShapes DEF DropFiles
  <1> HIDE DEF n
  <1>6. HoldingsShapes' /\ HoldingsWorkers' /\ HoldingsReviewed'
    <2>1. 1 \in 1 .. Len(DropOrder) + 1
      BY ReleaseShapes
    <2>2. remote' \in DropFiles
      BY <1>1, ReleaseShapes
    <2> QED
      BY <1>1, <2>1, <2>2, ReleaseShapes, CaptureUntouched
  <1>7. HoldingsReleased' /\ HoldingsSharded'
    BY <1>1 DEF HoldingsInv, HoldingsReleased, HoldingsSharded, Sharded
  <1>8. HoldingsLoaded'
    BY <1>1, <1>2, <1>5 DEF HoldingsLoaded, Holdings!TableIs
  <1> QED
    BY <1>6, <1>7, <1>8 DEF HoldingsInv

LEMMA HoldingsStep ==
    ASSUME Holdings!ArtworkAssumption, HoldingsInv, Holdings!Next
    PROVE  HoldingsInv'
  <1>1. CASE Holdings!RunStep
    <2>1. CASE \E d \in Holdings!Drops :
                  \/ Holdings!Take(d) \/ Holdings!Download(d)
                  \/ Holdings!HeadBeforeUpload(d) \/ Holdings!Put(d)
                  \/ Holdings!CreateMultipart(d) \/ Holdings!CompleteMultipart(d)
                  \/ Holdings!FinishMultipart(d) \/ Holdings!VerifyUploaded(d)
                  \/ Holdings!Record(d) \/ Holdings!Drop(d)
      BY <2>1, HoldingsTakes, HoldingsDownloads, HoldingsAsks, HoldingsRecords
    <2>2. CASE Holdings!Header \/ Holdings!EndCapture \/ Holdings!WriteRelease
               \/ Holdings!WriteShard \/ Holdings!LoadShard \/ Holdings!VerifyLoad
      BY <2>2, HoldingsHeads, HoldingsEnds, HoldingsWritesRelease, HoldingsWritesShard,
         HoldingsLoadsShard, HoldingsVerifies
    <2> QED
      BY <1>1, <2>1, <2>2 DEF Holdings!RunStep
  <1>2. CASE Holdings!Operate \/ Holdings!Repeat
    <2>1. faults \in 0 .. MaxFaults /\ MaxFaults \in Nat
      BY DEF HoldingsInv, HoldingsShapes, Holdings!ArtworkAssumption
    <2>2. faults' \in {faults, faults + 1} /\ faults' \in 0 .. MaxFaults
      BY <1>2, <2>1 DEF Holdings!Operate, Holdings!Repeat, Holdings!Fault
    <2>3. Holdings!StartCapture \/ Holdings!StartFinalize \/ Holdings!StartLoad
          \/ Holdings!ReviewUnavailable
      BY <1>2 DEF Holdings!Operate, Holdings!Repeat
    <2> QED
      BY <2>2, <2>3, HoldingsBegins
  <1>3. CASE Holdings!Crash
    BY <1>3, HoldingsCrash
  <1>4. CASE \E d \in Holdings!Drops :
                Holdings!LoseDownload(d) \/ Holdings!LoseBridge(d) \/ Holdings!FailAppend(d)
    BY <1>4, HoldingsDownloads, HoldingsLosesBridge, HoldingsRecords
  <1>5. CASE \E d \in Fading : Holdings!SourceChanges(d)
    BY <1>5, HoldingsSourceChanges DEF Holdings!ArtworkAssumption
  <1> QED
    BY <1>1, <1>2, <1>3, <1>4, <1>5 DEF Holdings!Next

LEMMA HoldingsRest ==
    ASSUME Holdings!ArtworkAssumption, HoldingsInv, UNCHANGED Holdings!vars
    PROVE  HoldingsInv'
  <1>1. /\ UNCHANGED <<source, bucket, uploads, records, tail, report, review>>
        /\ UNCHANGED <<phase, todo, step, tried, jammed, faults>>
        /\ UNCHANGED <<release, shards, d1Report, cursor, table, remote>>
    BY
       DEF Holdings!vars, Holdings!r2Vars, Holdings!ckptVars, Holdings!runVars,
           Holdings!releaseVars
  <1>2. HoldingsShapes'
    BY <1>1 DEF HoldingsInv, HoldingsShapes
  <1>3. HoldingsWorkers' /\ HoldingsReviewed'
    BY <1>1
       DEF HoldingsInv, HoldingsWorkers, HoldingsReviewed, Holdings!FailedDrops,
          Holdings!IsFailed, Holdings!IsStored, Holdings!Exhausted
  <1> QED
    BY <1>1, <1>2, <1>3, ReleaseUntouched DEF HoldingsInv

LEMMA HoldingsSays ==
    ASSUME Holdings!ArtworkAssumption, HoldingsInv
    PROVE  Holdings!TypeOK /\ Holdings!ReleaseIsArchived /\ Holdings!VerifiedLoadIsExact
           /\ Holdings!OrphansNeedFaults
  <1>1. Holdings!ReleaseIsArchived
    BY DEF HoldingsInv, HoldingsReleased, Holdings!ReleaseIsArchived
  <1>2. Holdings!VerifiedLoadIsExact
    <2> SUFFICES ASSUME remote.made
                 PROVE  /\ Holdings!TableIs(remote.drops) /\ remote = d1Report
                        /\ \A i \in DOMAIN Holdings!RowsOf(remote.drops) :
                              shards[i] = Holdings!RowsOf(remote.drops)[i]
      BY DEF Holdings!VerifiedLoadIsExact
    <2>1. Holdings!TableIs(remote.drops) /\ remote = d1Report
      BY DEF HoldingsInv, HoldingsLoaded
    <2>2. \A i \in 1 .. Holdings!Cardinality(remote.drops) :
            shards[i] = Holdings!RowsOf(remote.drops)[i]
      BY <2>1 DEF HoldingsInv, HoldingsSharded, Sharded
    <2>3. DOMAIN Holdings!RowsOf(remote.drops) = 1 .. Holdings!Cardinality(remote.drops)
      <3>1. remote.drops \in SUBSET Holdings!Drops
        BY ReleaseShapes DEF DropFiles
      <3> QED
        BY <3>1, RowsAreDrops
    <2> QED
      BY <2>1, <2>2, <2>3
  <1>3. Holdings!OrphansNeedFaults
    BY
       DEF Holdings!OrphansNeedFaults, HoldingsInv, HoldingsWorkers, HoldingsShapes,
           Holdings!NoStep
  <1>4. Holdings!TypeOK
    BY
       DEF HoldingsInv, HoldingsShapes, Holdings!TypeOK, CheckpointRecords, CaptureReports,
           Reviews, DropFiles
  <1> QED
    BY <1>1, <1>2, <1>3, <1>4
-----------------------------------------------------------------------------
(* Types: what the inductive invariants leave out of them.                   *)

LastRecordsSynced == unsynced \in 0 .. SyncEvery - 1 /\ jammed \in BOOLEAN

UploadTypes ==
    /\ LastRecordsSynced
    /\ damaged \subseteq Keys /\ pos \in 1 .. Len(Archive) + 1
    /\ try \in [Keys -> 1 .. MaxTries] /\ aborted \in BOOLEAN /\ late \subseteq Keys
    /\ report \in {"none", "incomplete", "complete"} /\ faults \in 0 .. MaxFaults

LEMMA UploadTypesBegin ==
    ASSUME Artwork!UploadAssumption, Artwork!CheckpointAssumption, Artwork!Init
    PROVE  UploadTypes
  <1>1. /\ unsynced = 0 /\ jammed = FALSE /\ damaged \subseteq CanBeDamaged /\ pos = 1
        /\ try = [k \in Keys |-> 1] /\ aborted = FALSE /\ late = {} /\ report = "none" /\ faults = 0
    BY DEF Artwork!Init, Artwork!CheckpointInit, Artwork!FirstTry
  <1>2. jammed \in BOOLEAN
    BY <1>1
  <1>3. unsynced \in 0 .. SyncEvery - 1
    BY <1>1 DEF Artwork!CheckpointAssumption
  <1>4. LastRecordsSynced
    BY <1>2, <1>3 DEF LastRecordsSynced
  <1>5. damaged \subseteq Keys /\ faults \in 0 .. MaxFaults /\ late \subseteq Keys
    BY <1>1 DEF Artwork!UploadAssumption
  <1>6. pos \in 1 .. Len(Archive) + 1
    BY <1>1 DEF Artwork!UploadAssumption
  <1>7. try \in [Keys -> 1 .. MaxTries]
    BY <1>1 DEF Artwork!UploadAssumption
  <1>8. aborted \in BOOLEAN
    BY <1>1
  <1> QED
    BY <1>1, <1>4, <1>5, <1>6, <1>7, <1>8 DEF UploadTypes

LEMMA LastRecordsKept ==
    ASSUME Artwork!CheckpointAssumption, LastRecordsSynced,
           \/ unsynced' \in {unsynced, 0}
           \/ unsynced' = unsynced + 1 /\ ~(unsynced + 1 >= SyncEvery),
           jammed' \in {jammed, TRUE, FALSE}
    PROVE  LastRecordsSynced'
  <1>1. unsynced' \in 0 .. SyncEvery - 1
    BY DEF LastRecordsSynced, Artwork!CheckpointAssumption
  <1>2. jammed' \in BOOLEAN
    BY Zenon DEF LastRecordsSynced
  <1> QED
    BY <1>1, <1>2, Zenon DEF LastRecordsSynced

LEMMA UploadTypesKept ==
    ASSUME Artwork!UploadAssumption, Artwork!CheckpointAssumption, UploadInv, UploadTypes,
           [Artwork!Next]_(Artwork!vars)
    PROVE  UploadTypes'
  <1>1. /\ SyncEvery \in Nat \ {0} /\ MaxTries \in Nat \ {0} /\ MaxFaults \in Nat
        /\ Len(Archive) \in Nat
    BY DEF Artwork!UploadAssumption, Artwork!CheckpointAssumption
  <1>2. CASE Artwork!Open \/ Artwork!Header
    <2>1. /\ UNCHANGED <<damaged, pos, try, aborted, late, report, faults>>
          /\ \/ UNCHANGED <<unsynced, jammed>>
             \/ unsynced' = 0 /\ jammed' = FALSE
      BY <1>2
         DEF Artwork!Open, Artwork!Header, Artwork!Load, Artwork!WriteHeader, Artwork!Outside,
             Artwork!checkpointVars
    <2>2. LastRecordsSynced'
      BY <2>1, LastRecordsKept DEF UploadTypes
    <2> QED
      BY <1>1, <2>1, <2>2 DEF UploadTypes
  <1>3. CASE Artwork!NextEntry \/ Artwork!Slot \/ Artwork!Schedule
    <2>1. /\ UNCHANGED <<damaged, try, aborted, late, report, faults, unsynced, jammed>>
          /\ pos' = pos \/ (pos' = pos + 1 /\ pos <= Len(Archive))
      BY <1>1, <1>3
         DEF Artwork!NextEntry, Artwork!Slot, Artwork!Schedule, Artwork!Outside,
             Artwork!checkpointVars, UploadInv, UploadDown, UploadTypes
    <2>2. LastRecordsSynced'
      BY <2>1, LastRecordsKept DEF UploadTypes
    <2> QED
      BY <1>1, <2>1, <2>2 DEF UploadTypes
  <1>4. CASE Artwork!Finish \/ Artwork!Crash
    <2>1. /\ pos' = 1 /\ try' = [k \in Keys |-> 1] /\ aborted' = FALSE /\ damaged' = damaged
      BY <1>4 DEF Artwork!Finish, Artwork!Crash, Artwork!Exit, Artwork!FirstTry
    <2>2. LastRecordsSynced'
      <3>1. unsynced' \in {unsynced, 0} /\ (jammed' = jammed \/ jammed' = FALSE)
        BY <1>4
           DEF Artwork!Finish, Artwork!Crash, Artwork!Close, Artwork!Killed,
               Artwork!PowerLost, Artwork!Forget
      <3> QED
        BY <3>1, LastRecordsKept DEF UploadTypes
    <2>3. /\ report' \in {report, "incomplete", "complete"} /\ late' \subseteq Keys
          /\ faults' \in 0 .. MaxFaults
      BY <1>1, <1>4 DEF Artwork!Finish, Artwork!Crash, Artwork!Fault, UploadTypes
    <2>4. try' \in [Keys -> 1 .. MaxTries] /\ damaged' \subseteq Keys
      BY <1>1, <2>1 DEF UploadTypes
    <2>5. pos' \in 1 .. Len(Archive) + 1
      BY <1>1, <2>1
    <2>6. report' \in {"none", "incomplete", "complete"}
      BY <2>3 DEF UploadTypes
    <2>7. aborted' \in BOOLEAN
      BY <2>1
    <2> QED
      BY <2>2, <2>3, <2>4, <2>5, <2>6, <2>7 DEF UploadTypes
  <1>5. CASE Artwork!Write \/ Artwork!Reject \/ Artwork!FailWrite
    <2>1. /\ UNCHANGED <<damaged, pos, try, aborted, late, report>>
          /\ faults' \in {faults, faults + 1} /\ (faults' = faults \/ faults < MaxFaults)
      BY <1>5
         DEF Artwork!Write, Artwork!Reject, Artwork!FailWrite, Artwork!ReaderWaits,
             Artwork!Outside, Artwork!Fault
    <2>2. LastRecordsSynced'
      <3>1. /\ \/ unsynced' \in {unsynced, 0}
               \/ unsynced' = unsynced + 1 /\ ~(unsynced + 1 >= SyncEvery)
            /\ jammed' = jammed \/ jammed' = TRUE
        BY <1>5
           DEF Artwork!Write, Artwork!Reject, Artwork!FailWrite, Artwork!WriteNext,
               Artwork!RejectNext, Artwork!FailNext
      <3> QED
        BY <3>1, LastRecordsKept DEF UploadTypes
    <2> QED
      BY <1>1, <2>1, <2>2 DEF UploadTypes
  <1>6. ASSUME NEW k \in Keys, Artwork!Put(k) \/ Artwork!HeadKey(k) \/ Artwork!Cancel(k) \/
               Artwork!Lose(k) \/ Artwork!Refuse(k) \/ Artwork!LatePut(k)
        PROVE  UploadTypes'
    <2>1. /\ UNCHANGED <<damaged, pos, aborted, report, unsynced, jammed>>
          /\ faults' \in {faults, faults + 1} /\ (faults' = faults \/ faults < MaxFaults)
          /\ late' \in {late, late \cup {k}, late \ {k}}
      BY <1>6
         DEF Artwork!Put, Artwork!HeadKey, Artwork!Cancel, Artwork!Lose, Artwork!Refuse,
             Artwork!LatePut, Artwork!ReaderWaits, Artwork!Outside, Artwork!Fault,
             Artwork!Enqueue, Artwork!checkpointVars, Artwork!runVars
    <2>2. try' = try \/ (try[k] < MaxTries /\ try' = [try EXCEPT ![k] = @ + 1])
      BY <1>6
         DEF Artwork!Put, Artwork!HeadKey, Artwork!Cancel, Artwork!Lose, Artwork!Refuse,
             Artwork!LatePut, Artwork!runVars
    <2>3. try' \in [Keys -> 1 .. MaxTries]
      BY <1>1, <2>2 DEF UploadTypes
    <2>4. LastRecordsSynced'
      BY <2>1, LastRecordsKept DEF UploadTypes
    <2> QED
      BY <1>1, <2>1, <2>3, <2>4 DEF UploadTypes
  <1>7. CASE Artwork!Interrupt \/ Artwork!CrashInRepair \/ UNCHANGED Artwork!vars
    <2>1. /\ UNCHANGED <<damaged, pos, try, late, report, unsynced, jammed>>
          /\ aborted' \in {aborted, TRUE}
          /\ faults' \in {faults, faults + 1} /\ (faults' = faults \/ faults < MaxFaults)
      BY <1>7
         DEF Artwork!Interrupt, Artwork!CrashInRepair, Artwork!KilledInRepair, Artwork!Fault,
             Artwork!checkpointVars, Artwork!runVars, Artwork!vars
    <2>2. LastRecordsSynced'
      BY <2>1, LastRecordsKept DEF UploadTypes
    <2>3. aborted' \in BOOLEAN
      BY <2>1 DEF UploadTypes
    <2> QED
      BY <1>1, <2>1, <2>2, <2>3 DEF UploadTypes
  <1> QED
    BY <1>2, <1>3, <1>4, <1>5, <1>6, <1>7 DEF Artwork!Next, Artwork!RunStep

LEMMA UploadIsTyped ==
    ASSUME UploadInv, UploadTypes
    PROVE  Artwork!TypeOK
  <1>1. file \in Seq(Keys \cup {"header", "newline", "fragment"})
    BY DEF UploadInv, CheckpointStands, Stands, Tokens
  <1>2. completed \subseteq Keys
    BY DEF UploadInv, CheckpointStands, Held
  <1> QED
    BY <1>1, <1>2
       DEF UploadInv, UploadShapes, UploadChain, UploadTypes, LastRecordsSynced,
           Artwork!TypeOK, Artwork!CheckpointTypeOK
-----------------------------------------------------------------------------
LEMMA SameKept ==
    \A f : /\ Publication!Kept(f) = Artwork!Kept(f) /\ Publication!Records(f) = Artwork!Records(f)
           /\ Publication!HasInvalid(f) = Artwork!HasInvalid(f)
  BY DEF Publication!Kept, Artwork!Kept, Publication!Records, Artwork!Records,
         Publication!HasInvalid, Artwork!HasInvalid, Publication!Invalid, Artwork!Invalid,
         Publication!LineStarts, Artwork!LineStarts

\* What a write adds, whole or not.
LEMMA PublicationFileGrows ==
    ASSUME Artwork!CheckpointAssumption, Stands(file, Keys), NEW w \in Keys \cup {"header"},
           NEW f \in {file} \cup Publication!Torn(file, w) \cup {file \o Publication!Line(w)}
    PROVE  Stands(f, Keys) /\ Len(file) \in Nat /\ Len(f) \in Nat /\ Len(f) >= Len(file)
  <1>1. Len(file) \in Nat
    BY DEF Stands
  <1>2. /\ Stands(<<"fragment">>, Keys) /\ Stands(<<w, "newline">>, Keys) /\ Stands(<<w>>, Keys)
    <2>1. <<"fragment">> \in Seq(Tokens) /\ <<w, "newline">> \in Seq(Tokens) /\ <<w>> \in Seq(Tokens)
      BY DEF Tokens
    <2> QED
      BY <2>1 DEF Stands
  <1>3. ASSUME NEW g, Stands(g, Keys)
        PROVE  Stands(file \o g, Keys) /\ Len(file \o g) \in Nat /\ Len(file \o g) >= Len(file)
    <2>1. Stands(file \o g, Keys) /\ Len(file \o g) = Len(file) + Len(g) /\ Len(g) \in Nat
      BY <1>3, JoinStands DEF Stands
    <2> QED
      BY <1>1, <2>1
  <1>4. \/ f = file \/ f = file \o <<"fragment">> \/ f = file \o <<w>>
        \/ f = file \o <<w, "newline">>
    BY DEF Publication!Torn, Publication!Line
  <1>5. CASE f = file
    BY <1>1, <1>5
  <1>6. CASE f = file \o <<"fragment">>
    BY <1>1, <1>2, <1>3, <1>6
  <1>7. CASE f = file \o <<w>>
    BY <1>1, <1>2, <1>3, <1>7
  <1>8. CASE f = file \o <<w, "newline">>
    BY <1>1, <1>2, <1>3, <1>8
  <1> QED
    BY <1>4, <1>5, <1>6, <1>7, <1>8

\* The checkpoint's file and index through a step of the publication.
PublicationFile == Stands(file, Keys) /\ synced \in 0 .. Len(file) /\ completed \subseteq Keys

PublicationTypes ==
    /\ LastRecordsSynced /\ PublicationFile
    /\ changed \subseteq Publication!Uploads /\ cursor <= Len(Order) + 1
    /\ try \in [Keys -> 1 .. MaxTries] /\ prior \subseteq Keys
    /\ late \subseteq Publication!Uploads /\ aborted \in BOOLEAN
    /\ report \in {"none", "incomplete", "complete", "accepted"} /\ faults \in 0 .. MaxFaults

LEMMA PublicationFileKept ==
    ASSUME Artwork!CheckpointAssumption, PublicationInv, PublicationFile, LastRecordsSynced,
           [Publication!Next]_(Publication!vars)
    PROVE  PublicationFile' /\ LastRecordsSynced'
  <1>1. SyncEvery \in Nat \ {0} /\ Len(file) \in Nat
    BY DEF Artwork!CheckpointAssumption, PublicationFile, Stands
  <1>2. chain # <<>> => Head(chain) \in Keys
    BY DEF PublicationInv, PublicationChain
  <1>3. /\ Stands(Artwork!Kept(file), Keys) /\ Artwork!Records(file) \subseteq Keys
        /\ Len(Artwork!Kept(file)) \in Nat
    <2>1. Stands(Artwork!Kept(file), Keys) /\ Artwork!Records(file) \subseteq Keys
      BY KeptStands DEF PublicationFile
    <2> QED
      BY <2>1 DEF Stands
  <1>4. CASE Publication!Open
    <2>1. CASE UNCHANGED Publication!checkpointVars
      BY <2>1 DEF Publication!checkpointVars, PublicationFile, LastRecordsSynced
    <2>2. CASE Publication!Load
      <3>1. /\ file' = Artwork!Kept(file) /\ completed' = Artwork!Records(file)
            /\ synced' = IF Artwork!HasInvalid(file) THEN 0 ELSE synced
            /\ unsynced' = 0 /\ jammed' = FALSE
        BY <2>2, SameKept DEF Publication!Load
      <3>2. synced' \in 0 .. Len(file')
        <4>1. CASE Artwork!HasInvalid(file)
          BY <1>3, <3>1, <4>1
        <4>2. CASE ~Artwork!HasInvalid(file)
          BY <1>3, <3>1, <4>2 DEF PublicationFile, Artwork!Kept
        <4> QED
          BY <4>1, <4>2
      <3>3. LastRecordsSynced'
        BY <3>1, LastRecordsKept
      <3> QED
        BY <1>3, <3>1, <3>2, <3>3 DEF PublicationFile
    <2> QED
      BY <1>4, <2>1, <2>2 DEF Publication!Open
  <1>5. CASE Publication!Header
    <2>1. /\ file' = file \o Publication!Line("header") /\ synced' = Len(file')
          /\ completed' = {} /\ unsynced' = 0 /\ jammed' = FALSE
      BY <1>5 DEF Publication!Header, Publication!WriteHeader
    <2>2. Stands(file', Keys) /\ Len(file') \in Nat
      BY <2>1, PublicationFileGrows DEF PublicationFile
    <2>3. LastRecordsSynced'
      BY <2>1, LastRecordsKept
    <2> QED
      BY <1>1, <2>1, <2>2, <2>3 DEF PublicationFile
  <1>6. CASE Publication!Finish
    <2>1. /\ file' = file /\ completed' = completed /\ jammed' = jammed
          /\ unsynced' \in {unsynced, 0} /\ synced' \in {synced, Len(file)}
      BY <1>6 DEF Publication!Finish, Publication!Close
    <2>2. LastRecordsSynced'
      BY <2>1, LastRecordsKept
    <2> QED
      BY <1>1, <2>1, <2>2 DEF PublicationFile
  <1>7. CASE Publication!Write \/ Publication!FailWrite
    <2>1. /\ chain # <<>> /\ completed' = completed
          /\ file' \in Publication!Torn(file, Head(chain))
                       \cup {file \o Publication!Line(Head(chain))}
          /\ synced' \in {synced, Len(file')}
      BY <1>7 DEF Publication!Write, Publication!FailWrite, Publication!WriteNext,
                  Publication!FailNext
    <2>2. Stands(file', Keys) /\ Len(file') \in Nat /\ Len(file') >= Len(file)
      BY <1>2, <2>1, PublicationFileGrows DEF PublicationFile
    <2>3. LastRecordsSynced'
      <3>1. /\ \/ unsynced' \in {unsynced, 0}
               \/ unsynced' = unsynced + 1 /\ ~(unsynced + 1 >= SyncEvery)
            /\ jammed' = jammed \/ jammed' = TRUE
        BY <1>7
           DEF Publication!Write, Publication!FailWrite, Publication!WriteNext,
               Publication!FailNext
      <3> QED
        BY <3>1, LastRecordsKept
    <2> QED
      BY <1>1, <2>1, <2>2, <2>3 DEF PublicationFile
  <1>8. CASE Publication!Crash
    <2>1. completed' = {} /\ unsynced' = 0 /\ jammed' = FALSE
      BY <1>8 DEF Publication!Crash, Publication!Killed, Publication!PowerLost,
                  Publication!Forget
    <2>2. CASE Publication!Killed(Publication!Writing)
      <3>1. Publication!Writing \subseteq Keys \cup {"header"}
        BY <1>2 DEF Publication!Writing
      <3>2. file' = file \/ \E w \in Publication!Writing :
               file' \in Publication!Torn(file, w) \cup {file \o Publication!Line(w)}
        BY <2>2 DEF Publication!Killed
      <3>3. Stands(file', Keys) /\ Len(file') \in Nat /\ Len(file') >= Len(file)
        BY <1>1, <3>1, <3>2, PublicationFileGrows DEF PublicationFile
      <3>4. synced' = synced
        BY <2>2 DEF Publication!Killed
      <3>5. LastRecordsSynced'
        BY <2>1, LastRecordsKept
      <3> QED
        BY <1>1, <2>1, <3>3, <3>4, <3>5 DEF PublicationFile
    <2>3. CASE Publication!PowerLost
      <3>1. PICK n \in synced .. Len(file) :
               \/ file' = SubSeq(file, 1, n)
               \/ file' = SubSeq(file, 1, n) \o <<"fragment">>
        BY <2>3 DEF Publication!PowerLost, Publication!Surviving
      <3>2. n \in 0 .. Len(file)
        BY <1>1, <3>1 DEF PublicationFile
      <3>3. Stands(SubSeq(file, 1, n), Keys)
        BY <3>2, PrefixStands DEF PublicationFile
      <3>4. Stands(SubSeq(file, 1, n) \o <<"fragment">>, Keys)
        BY <3>3, TokensStand, JoinStands
      <3>5. Stands(file', Keys) /\ Len(file') \in Nat
        <4>1. Stands(file', Keys)
          BY <3>1, <3>3, <3>4
        <4> QED
          BY <4>1 DEF Stands
      <3>6. synced' = Len(file')
        BY <2>3 DEF Publication!PowerLost
      <3>7. LastRecordsSynced'
        BY <2>1, LastRecordsKept
      <3> QED
        BY <1>1, <2>1, <3>5, <3>6, <3>7 DEF PublicationFile
    <2> QED
      BY <1>8, <2>2, <2>3 DEF Publication!Crash
  <1>9. CASE Publication!CrashInRepair
    <2>1. /\ synced' = 0 /\ UNCHANGED <<unsynced, jammed, completed>>
      BY <1>9 DEF Publication!CrashInRepair, Publication!KilledInRepair
    <2>2. PICK n \in 0 .. Len(Artwork!Kept(file)) - 1 :
             \/ file' = SubSeq(Artwork!Kept(file), 1, n)
             \/ file' = SubSeq(Artwork!Kept(file), 1, n) \o <<"fragment">>
      BY <1>9, SameKept DEF Publication!CrashInRepair, Publication!KilledInRepair
    <2>3. Stands(SubSeq(Artwork!Kept(file), 1, n), Keys)
      BY <1>3, PrefixStands
    <2>4. Stands(SubSeq(Artwork!Kept(file), 1, n) \o <<"fragment">>, Keys)
      BY <2>3, TokensStand, JoinStands
    <2>5. Stands(file', Keys)
      BY <2>2, <2>3, <2>4
    <2>6. Len(file') \in Nat
      BY <2>5 DEF Stands
    <2> QED
      BY <2>1, <2>5, <2>6 DEF PublicationFile, LastRecordsSynced
  <1>10. ASSUME NEW k \in Keys, Publication!HeadObject(k) \/ Publication!PutObject(k)
         PROVE  PublicationFile' /\ LastRecordsSynced'
    <2>1. /\ UNCHANGED <<file, synced, unsynced, jammed>>
          /\ completed' \in {completed, completed \cup {k}}
      BY <1>10 DEF Publication!HeadObject, Publication!PutObject, Publication!Enqueue,
                   Publication!checkpointVars
    <2> QED
      BY <2>1 DEF PublicationFile, LastRecordsSynced
  <1>11. CASE \/ Publication!Take \/ Publication!Reject \/ Publication!Restore
              \/ Publication!Interrupt \/ UNCHANGED Publication!vars
              \/ \E k \in Keys : Publication!Cancel(k) \/ Publication!Lose(k)
                    \/ Publication!LatePut(k) \/ Publication!Remove(k) \/ Publication!Change(k)
    <2>1. UNCHANGED <<file, synced, unsynced, jammed, completed>>
      BY <1>11
         DEF Publication!Take, Publication!Reject, Publication!RejectNext, Publication!Restore,
             Publication!Interrupt, Publication!vars, Publication!Cancel, Publication!Lose,
             Publication!LatePut, Publication!Remove, Publication!Change,
             Publication!checkpointVars
    <2> QED
      BY <2>1 DEF PublicationFile, LastRecordsSynced
  <1> QED
    BY <1>4, <1>5, <1>6, <1>7, <1>8, <1>9, <1>10, <1>11
       DEF Publication!Next, Publication!RunStep

LEMMA PublicationTypesBegin ==
    ASSUME Publication!PublicationAssumption, Artwork!CheckpointAssumption, Publication!Init
    PROVE  PublicationTypes
  <1>1. /\ file = <<>> /\ synced = 0 /\ unsynced = 0 /\ jammed = FALSE /\ completed = {}
        /\ changed = {} /\ cursor = 1 /\ try = [k \in Keys |-> 1] /\ prior = {}
        /\ aborted = FALSE /\ late = {} /\ report = "none" /\ faults = 0
    BY DEF Publication!Init, Publication!CheckpointInit
  <1>2. LastRecordsSynced
    <2>1. unsynced \in 0 .. SyncEvery - 1
      BY <1>1 DEF Artwork!CheckpointAssumption
    <2>2. jammed \in BOOLEAN
      BY <1>1
    <2> QED
      BY <2>1, <2>2 DEF LastRecordsSynced
  <1>3. PublicationFile
    BY <1>1 DEF PublicationFile, Stands
  <1>4. /\ changed \subseteq Publication!Uploads /\ late \subseteq Publication!Uploads
        /\ prior \subseteq Keys
    BY <1>1
  <1>5. cursor <= Len(Order) + 1 /\ faults \in 0 .. MaxFaults
    BY <1>1 DEF Publication!PublicationAssumption
  <1>6. try \in [Keys -> 1 .. MaxTries]
    BY <1>1 DEF Publication!PublicationAssumption
  <1>7. aborted \in BOOLEAN
    BY <1>1
  <1> QED
    BY <1>1, <1>2, <1>3, <1>4, <1>5, <1>6, <1>7 DEF PublicationTypes

\* What the bridge is asked to put is an upload.
LEMMA PutsAreUploads ==
    ASSUME PublicationInv, NEW k \in Keys, task[k] = "put"
    PROVE  k \in Publication!Uploads
  BY DEF PublicationInv, Counting, Publication!Uploads

LEMMA PublicationTypesKept ==
    ASSUME Publication!PublicationAssumption, Artwork!CheckpointAssumption, PublicationInv,
           PublicationTypes, [Publication!Next]_(Publication!vars)
    PROVE  PublicationTypes'
  <1>1. /\ MaxTries \in Nat \ {0} /\ MaxFaults \in Nat /\ Len(Order) \in Nat
        /\ cursor \in Nat \ {0}
    BY DEF Publication!PublicationAssumption, PublicationInv, PublicationShapes
  <1>2. PublicationFile' /\ LastRecordsSynced'
    BY PublicationFileKept DEF PublicationTypes
  <1>3. CASE Publication!Open
    <2>1. /\ UNCHANGED <<cursor, try, aborted, changed, late, report, faults>>
          /\ prior' = {} \/ prior' = completed'
      BY <1>3 DEF Publication!Open, Publication!Outside
    <2> QED
      BY <1>2, <2>1 DEF PublicationTypes, PublicationFile
  <1>4. CASE Publication!Header \/ Publication!Take
    <2>1. /\ UNCHANGED <<try, aborted, prior, changed, late, report, faults>>
          /\ cursor' = cursor \/ (cursor' = cursor + 1 /\ cursor <= Len(Order))
      BY <1>4 DEF Publication!Header, Publication!Take, Publication!Outside
    <2>2. cursor' <= Len(Order) + 1
      BY <1>1, <2>1 DEF PublicationTypes
    <2> QED
      BY <1>2, <2>1, <2>2 DEF PublicationTypes
  <1>5. CASE Publication!Finish \/ Publication!Crash
    <2>1. /\ cursor' = 1 /\ try' = [k \in Keys |-> 1] /\ aborted' = FALSE /\ prior' = {}
          /\ changed' = changed
      BY <1>5 DEF Publication!Finish, Publication!Crash, Publication!Exit
    <2>2. report' \in {report, "incomplete", "complete", "accepted"}
      BY <1>5 DEF Publication!Finish, Publication!Crash, Publication!Outcome
    <2>3. late' \subseteq Publication!Uploads
      BY <1>5, PutsAreUploads DEF Publication!Finish, Publication!Crash, PublicationTypes
    <2>4. faults' \in 0 .. MaxFaults
      BY <1>1, <1>5
         DEF Publication!Finish, Publication!Crash, Publication!Fault, PublicationTypes
    <2>5. try' \in [Keys -> 1 .. MaxTries] /\ cursor' <= Len(Order) + 1 /\ prior' \subseteq Keys
      BY <1>1, <2>1
    <2>6. aborted' \in BOOLEAN
      BY <2>1
    <2>7. /\ report' \in {"none", "incomplete", "complete", "accepted"}
          /\ changed' \subseteq Publication!Uploads
      BY <2>1, <2>2 DEF PublicationTypes
    <2> QED
      BY <1>2, <2>3, <2>4, <2>5, <2>6, <2>7 DEF PublicationTypes
  <1>6. CASE Publication!Write \/ Publication!Reject \/ Publication!FailWrite
    <2>1. /\ UNCHANGED <<changed, cursor, try, prior, late, aborted, report>>
          /\ faults' = faults \/ (faults' = faults + 1 /\ faults < MaxFaults)
      BY <1>6
         DEF Publication!Write, Publication!Reject, Publication!FailWrite, Publication!Fault,
             Publication!Outside, Publication!PoolWaits
    <2>2. faults' \in 0 .. MaxFaults
      BY <1>1, <2>1 DEF PublicationTypes
    <2> QED
      BY <1>2, <2>1, <2>2 DEF PublicationTypes
  <1>7. ASSUME NEW k \in Keys,
               \/ Publication!HeadObject(k) \/ Publication!PutObject(k)
               \/ Publication!Cancel(k) \/ Publication!Lose(k)
        PROVE  PublicationTypes'
    <2>1. /\ UNCHANGED <<changed, cursor, prior, aborted, report>>
          /\ faults' = faults \/ (faults' = faults + 1 /\ faults < MaxFaults)
      BY <1>7
         DEF Publication!HeadObject, Publication!PutObject, Publication!Cancel,
             Publication!Lose, Publication!Fault, Publication!Outside, Publication!PoolWaits
    <2>2. late' = late \/ (task[k] = "put" /\ late' = late \cup {k})
      BY <1>7
         DEF Publication!HeadObject, Publication!PutObject, Publication!Cancel,
             Publication!Lose, Publication!Late, Publication!Outside
    <2>3. \/ try' = try \/ try' = [try EXCEPT ![k] = 1]
          \/ (try[k] < MaxTries /\ try' = [try EXCEPT ![k] = @ + 1])
      BY <1>7
         DEF Publication!HeadObject, Publication!PutObject, Publication!Cancel,
             Publication!Lose
    <2>4. try' \in [Keys -> 1 .. MaxTries]
      BY <1>1, <2>3 DEF PublicationTypes
    <2>5. late' \subseteq Publication!Uploads
      BY <2>2, PutsAreUploads DEF PublicationTypes
    <2>6. faults' \in 0 .. MaxFaults
      BY <1>1, <2>1 DEF PublicationTypes
    <2> QED
      BY <1>2, <2>1, <2>4, <2>5, <2>6 DEF PublicationTypes
  <1>8. ASSUME NEW k \in Keys,
               Publication!LatePut(k) \/ Publication!Remove(k) \/ Publication!Change(k)
        PROVE  PublicationTypes'
    <2>1. /\ UNCHANGED <<cursor, try, prior, aborted, report>>
          /\ late' \in {late, late \ {k}}
          /\ changed' = changed \/ (k \in Publication!Uploads /\ changed' = changed \cup {k})
          /\ faults' = faults \/ (faults' = faults + 1 /\ faults < MaxFaults)
      BY <1>8
         DEF Publication!LatePut, Publication!Remove, Publication!Change, Publication!Fault,
             Publication!runVars
    <2>2. faults' \in 0 .. MaxFaults
      BY <1>1, <2>1 DEF PublicationTypes
    <2>3. late' \subseteq Publication!Uploads /\ changed' \subseteq Publication!Uploads
      BY <2>1 DEF PublicationTypes
    <2> QED
      BY <1>2, <2>1, <2>2, <2>3 DEF PublicationTypes
  <1>9. CASE \/ Publication!Restore \/ Publication!Interrupt \/ Publication!CrashInRepair
             \/ UNCHANGED Publication!vars
    <2>1. /\ UNCHANGED <<cursor, try, prior, late, report>> /\ changed' \in {changed, {}}
          /\ faults' = faults \/ (faults' = faults + 1 /\ faults < MaxFaults)
      BY <1>9
         DEF Publication!Restore, Publication!Interrupt, Publication!CrashInRepair,
             Publication!Fault, Publication!runVars, Publication!vars
    <2>2. faults' \in 0 .. MaxFaults
      BY <1>1, <2>1 DEF PublicationTypes
    <2>3. aborted' \in {aborted, TRUE}
      BY <1>9
         DEF Publication!Restore, Publication!Interrupt, Publication!CrashInRepair,
             Publication!runVars, Publication!vars
    <2>4. aborted' \in BOOLEAN
      BY <2>3 DEF PublicationTypes
    <2> QED
      BY <1>2, <2>1, <2>2, <2>4 DEF PublicationTypes
  <1> QED
    BY <1>3, <1>4, <1>5, <1>6, <1>7, <1>8, <1>9 DEF Publication!Next, Publication!RunStep

LEMMA PublicationIsTyped ==
    ASSUME PublicationInv, PublicationTypes
    PROVE  Publication!TypeOK
  <1>1. counts \in [DOMAIN Publication!NoCounts -> SUBSET Keys]
    BY DEF PublicationInv, Counting, Publication!NoCounts
  <1>2. cursor \in 1 .. Len(Order) + 1
    BY DEF PublicationInv, PublicationShapes, PublicationTypes
  <1>3. Publication!CheckpointTypeOK
    <2>1. file \in Seq(Keys \cup {"header", "newline", "fragment"})
      BY DEF PublicationTypes, PublicationFile, Stands, Tokens
    <2> QED
      BY <2>1
         DEF PublicationTypes, PublicationFile, LastRecordsSynced, PublicationInv,
             PublicationChain, Publication!CheckpointTypeOK
  <1> QED
    BY <1>1, <1>2, <1>3
       DEF PublicationInv, PublicationShapes, PublicationTypes, Publication!TypeOK
-----------------------------------------------------------------------------
(* The recovery executor, in the composition.                                *)

MRP == INSTANCE MediaRecovery_proofs WITH
    Attempts <- MaxTries, TornTails <- FALSE, Concurrency <- 1

LEMMA SameUploadCounts == \A S : Recovery!Cardinality(S) = MRP!Cardinality(S)
  BY DEF Recovery!Cardinality, MRP!Cardinality, Recovery!IsFiniteSet, MRP!IsFiniteSet

LEMMA SameRecoveryNext == Recovery!Next <=> MRP!Next
  <1>1. /\ \A x : Recovery!Take(x) <=> MRP!Take(x)
        /\ \A x : Recovery!HeadKey(x) <=> MRP!HeadKey(x)
        /\ \A x : Recovery!Put(x) <=> MRP!Put(x)
        /\ \A x : Recovery!LookUp(x) <=> MRP!LookUp(x)
        /\ \A x : Recovery!Create(x) <=> MRP!Create(x)
    BY SameUploadCounts
       DEF Recovery!At, MRP!At, Recovery!Call, MRP!Call, Recovery!Calls, MRP!Calls,
           Recovery!Create, MRP!Create, Recovery!Discard, MRP!Discard, Recovery!Event,
           MRP!Event, Recovery!Failed, MRP!Failed, Recovery!HeadKey, MRP!HeadKey,
           Recovery!IsAbsent, MRP!IsAbsent, Recovery!IsOpen, MRP!IsOpen, Recovery!Key, MRP!Key,
           Recovery!Large, MRP!Large, Recovery!LookUp, MRP!LookUp, Recovery!Matches,
           MRP!Matches, Recovery!NewUpload, MRP!NewUpload, Recovery!NextPart, MRP!NextPart,
           Recovery!NoEtags, MRP!NoEtags, Recovery!NoEvent, MRP!NoEvent, Recovery!NotR2,
           MRP!NotR2, Recovery!Put, MRP!Put, Recovery!PutIfAbsent, MRP!PutIfAbsent,
           Recovery!Stored, MRP!Stored, Recovery!Take, MRP!Take, Recovery!Taken, MRP!Taken,
           Recovery!Unrecorded, MRP!Unrecorded, Recovery!UntouchedR2, MRP!UntouchedR2,
           Recovery!Upload, MRP!Upload, Recovery!Worker, MRP!Worker, Recovery!Write, MRP!Write
  <1>2. /\ \A x : Recovery!UploadPart(x) <=> MRP!UploadPart(x)
        /\ \A x : Recovery!Complete(x) <=> MRP!Complete(x)
        /\ \A x : Recovery!Abort(x) <=> MRP!Abort(x)
    BY SameUploadCounts
       DEF Recovery!Abort, MRP!Abort, Recovery!Accepts, MRP!Accepts, Recovery!Again, MRP!Again,
           Recovery!Assemble, MRP!Assemble, Recovery!At, MRP!At, Recovery!Complete,
           MRP!Complete, Recovery!Discard, MRP!Discard, Recovery!Event, MRP!Event,
           Recovery!Failed, MRP!Failed, Recovery!IsOpen, MRP!IsOpen, Recovery!Listed,
           MRP!Listed, Recovery!Missing, MRP!Missing, Recovery!NewEtags, MRP!NewEtags,
           Recovery!NoEvent, MRP!NoEvent, Recovery!NotR2, MRP!NotR2, Recovery!PutPart,
           MRP!PutPart, Recovery!Retry, MRP!Retry, Recovery!UntouchedR2, MRP!UntouchedR2,
           Recovery!Upload, MRP!Upload, Recovery!UploadPart, MRP!UploadPart, Recovery!Worker,
           MRP!Worker, Recovery!Write, MRP!Write
  <1>3. /\ \A x : Recovery!Record(x) <=> MRP!Record(x)
        /\ \A x : Recovery!Reject(x) <=> MRP!Reject(x)
    BY SameUploadCounts
       DEF Recovery!Appended, MRP!Appended, Recovery!Apply, MRP!Apply, Recovery!At, MRP!At,
           Recovery!Call, MRP!Call, Recovery!Event, MRP!Event, Recovery!GoOn, MRP!GoOn,
           Recovery!Key, MRP!Key, Recovery!NextPart, MRP!NextPart, Recovery!NoEtags,
           MRP!NoEtags, Recovery!NoEvent, MRP!NoEvent, Recovery!NotR2, MRP!NotR2,
           Recovery!Record, MRP!Record, Recovery!Reject, MRP!Reject, Recovery!Resting,
           MRP!Resting, Recovery!Stored, MRP!Stored, Recovery!Unrecorded, MRP!Unrecorded,
           Recovery!UntouchedR2, MRP!UntouchedR2, Recovery!Upload, MRP!Upload, Recovery!Worker,
           MRP!Worker, Recovery!Write, MRP!Write
  <1>4. /\ Recovery!Start <=> MRP!Start
        /\ Recovery!Finish <=> MRP!Finish
        /\ Recovery!Crash <=> MRP!Crash
    BY SameUploadCounts
       DEF Recovery!Apply, MRP!Apply, Recovery!At, MRP!At, Recovery!Calls, MRP!Calls,
           Recovery!Crash, MRP!Crash, Recovery!Fault, MRP!Fault, Recovery!Finish, MRP!Finish,
           Recovery!Interrupt, MRP!Interrupt, Recovery!Key, MRP!Key, Recovery!NoEtags,
           MRP!NoEtags, Recovery!NoEvent, MRP!NoEvent, Recovery!Pending, MRP!Pending,
           Recovery!Request, MRP!Request, Recovery!Resting, MRP!Resting, Recovery!Start,
           MRP!Start, Recovery!Taken, MRP!Taken, Recovery!UntouchedR2, MRP!UntouchedR2,
           Recovery!Upload, MRP!Upload, Recovery!journalVars, MRP!journalVars
  <1>5. /\ \A x : Recovery!Lose(x) <=> MRP!Lose(x)
        /\ \A x : Recovery!FailAppend(x) <=> MRP!FailAppend(x)
        /\ \A x : Recovery!Expire(x) <=> MRP!Expire(x)
        /\ \A x : Recovery!ExpireEarly(x) <=> MRP!ExpireEarly(x)
    BY SameUploadCounts
       DEF Recovery!Again, MRP!Again, Recovery!At, MRP!At, Recovery!Calls, MRP!Calls,
           Recovery!Discard, MRP!Discard, Recovery!Event, MRP!Event, Recovery!Expire,
           MRP!Expire, Recovery!ExpireEarly, MRP!ExpireEarly, Recovery!FailAppend,
           MRP!FailAppend, Recovery!Failed, MRP!Failed, Recovery!Fault, MRP!Fault,
           Recovery!IsOpen, MRP!IsOpen, Recovery!Key, MRP!Key, Recovery!Lose, MRP!Lose,
           Recovery!NoEvent, MRP!NoEvent, Recovery!Request, MRP!Request, Recovery!Resting,
           MRP!Resting, Recovery!Retry, MRP!Retry, Recovery!UntouchedR2, MRP!UntouchedR2,
           Recovery!Upload, MRP!Upload, Recovery!Worker, MRP!Worker, Recovery!Write, MRP!Write,
           Recovery!journalVars, MRP!journalVars, Recovery!runVars, MRP!runVars
  <1>6. /\ \A x : Recovery!LatePut(x) <=> MRP!LatePut(x)
        /\ \A x : Recovery!LateAbort(x) <=> MRP!LateAbort(x)
        /\ \A x : Recovery!LatePart(x) <=> MRP!LatePart(x)
        /\ \A x : Recovery!LateLookUp(x) <=> MRP!LateLookUp(x)
        /\ \A x : Recovery!LateCreate(x) <=> MRP!LateCreate(x)
        /\ \A x : Recovery!LateComplete(x) <=> MRP!LateComplete(x)
    BY SameUploadCounts
       DEF Recovery!Accepts, MRP!Accepts, Recovery!Assemble, MRP!Assemble, Recovery!Discard,
           MRP!Discard, Recovery!IsAbsent, MRP!IsAbsent, Recovery!IsOpen, MRP!IsOpen,
           Recovery!LateAbort, MRP!LateAbort, Recovery!LateComplete, MRP!LateComplete,
           Recovery!LateCreate, MRP!LateCreate, Recovery!LateLookUp, MRP!LateLookUp,
           Recovery!LatePart, MRP!LatePart, Recovery!LatePut, MRP!LatePut, Recovery!Listed,
           MRP!Listed, Recovery!NewEtags, MRP!NewEtags, Recovery!NewUpload, MRP!NewUpload,
           Recovery!NoEtags, MRP!NoEtags, Recovery!PutIfAbsent, MRP!PutIfAbsent,
           Recovery!PutPart, MRP!PutPart, Recovery!UntouchedR2, MRP!UntouchedR2
  <1>7. \A x : Recovery!Late(x) <=> MRP!Late(x)
    BY <1>6
       DEF Recovery!Late, MRP!Late, Recovery!journalVars, MRP!journalVars, Recovery!runVars,
           MRP!runVars
  <1> QED
    BY <1>1, <1>2, <1>3, <1>4, <1>5, <1>7
       DEF Recovery!Next, MRP!Next, Recovery!WorkerStep, MRP!WorkerStep,
           Recovery!Environment, MRP!Environment

LEMMA SameRecovery ==
    /\ Recovery!Init <=> MRP!Init
    /\ Recovery!TypeOK <=> MRP!TypeOK
    /\ Recovery!LeaksNeedFaults <=> MRP!LeaksNeedFaults
  <1>1. Recovery!Init <=> MRP!Init
    BY
       DEF Recovery!Absent, MRP!Absent, Recovery!BridgeInit, MRP!BridgeInit, Recovery!InTheWay,
           MRP!InTheWay, Recovery!Init, MRP!Init, Recovery!NoEtags, MRP!NoEtags,
           Recovery!NoEvent, MRP!NoEvent, Recovery!Resting, MRP!Resting
  <1>2. Recovery!TypeOK <=> MRP!TypeOK
    BY
       DEF Recovery!BridgeTypeOK, MRP!BridgeTypeOK, Recovery!Calls, MRP!Calls,
           Recovery!EventRows, MRP!EventRows, Recovery!Events, MRP!Events, Recovery!PCs,
           MRP!PCs, Recovery!States, MRP!States, Recovery!TypeOK, MRP!TypeOK, Recovery!Workers,
           MRP!Workers
  <1>3. Recovery!LeaksNeedFaults <=> MRP!LeaksNeedFaults
    BY SameUploadCounts
       DEF Recovery!IsOpen, MRP!IsOpen, Recovery!Leaked, MRP!Leaked, Recovery!LeaksNeedFaults,
           MRP!LeaksNeedFaults, Recovery!Resumable, MRP!Resumable
  <1> QED
    BY <1>1, <1>2, <1>3
-----------------------------------------------------------------------------
(* The commands side by side.                                                *)

RecoveryIsGiven == MRP!RecoveryAssumption /\ MRP!BridgeAssumption

LEMMA RecoveryGiven ==
    ASSUME UploadsAreGiven
    PROVE  RecoveryIsGiven
  <1>1. MaxTries \in Nat \ {0} /\ MaxFaults \in Nat
    BY DEF UploadsAreGiven, Artwork!UploadAssumption
  <1> QED
    BY <1>1 DEF RecoveryIsGiven, UploadsAreGiven, MRP!RecoveryAssumption, MRP!BridgeAssumption

\* What each command keeps; while it runs, that holds.
ArtworkKept == UploadInv /\ UploadTypes
PublicationKept == PublicationInv /\ PublicationTypes
RecoveryKept == MRP!IInv /\ MRP!ClaimsInv /\ MRP!LeakInv

CommandsInv ==
    /\ which = "artwork" => ArtworkKept
    /\ which = "publication" => PublicationKept
    /\ which = "holdings" => HoldingsInv
    /\ which = "recovery" => RecoveryKept

LEMMA CommandsBegin ==
    ASSUME UploadsAreGiven, Init
    PROVE  CommandsInv
  <1>1. CASE which = "artwork" /\ Artwork!Init
    BY <1>1, UploadInit, UploadTypesBegin DEF CommandsInv, ArtworkKept, UploadsAreGiven
  <1>2. CASE which = "publication" /\ Publication!Init
    BY <1>2, PublicationInit, PublicationTypesBegin
       DEF CommandsInv, PublicationKept, UploadsAreGiven
  <1>3. CASE which = "holdings" /\ Holdings!Init
    BY <1>3, HoldingsInit DEF CommandsInv, UploadsAreGiven
  <1>4. CASE which = "recovery" /\ Recovery!Init
    <2>1. RecoveryIsGiven /\ MRP!Init
      BY <1>4, RecoveryGiven, SameRecovery
    <2>2. RecoveryKept
      BY <2>1, MRP!Initially, MRP!ClaimsBegin, MRP!LeaksBegin DEF RecoveryIsGiven, RecoveryKept
    <2> QED
      BY <1>4, <2>2 DEF CommandsInv
  <1> QED
    BY <1>1, <1>2, <1>3, <1>4 DEF Init

\* A step of the whole is a step of the command that runs, or stutters for it.
LEMMA OneRuns ==
    ASSUME [Next]_vars
    PROVE  /\ which' = which
           /\ which = "artwork" => [Artwork!Next]_(Artwork!vars)
           /\ which = "publication" => [Publication!Next]_(Publication!vars)
           /\ which = "holdings" => [Holdings!Next]_(Holdings!vars)
           /\ which = "recovery" => [MRP!Next]_(MRP!vars)
  <1>1. CASE UNCHANGED vars
    <2>1. /\ which' = which /\ UNCHANGED Artwork!vars /\ UNCHANGED Publication!vars
      BY <1>1
         DEF vars, runVars, checkpointVars, artworkVars, publicationVars, Artwork!vars,
             Artwork!runVars, Artwork!checkpointVars, Publication!vars, Publication!runVars,
             Publication!checkpointVars
    <2>2. UNCHANGED Holdings!vars
      BY <1>1
         DEF vars, holdingsVars, Holdings!vars, Holdings!r2Vars, Holdings!ckptVars,
             Holdings!runVars, Holdings!releaseVars
    <2>3. UNCHANGED MRP!vars
      BY <1>1 DEF vars, recoveryVars, MRP!vars
    <2> QED
      BY <2>1, <2>2, <2>3
  <1>2. CASE InArtwork /\ Artwork!Next
    BY <1>2 DEF InArtwork
  <1>3. CASE InPublication /\ Publication!Next
    BY <1>3 DEF InPublication
  <1>4. CASE InHoldings /\ Holdings!Next
    BY <1>4 DEF InHoldings
  <1>5. CASE InRecovery /\ Recovery!Next
    BY <1>5, SameRecoveryNext DEF InRecovery
  <1> QED
    BY <1>1, <1>2, <1>3, <1>4, <1>5 DEF Next

LEMMA CommandsKeep ==
    ASSUME UploadsAreGiven, CommandsInv, [Next]_vars
    PROVE  CommandsInv'
  <1>1. ASSUME which = "artwork" PROVE ArtworkKept'
    BY <1>1, OneRuns, UploadStep, UploadTypesKept DEF CommandsInv, ArtworkKept, UploadsAreGiven
  <1>2. ASSUME which = "publication" PROVE PublicationKept'
    BY <1>2, OneRuns, PublicationStep, PublicationTypesKept
       DEF CommandsInv, PublicationKept, UploadsAreGiven
  <1>3. ASSUME which = "holdings" PROVE HoldingsInv'
    BY <1>3, OneRuns, HoldingsStep, HoldingsRest DEF CommandsInv, UploadsAreGiven
  <1>4. ASSUME which = "recovery" PROVE RecoveryKept'
    <2>1. RecoveryIsGiven /\ RecoveryKept /\ [MRP!Next]_(MRP!vars)
      BY <1>4, OneRuns, RecoveryGiven DEF CommandsInv
    <2>2. MRP!IInv'
      BY <2>1, MRP!Inductive DEF RecoveryIsGiven, RecoveryKept, MRP!StepOK
    <2>3. MRP!ClaimsInv'
      BY <2>1, MRP!ClaimsInvariant DEF RecoveryIsGiven, RecoveryKept
    <2>4. MRP!LeakInv'
      BY <2>1, <2>2, MRP!LeaksInvariant DEF RecoveryIsGiven, RecoveryKept
    <2> QED
      BY <2>2, <2>3, <2>4 DEF RecoveryKept
  <1> QED
    BY <1>1, <1>2, <1>3, <1>4, OneRuns DEF CommandsInv

LEMMA CommandsGoOn ==
    ASSUME UploadsAreGiven
    PROVE  Spec => []CommandsInv
  <1>1. Init => CommandsInv
    BY CommandsBegin
  <1>2. CommandsInv /\ [Next]_vars => CommandsInv'
    BY CommandsKeep
  <1> QED
    BY <1>1, <1>2, PTL DEF Spec

LEMMA CommandsSay ==
    ASSUME UploadsAreGiven, CommandsInv
    PROVE  RecordedIsStored /\ FaultsAreBounded
  <1>1. ASSUME which = "artwork"
        PROVE  Artwork!TypeOK /\ Artwork!RecordsAreStored /\ Artwork!FailuresBounded
    BY <1>1, UploadIsTyped, UploadHolds DEF CommandsInv, ArtworkKept, UploadsAreGiven
  <1>2. ASSUME which = "publication" PROVE Publication!TypeOK
    BY <1>2, PublicationIsTyped DEF CommandsInv, PublicationKept
  <1>3. ASSUME which = "holdings"
        PROVE  /\ Holdings!TypeOK /\ Holdings!ReleaseIsArchived
               /\ Holdings!VerifiedLoadIsExact /\ Holdings!OrphansNeedFaults
    BY <1>3, HoldingsSays DEF CommandsInv, UploadsAreGiven
  <1>4. ASSUME which = "recovery" PROVE Recovery!TypeOK /\ Recovery!LeaksNeedFaults
    <2>1. RecoveryIsGiven /\ RecoveryKept
      BY <1>4, RecoveryGiven DEF CommandsInv
    <2>2. MRP!TypeOK /\ MRP!LeaksNeedFaults
      BY <2>1, MRP!InvIsTyped, MRP!LeaksArePaid DEF RecoveryIsGiven, RecoveryKept
    <2> QED
      BY <2>2, SameRecovery
  <1> QED
    BY <1>1, <1>2, <1>3, <1>4 DEF RecordedIsStored, FaultsAreBounded, TypeOK

\* JsonlCheckpoint.record, finalizeHoldingsArtwork, loadHoldingsArtworkD1: for any
\* archive, Drops, sources and number of workers, a record that a later run skips and
\* an entry of a release stand for an original that is in the bucket, and a verified
\* load holds exactly the rows of the shards its report counts.
THEOREM RecordsStandForOriginals ==
    ASSUME UploadsAreGiven
    PROVE  Spec => []RecordedIsStored
  <1>1. CommandsInv => RecordedIsStored
    BY CommandsSay
  <1> QED
    BY <1>1, CommandsGoOn, PTL

\* --max-failures and the upload IDs a later run reuses: the failures of a run, the
\* parts of an original left open by the holdings' archive and the uploads a recovery
\* cannot resume are no more than the workers and the faults that occurred explain.
THEOREM FaultsExplainWhatIsLeft ==
    ASSUME UploadsAreGiven
    PROVE  Spec => []FaultsAreBounded
  <1>1. CommandsInv => FaultsAreBounded
    BY CommandsSay
  <1> QED
    BY <1>1, CommandsGoOn, PTL

\* publishCollectionMedia and uploadArtworkArchive: a report that is complete stands
\* for every object of its plan, each of which is in the bucket when it is written;
\* the objects of the artwork archive appear once and for good.
THEOREM CompleteReportsAreTrue ==
    ASSUME UploadsAreGiven
    PROVE  Spec => CompleteIsStored
  <1>1. CommandsInv /\ CommandsInv' /\ [Next]_vars =>
            [/\ which = "publication" => Publication!ReportsWhatIsStored
             /\ which = "artwork" => Artwork!StoreStep]_vars
    BY OneRuns, UploadStores, ReportsAreTrue
       DEF CommandsInv, ArtworkKept, PublicationKept, UploadsAreGiven
  <1> QED
    BY <1>1, CommandsGoOn, PTL DEF Spec, CompleteIsStored

\* validateMediaPublishReport: the report it accepts is of a run that began with the
\* record of an earlier one for every object to upload, and found the object there.
THEOREM SecondPassesAreAccepted ==
    ASSUME UploadsAreGiven
    PROVE  Spec => AcceptedIsSecondPass
  <1>1. CommandsInv /\ [Next]_vars =>
            [which = "publication" => Publication!AcceptsSecondPass]_vars
    BY OneRuns, ReportsAreTrue DEF CommandsInv, PublicationKept, UploadsAreGiven
  <1> QED
    BY <1>1, CommandsGoOn, PTL DEF Spec, AcceptedIsSecondPass
=============================================================================
