----------------------------- MODULE Reads_proofs -----------------------------
(***************************************************************************)
(* The published Moments for any builds, page size, releases and takedowns.*)
(* A body is what one release saw of one state of its database: between    *)
(* the suppressions with which it was deployed and those of now.           *)
(***************************************************************************)
EXTENDS Reads, FiniteSetTheorems, FunctionTheorems, SequenceTheorems, WellFoundedInduction,
        TLAPS

-----------------------------------------------------------------------------
(* The inductive invariant.                                                  *)

Served(i) == deployed[i].db = deployed[i].build /\ deployed[i].build \in released

\* Release i was there to read its database when w was withdrawn from it.
Saw(i, w) ==
    Served(i) /\ w \subseteq withdrawn[deployed[i].build] /\ deployed[i].since \subseteq w

Shown(i, w) == Projection[deployed[i].build] \ w

\* A release starts with what had been withdrawn before.
ReleasesStartClean == \A i \in DOMAIN deployed : deployed[i].since \subseteq withdrawn[deployed[i].db]

\* After a takedown only releases that started with it take requests.
TakedownsReachTheFleet ==
    /\ runbook.step # "none" => /\ Latest \in DOMAIN deployed
                                /\ runbook.moment \in withdrawn[Current]
    /\ runbook.step \in {"bumped", "purged"} => runbook.moment \in deployed[Latest].since
    /\ \A t \in resolved :
          /\ t[2] \in withdrawn[t[1]]
          /\ \A i \in fleet : deployed[i].db = t[1] => t[2] \in deployed[i].since

\* A copy is an answer of the release that its key names, to the request it names.
CopiesAreAnswers ==
    \A e \in cache \cup puts :
        \E i \in DOMAIN deployed, q \in Requests, w \in SUBSET Moments :
           Saw(i, w) /\ e = Entry(i, q, Body(i, q, Shown(i, w)))

\* Release i started with all the takedowns that were complete when the export began.
Fresh(i) == \A m \in Moments : <<deployed[i].db, m>> \in reader.clean => m \in deployed[i].since

Reading == reader.phase \in {"asking", "waiting", "loading", "answered"}

\* What the browser has is of one release, and goes as far as its next request.
ExportIsOnePass ==
    /\ reader.clean \subseteq resolved
    /\ reader.release = NoRelease => reader.items = {} /\ reader.want.after = 0
                                     /\ reader.phase # "done"
    /\ reader.release # NoRelease =>
          \E i \in DOMAIN deployed :
             /\ reader.release = Release(i) /\ Served(i) /\ Fresh(i)
             /\ reader.items \subseteq Shown(i, deployed[i].since)
             /\ \A m \in Shown(i, withdrawn[deployed[i].build]) :
                   (Reading /\ m <= reader.want.after) \/ At("done") => m \in reader.items
    /\ At("loading") => reader.at \in DOMAIN deployed /\ Fresh(reader.at)
    /\ At("answered") =>
          \E i \in DOMAIN deployed, w \in SUBSET Moments :
             /\ Saw(i, w) /\ Fresh(i)
             /\ reader.body = Body(i, reader.want, Shown(i, w))
    /\ At("done") /\ reader.manifest # NoBody => reader.release = reader.manifest.release

IInv ==
    /\ TypeOK
    /\ ReleasesStartClean /\ TakedownsReachTheFleet /\ CopiesAreAnswers /\ ExportIsOnePass

-----------------------------------------------------------------------------
(* Pages.                                                                    *)

LEMMA MomentsAreFinite ==
    ASSUME ReadsAssumption, NEW S, S \subseteq Moments
    PROVE  IsFiniteSet(S) /\ Cardinality(S) \in Nat /\ Cardinality(S) <= Cardinality(Moments)
  BY FS_Subset, FS_CardinalityType DEF ReadsAssumption

\* A set of Moments has a last one ...
LEMMA LastExists ==
    ASSUME ReadsAssumption, NEW S, S \subseteq Moments, S # {}
    PROVE  \E m \in S : \A n \in S : n <= m
  <1> DEFINE Above(m) == {n \in S : n > m}
             T == {Cardinality(Above(m)) : m \in S}
             R == {ss \in Nat \X Nat : ss[1] < ss[2]}
  <1>1. \A m \in S : IsFiniteSet(Above(m)) /\ Cardinality(Above(m)) \in Nat
    <2> TAKE m \in S
    <2>1. Above(m) \subseteq Moments
      OBVIOUS
    <2> HIDE DEF Above
    <2> QED
      BY <2>1, MomentsAreFinite
  <1>2. T \subseteq Nat /\ T # {}
    BY <1>1
  <1>3. IsWellFoundedOn(R, Nat)
    BY NatLessThanWellFounded DEF OpToRel
  <1>4. PICK t \in T : \A y \in T : ~(<<y, t>> \in R)
    <2> HIDE DEF R, T
    <2> QED
      BY <1>2, <1>3, WFMin
  <1>5. PICK m \in S : t = Cardinality(Above(m))
    BY <1>4
  <1>6. ASSUME NEW n \in S, ~(n <= m)
        PROVE  FALSE
    <2>1. n \in Nat /\ m \in Nat /\ \A k \in S : k \in Nat
      BY DEF ReadsAssumption
    <2>2. Above(n) \subseteq Above(m) /\ n \in Above(m) /\ n \notin Above(n)
      <3>1. n > m /\ ~(n > n)
        BY <1>6, <2>1
      <3>2. \A k \in S : k > n => k > m
        BY <2>1, <3>1
      <3> QED
        BY <3>1, <3>2
    <2>3. Cardinality(Above(n)) < Cardinality(Above(m))
      <3> HIDE DEF Above
      <3>1. Cardinality(Above(n)) <= Cardinality(Above(m)) /\ Cardinality(Above(n)) # Cardinality(Above(m))
        BY <1>1, <2>2, FS_Subset
      <3> QED
        BY <1>1, <3>1
    <2>4. Cardinality(Above(n)) \in T
      OBVIOUS
    <2>5. Cardinality(Above(n)) \in Nat /\ Cardinality(Above(m)) \in Nat
      BY <1>1
    <2> HIDE DEF Above, T
    <2> QED
      BY <1>4, <1>5, <2>3, <2>4, <2>5
  <1> QED
    BY <1>6

\* ... and a first one.
LEMMA FirstExists ==
    ASSUME ReadsAssumption, NEW S, S \subseteq Moments, S # {}
    PROVE  \E m \in S : \A n \in S : m <= n
  <1> DEFINE R == {ss \in Nat \X Nat : ss[1] < ss[2]}
  <1>1. S \subseteq Nat
    BY DEF ReadsAssumption
  <1>2. IsWellFoundedOn(R, Nat)
    BY NatLessThanWellFounded DEF OpToRel
  <1>3. PICK t \in S : \A y \in S : ~(<<y, t>> \in R)
    <2> HIDE DEF R
    <2> QED
      BY <1>1, <1>2, WFMin
  <1>4. ASSUME NEW n \in S
        PROVE  t <= n
    <2>1. ~(<<n, t>> \in R) /\ n \in Nat /\ t \in Nat
      BY <1>1, <1>3
    <2>2. ~(n < t)
      BY <2>1
    <2> QED
      BY <2>1, <2>2
  <1> QED
    BY <1>4

\* Nothing lies between a page and the next, and after the last page comes nothing.
LEMMA PagesSkipNothing ==
    ASSUME ReadsAssumption, NEW view, view \subseteq Moments, NEW after \in Nat
    PROVE  /\ Page(view, after) \subseteq view
           /\ NextCursor(view, after) \in Moments \cup {0}
           /\ NextCursor(view, after) = 0 =>
                 \A m \in view : m > after => m \in Page(view, after)
           /\ NextCursor(view, after) # 0 =>
                 \A m \in view : m > after /\ m <= NextCursor(view, after) =>
                    m \in Page(view, after)
  <1> DEFINE past == Past(view, after)
             page == Page(view, after)
             next == NextCursor(view, after)
             Upto(m) == {n \in past : n <= m}
  <1>1. past = {m \in view : m > after} /\ past \subseteq Moments
    BY DEF Past
  <1>2. page = {m \in past : Cardinality(Upto(m)) <= PageSize}
    BY DEF Page
  <1>3. page \subseteq past /\ page \subseteq view
    BY <1>1, <1>2
  <1>4. \A m \in Moments : m \in Nat /\ m # 0
    BY DEF ReadsAssumption
  <1>5. \A m \in Nat : Cardinality(Upto(m)) \in Nat /\ Upto(m) \subseteq past
    <2> TAKE m \in Nat
    <2>1. Upto(m) \subseteq Moments /\ Upto(m) \subseteq past
      BY <1>1
    <2> HIDE DEF Upto, past
    <2> QED
      BY <2>1, MomentsAreFinite
  <1>6. Cardinality(past) \in Nat /\ IsFiniteSet(past)
    <2> HIDE DEF past
    <2> QED
      BY <1>1, MomentsAreFinite
  <1>7. PageSize \in Nat \ {0}
    BY DEF ReadsAssumption
  <1>8. CASE Cardinality(past) > PageSize
    <2>1. past # {}
      BY <1>7, <1>8, FS_EmptySet
    <2>2. PICK first \in past : \A n \in past : first <= n
      <3> HIDE DEF past
      <3> QED
        BY <1>1, <2>1, FirstExists
    <2>3. first \in Nat /\ Upto(first) = {first}
      BY <1>1, <1>4, <2>2
    <2>4. first \in page
      <3>1. Cardinality({first}) = 1
        BY FS_Singleton
      <3> HIDE DEF past, page, Upto
      <3> QED
        BY <1>2, <1>7, <2>3, <3>1
    <2>5. \E m \in page : \A n \in page : n <= m
      <3>1. page \subseteq Moments /\ page # {}
        BY <1>1, <1>3, <2>4
      <3> HIDE DEF page
      <3> QED
        BY <3>1, LastExists
    <2>6. next \in page /\ \A n \in page : n <= next
      <3>1. next = CHOOSE m \in page : \A n \in page : n <= m
        BY <1>8 DEF NextCursor
      <3> HIDE DEF page, next
      <3> QED
        BY <2>5, <3>1
    <2>7. next \in Moments /\ next \in Nat /\ next # 0 /\ Cardinality(Upto(next)) <= PageSize
      BY <1>1, <1>2, <1>4, <2>6
    <2>8. ASSUME NEW m \in view, m > after, m <= next
          PROVE  m \in page
      <3>1. m \in past /\ m \in Nat
        BY <1>1, <1>4, <2>8
      <3>2. Upto(m) \subseteq Upto(next)
        <4>1. \A n \in past : n \in Nat
          BY <1>1, <1>4
        <4>2. \A n \in past : n <= m => n <= next
          <5> HIDE DEF past, next
          <5> QED
            BY <2>7, <2>8, <3>1, <4>1
        <4> HIDE DEF past, next
        <4> QED
          BY <4>2
      <3>3. IsFiniteSet(Upto(next))
        <4> HIDE DEF past, Upto
        <4> QED
          BY <1>5, <1>6, <2>7, FS_Subset
      <3>4. Cardinality(Upto(m)) <= Cardinality(Upto(next))
        <4> HIDE DEF past, Upto, next
        <4> QED
          BY <3>2, <3>3, FS_Subset
      <3>5. Cardinality(Upto(m)) <= PageSize
        <4> HIDE DEF past, Upto, next
        <4> QED
          BY <1>5, <1>7, <2>7, <3>1, <3>4
      <3> HIDE DEF past, page, Upto
      <3> QED
        BY <1>2, <3>1, <3>5
    <2> QED
      BY <1>3, <2>7, <2>8
  <1>9. CASE ~(Cardinality(past) > PageSize)
    <2>1. next = 0
      BY <1>9 DEF NextCursor
    <2>2. ASSUME NEW m \in view, m > after
          PROVE  m \in page
      <3>1. m \in past /\ m \in Nat
        BY <1>1, <1>4, <2>2
      <3>2. Cardinality(Upto(m)) <= Cardinality(past)
        <4> HIDE DEF past, Upto
        <4> QED
          BY <1>5, <1>6, <3>1, FS_Subset
      <3>3. Cardinality(Upto(m)) <= PageSize
        <4> HIDE DEF past, Upto
        <4> QED
          BY <1>5, <1>6, <1>7, <1>9, <3>1, <3>2
      <3> HIDE DEF past, page, Upto
      <3> QED
        BY <1>2, <3>1, <3>3
    <2> QED
      BY <1>3, <2>1, <2>2
  <1> QED
    BY <1>8, <1>9

-----------------------------------------------------------------------------
(* Types.                                                                    *)

Readers == [phase : {"idle", "asking", "waiting", "loading", "answered", "done", "failed"},
            want : Requests, at : {0} \cup DOMAIN deployed, body : Bodies,
            tries : 0 .. MaxRetries, manifest : Bodies,
            release : Releases \cup {NoRelease}, items : SUBSET Moments,
            clean : SUBSET (Builds \X Moments)]

LEMMA ReadersAreTyped == TypeOK => reader \in Readers
  BY DEF TypeOK, Readers

\* The releases deployed so far are numbered from 1.
LEMMA LatestIsLast ==
    ASSUME ReadsAssumption, TypeOK
    PROVE  /\ Latest \in 0 .. MaxReleases /\ DOMAIN deployed = 1 .. Latest
           /\ deployed \in [1 .. Latest -> Configs]
  <1>1. PICK n \in 0 .. MaxReleases : deployed \in [1 .. n -> Configs]
    BY DEF TypeOK
  <1>2. DOMAIN deployed = 1 .. n /\ n \in Nat
    BY <1>1 DEF ReadsAssumption
  <1>3. Cardinality(1 .. n) = n
    BY <1>2, FS_Interval
  <1>4. Latest = n
    BY <1>2, <1>3 DEF Latest
  <1> QED
    BY <1>1, <1>2, <1>4

LEMMA ReleasesAreTyped ==
    ASSUME ReadsAssumption, TypeOK, NEW i \in DOMAIN deployed
    PROVE  /\ i \in 1 .. MaxReleases /\ i # 0 /\ deployed[i] \in Configs
           /\ Release(i) \in Releases /\ Release(i).id = i
           /\ Release(i).build = deployed[i].build /\ Release(i) # NoRelease
  <1>1. i \in 1 .. Latest /\ Latest \in 0 .. MaxReleases /\ deployed[i] \in Configs
    BY LatestIsLast
  <1>2. i \in 1 .. MaxReleases /\ i # 0
    BY <1>1 DEF ReadsAssumption
  <1>3. deployed[i].build \in Builds
    BY <1>1 DEF Configs
  <1>4. Release(i).id = i /\ Release(i).build = deployed[i].build /\ NoRelease.id = 0
    BY DEF Release, NoRelease
  <1> QED
    BY <1>1, <1>2, <1>3, <1>4 DEF Release, Releases

LEMMA BodiesAreTyped ==
    ASSUME ReadsAssumption, TypeOK, NEW i \in DOMAIN deployed, NEW q \in Requests,
           NEW view, view \subseteq Moments
    PROVE  /\ Body(i, q, view) \in Bodies
           /\ Body(i, q, view).release = Release(i)
           /\ q.kind = "page" => /\ Body(i, q, view).items = Page(view, q.after)
                                 /\ Body(i, q, view).next = NextCursor(view, q.after)
  <1>1. Release(i) \in Releases
    BY ReleasesAreTyped
  <1>2. q.after \in Nat /\ q.after \in Moments \cup {0}
    <2>1. q.after \in Moments \cup {0}
      BY DEF Requests
    <2>2. Moments \subseteq Nat
      BY DEF ReadsAssumption
    <2>3. Moments \cup {0} \subseteq Nat
      BY <2>2
    <2> QED
      BY <2>1, <2>3
  <1>3. CASE q.kind = "manifest"
    <2>1. Cardinality(view) \in 0 .. Cardinality(Moments)
      BY MomentsAreFinite
    <2> QED
      BY <1>1, <1>3, <2>1 DEF Body, Manifest, Bodies
  <1>4. CASE q.kind # "manifest"
    <2>1. /\ Page(view, q.after) \subseteq Moments
          /\ NextCursor(view, q.after) \in Moments \cup {0}
      BY <1>2, PagesSkipNothing
    <2>2. 0 \in 0 .. Cardinality(Moments)
      BY MomentsAreFinite
    <2> QED
      BY <1>1, <1>4, <2>1, <2>2 DEF Body, PageBody, Bodies
  <1> QED
    BY <1>3, <1>4

LEMMA NothingIsTyped ==
    ASSUME ReadsAssumption
    PROVE  /\ NoBody \in Bodies /\ FirstPage \in Requests /\ NoRelease.id = 0
           /\ NoBody.release = NoRelease /\ 0 \in 0 .. MaxRetries
  <1>1. 0 \in 0 .. Cardinality(Moments)
    BY MomentsAreFinite
  <1> QED
    BY <1>1 DEF NoBody, Manifest, Bodies, FirstPage, Requests, NoRelease, ReadsAssumption

LEMMA IdleIsTyped ==
    ASSUME ReadsAssumption
    PROVE  /\ Idle \in Readers /\ Idle.release = NoRelease /\ Idle.items = {}
           /\ Idle.manifest = NoBody /\ Idle.clean = {} /\ Idle.want = FirstPage
           /\ Idle.phase = "idle" /\ Idle.at = 0
  BY NothingIsTyped DEF Idle, Readers

LEMMA InitHolds ==
    ASSUME ReadsAssumption, Init
    PROVE  IInv
  <1>1. DOMAIN deployed = {} /\ deployed \in [1 .. 0 -> Configs]
    <2>1. DOMAIN deployed = 1 .. 0
      BY DEF Init
    <2>2. 1 .. 0 = {}
      OBVIOUS
    <2> QED
      BY <2>1, <2>2 DEF Init
  <1>2. TypeOK
    <2>1. 0 \in 0 .. MaxReleases
      BY DEF ReadsAssumption
    <2>2. NoTakedown \in [step : {"none", "suppressed", "bumped", "purged"}, moment : Moments \cup {0}]
      BY DEF NoTakedown
    <2>3. reader \in Readers
      BY IdleIsTyped DEF Init
    <2> QED
      BY <1>1, <2>1, <2>2, <2>3 DEF Init, TypeOK, Readers
  <1>3. ReleasesStartClean /\ TakedownsReachTheFleet /\ CopiesAreAnswers
    BY <1>1 DEF Init, ReleasesStartClean, TakedownsReachTheFleet, CopiesAreAnswers, NoTakedown
  <1>4. ExportIsOnePass
    <2>1. Idle.want.after = 0
      BY IdleIsTyped DEF FirstPage
    <2> QED
      BY <2>1, IdleIsTyped DEF Init, ExportIsOnePass, At
  <1> QED
    BY <1>2, <1>3, <1>4 DEF IInv

-----------------------------------------------------------------------------
(* The operator and the cache.                                               *)

\* What releases saw stays so when more is published, withdrawn or deployed.
LEMMA SeenRemains ==
    ASSUME ReadsAssumption, TypeOK, released \subseteq released',
           \A b \in Builds : withdrawn[b] \subseteq withdrawn'[b],
           DOMAIN deployed \subseteq DOMAIN deployed',
           \A i \in DOMAIN deployed : deployed'[i] = deployed[i]
    PROVE  \A i \in DOMAIN deployed :
              /\ Release(i)' = Release(i)
              /\ Served(i) => Served(i)'
              /\ \A w : Saw(i, w) => Saw(i, w)'
              /\ \A w : Shown(i, w)' = Shown(i, w)
              /\ \A q, w : /\ Body(i, q, w)' = Body(i, q, w)
                           /\ \A body : Entry(i, q, body)' = Entry(i, q, body)
  <1> TAKE i \in DOMAIN deployed
  <1>1. Release(i)' = Release(i)
    BY DEF Release
  <1>2. Served(i) => Served(i)'
    BY DEF Served
  <1>3. deployed[i].build \in Builds
    BY ReleasesAreTyped DEF Configs
  <1>4. \A w : Saw(i, w) => Saw(i, w)'
    BY <1>2, <1>3 DEF Saw
  <1>5. \A w : Shown(i, w)' = Shown(i, w)
    BY DEF Shown
  <1>6. \A q, w : /\ Body(i, q, w)' = Body(i, q, w)
                  /\ \A body : Entry(i, q, body)' = Entry(i, q, body)
    BY <1>1 DEF Body, Entry, CacheKey, Page, NextCursor, Past
  <1> QED
    BY <1>1, <1>2, <1>4, <1>5, <1>6

LEMMA CopiesRemain ==
    ASSUME ReadsAssumption, IInv, released \subseteq released',
           \A b \in Builds : withdrawn[b] \subseteq withdrawn'[b],
           DOMAIN deployed \subseteq DOMAIN deployed',
           \A i \in DOMAIN deployed : deployed'[i] = deployed[i],
           cache' \cup puts' \subseteq cache \cup puts
    PROVE  CopiesAreAnswers'
  <1> SUFFICES ASSUME NEW e \in cache' \cup puts'
               PROVE  \E i \in DOMAIN deployed', q \in Requests, w \in SUBSET Moments :
                         Saw(i, w)' /\ e = Entry(i, q, Body(i, q, Shown(i, w)))'
    BY DEF CopiesAreAnswers
  <1>1. PICK i \in DOMAIN deployed, q \in Requests, w \in SUBSET Moments :
           Saw(i, w) /\ e = Entry(i, q, Body(i, q, Shown(i, w)))
    BY DEF IInv, CopiesAreAnswers
  <1>2. /\ Saw(i, w)' /\ Shown(i, w)' = Shown(i, w)
        /\ Release(i)' = Release(i)
    BY <1>1, SeenRemains DEF IInv
  <1>3. Entry(i, q, Body(i, q, Shown(i, w)))' = Entry(i, q, Body(i, q, Shown(i, w)))
    BY <1>2 DEF Body, Entry, CacheKey, Page, NextCursor, Past
  <1> QED
    BY <1>1, <1>2, <1>3

LEMMA ExportRemains ==
    ASSUME ReadsAssumption, IInv, released \subseteq released',
           \A b \in Builds : withdrawn[b] \subseteq withdrawn'[b],
           DOMAIN deployed \subseteq DOMAIN deployed',
           \A i \in DOMAIN deployed : deployed'[i] = deployed[i],
           resolved \subseteq resolved', UNCHANGED reader
    PROVE  ExportIsOnePass'
  <1>1. \A i \in DOMAIN deployed : Fresh(i) => Fresh(i)'
    BY DEF Fresh
  <1>2. ASSUME reader.release # NoRelease
        PROVE  \E i \in DOMAIN deployed' :
                  /\ reader.release = Release(i)' /\ Served(i)' /\ Fresh(i)'
                  /\ reader.items \subseteq Shown(i, deployed[i].since)'
                  /\ \A m \in Shown(i, withdrawn[deployed[i].build])' :
                        (Reading /\ m <= reader.want.after) \/ At("done") => m \in reader.items
    <2>1. PICK i \in DOMAIN deployed :
             /\ reader.release = Release(i) /\ Served(i) /\ Fresh(i)
             /\ reader.items \subseteq Shown(i, deployed[i].since)
             /\ \A m \in Shown(i, withdrawn[deployed[i].build]) :
                   (Reading /\ m <= reader.want.after) \/ At("done") => m \in reader.items
      BY <1>2 DEF IInv, ExportIsOnePass
    <2>2. Release(i)' = Release(i) /\ Served(i)' /\ Fresh(i)'
      BY <1>1, <2>1, SeenRemains DEF IInv
    <2>3. deployed[i].build \in Builds
      BY ReleasesAreTyped DEF IInv, Configs
    <2>4. /\ Shown(i, deployed[i].since)' = Shown(i, deployed[i].since)
          /\ Shown(i, withdrawn[deployed[i].build])' \subseteq Shown(i, withdrawn[deployed[i].build])
      BY <2>3 DEF Shown
    <2> QED
      BY <2>1, <2>2, <2>4
  <1>3. ASSUME At("answered")
        PROVE  \E i \in DOMAIN deployed', w \in SUBSET Moments :
                  /\ Saw(i, w)' /\ Fresh(i)'
                  /\ reader.body = Body(i, reader.want, Shown(i, w))'
    <2>1. PICK i \in DOMAIN deployed, w \in SUBSET Moments :
             Saw(i, w) /\ Fresh(i) /\ reader.body = Body(i, reader.want, Shown(i, w))
      BY <1>3 DEF IInv, ExportIsOnePass
    <2>2. Saw(i, w)' /\ Fresh(i)' /\ Release(i)' = Release(i) /\ Shown(i, w)' = Shown(i, w)
      BY <1>1, <2>1, SeenRemains DEF IInv
    <2>3. Body(i, reader.want, Shown(i, w))' = Body(i, reader.want, Shown(i, w))
      BY <2>2 DEF Body, Page, NextCursor, Past
    <2> QED
      BY <2>1, <2>2, <2>3
  <1>4. At("loading") => reader.at \in DOMAIN deployed' /\ Fresh(reader.at)'
    BY <1>1 DEF IInv, ExportIsOnePass, Fresh
  <1>5. /\ reader.clean \subseteq resolved'
        /\ reader.release = NoRelease => reader.items = {} /\ reader.want.after = 0
                                         /\ reader.phase # "done"
        /\ At("done") /\ reader.manifest # NoBody => reader.release = reader.manifest.release
    BY DEF IInv, ExportIsOnePass
  <1> QED
    BY <1>2, <1>3, <1>4, <1>5 DEF ExportIsOnePass, Reading, At

\* Steps that touch neither databases nor releases nor the browser.
LEMMA CacheKeeps ==
    ASSUME ReadsAssumption, IInv,
           (\E e \in puts : Put(e)) \/ (\E e \in cache : Evict(e))
    PROVE  IInv'
  <1>1. /\ UNCHANGED <<released, withdrawn, deployed, fleet, runbook, resolved, reader>>
        /\ cache' \cup puts' \subseteq cache \cup puts
    BY DEF Put, Evict, databaseVars, operatorVars
  <1>2. TypeOK'
    BY <1>1 DEF IInv, TypeOK
  <1>3. CopiesAreAnswers' /\ ExportIsOnePass'
    BY <1>1, CopiesRemain, ExportRemains
  <1>4. ReleasesStartClean' /\ TakedownsReachTheFleet'
    BY <1>1 DEF IInv, ReleasesStartClean, TakedownsReachTheFleet, Latest, Current
  <1> QED
    BY <1>2, <1>3, <1>4 DEF IInv

LEMMA ActivateKeeps ==
    ASSUME ReadsAssumption, IInv, NEW b \in Builds, Activate(b)
    PROVE  IInv'
  <1>1. /\ UNCHANGED <<withdrawn, deployed, fleet, runbook, resolved, reader, cache, puts>>
        /\ released' = released \cup {b}
    BY DEF Activate, operatorVars, NotOperator
  <1>2. TypeOK'
    BY <1>1 DEF IInv, TypeOK
  <1>3. CopiesAreAnswers' /\ ExportIsOnePass'
    BY <1>1, CopiesRemain, ExportRemains
  <1>4. ReleasesStartClean' /\ TakedownsReachTheFleet'
    BY <1>1 DEF IInv, ReleasesStartClean, TakedownsReachTheFleet, Latest, Current
  <1> QED
    BY <1>2, <1>3, <1>4 DEF IInv

LEMMA SuppressKeeps ==
    ASSUME ReadsAssumption, IInv, NEW m \in Moments, Suppress(m)
    PROVE  IInv'
  <1>1. /\ runbook = NoTakedown /\ Latest \in 1 .. MaxReleases - 1 /\ Current \in released
        /\ withdrawn' = [withdrawn EXCEPT ![Current] = @ \cup {m}]
        /\ runbook' = [step |-> "suppressed", moment |-> m]
        /\ UNCHANGED <<released, deployed, fleet, resolved, reader, cache, puts>>
    BY DEF Suppress, NotOperator
  <1>2. /\ withdrawn \in [Builds -> SUBSET Moments] /\ Current \in Builds
        /\ Latest \in DOMAIN deployed
    BY <1>1, LatestIsLast DEF IInv, TypeOK
  <1>3. /\ withdrawn' \in [Builds -> SUBSET Moments] /\ m \in withdrawn'[Current]
        /\ \A b \in Builds : withdrawn[b] \subseteq withdrawn'[b]
    BY <1>1, <1>2
  <1>4. TypeOK'
    BY <1>1, <1>3 DEF IInv, TypeOK
  <1>5. CopiesAreAnswers' /\ ExportIsOnePass'
    BY <1>1, <1>3, CopiesRemain, ExportRemains
  <1>6. Current' = Current /\ Latest' = Latest
    BY <1>1 DEF Current, Latest
  <1>7. ReleasesStartClean'
    <2>1. \A i \in DOMAIN deployed : deployed[i].db \in Builds
      BY ReleasesAreTyped DEF IInv, Configs
    <2> QED
      BY <1>1, <1>3, <2>1 DEF IInv, ReleasesStartClean
  <1>8. TakedownsReachTheFleet'
    <2>1. \A t \in resolved : t[1] \in Builds
      BY DEF IInv, TypeOK
    <2> QED
      BY <1>1, <1>2, <1>3, <1>6, <2>1 DEF IInv, TakedownsReachTheFleet
  <1> QED
    BY <1>4, <1>5, <1>7, <1>8 DEF IInv

\* One more release, with what has been withdrawn from its database by now.
LEMMA DeploymentsAppend ==
    ASSUME ReadsAssumption, IInv, NEW b \in Builds, NEW d \in Builds, Deployment(b, d)
    PROVE  /\ Latest' = Latest + 1 /\ Latest \in Nat /\ Latest' \in 0 .. MaxReleases
           /\ DOMAIN deployed' = DOMAIN deployed \cup {Latest'} /\ Latest' \notin DOMAIN deployed
           /\ deployed' \in [1 .. Latest' -> Configs]
           /\ \A i \in DOMAIN deployed : deployed'[i] = deployed[i]
           /\ deployed'[Latest'].db = d /\ deployed'[Latest'].since = withdrawn[d]
           /\ fleet' = fleet \cup {Latest'}
  <1> DEFINE n == Latest + 1
             config == [build |-> b, db |-> d, since |-> withdrawn[d]]
  <1>1. /\ Latest < MaxReleases /\ fleet' = fleet \cup {n}
        /\ deployed' = [i \in 1 .. n |-> IF i <= Latest THEN deployed[i] ELSE config]
    BY DEF Deployment
  <1>2. /\ Latest \in 0 .. MaxReleases /\ DOMAIN deployed = 1 .. Latest
        /\ deployed \in [1 .. Latest -> Configs] /\ MaxReleases \in Nat
    BY LatestIsLast DEF IInv, ReadsAssumption
  <1>3. config \in Configs
    BY DEF Configs, IInv, TypeOK
  <1>4. DOMAIN deployed' = 1 .. n /\ n \in Nat /\ Latest \in Nat
    BY <1>1, <1>2
  <1>5. Cardinality(1 .. n) = n
    BY <1>4, FS_Interval
  <1>6. Latest' = n
    BY <1>4, <1>5 DEF Latest
  <1> HIDE DEF config
  <1>7. /\ \A i \in 1 .. n : deployed'[i] = IF i <= Latest THEN deployed[i] ELSE config
        /\ deployed' \in [1 .. n -> Configs]
    <2>1. \A i \in 1 .. n : i <= Latest => deployed[i] \in Configs
      BY <1>2
    <2> QED
      BY <1>1, <1>3, <2>1
  <1>8. deployed'[n] = config /\ \A i \in DOMAIN deployed : deployed'[i] = deployed[i]
    BY <1>2, <1>4, <1>7
  <1>9. 1 .. n = 1 .. Latest \cup {n} /\ n \notin 1 .. Latest /\ n \in 0 .. MaxReleases
    BY <1>1, <1>2
  <1>10. config.db = d /\ config.since = withdrawn[d]
    BY DEF config
  <1> QED
    BY <1>1, <1>2, <1>4, <1>6, <1>7, <1>8, <1>9, <1>10

LEMMA DeployKeeps ==
    ASSUME ReadsAssumption, IInv, NEW b \in Builds, NEW d \in Builds, Deploy(b, d)
    PROVE  IInv'
  <1>1. /\ runbook = NoTakedown /\ Deployment(b, d)
        /\ UNCHANGED <<released, withdrawn, runbook, resolved, cache, puts, reader>>
    BY DEF Deploy, databaseVars, NotOperator
  <1>2. /\ DOMAIN deployed' = DOMAIN deployed \cup {Latest'} /\ Latest' \notin DOMAIN deployed
        /\ deployed' \in [1 .. Latest' -> Configs] /\ Latest' \in 0 .. MaxReleases
        /\ \A i \in DOMAIN deployed : deployed'[i] = deployed[i]
        /\ deployed'[Latest'].db = d /\ deployed'[Latest'].since = withdrawn[d]
        /\ fleet' = fleet \cup {Latest'}
    BY <1>1, DeploymentsAppend
  <1>3. TypeOK'
    BY <1>1, <1>2 DEF IInv, TypeOK
  <1>4. CopiesAreAnswers' /\ ExportIsOnePass'
    BY <1>1, <1>2, CopiesRemain, ExportRemains
  <1>5. ReleasesStartClean'
    BY <1>1, <1>2 DEF IInv, ReleasesStartClean
  <1>6. TakedownsReachTheFleet'
    <2>1. runbook'.step = "none"
      BY <1>1 DEF NoTakedown
    <2>2. ASSUME NEW t \in resolved, NEW i \in fleet', deployed'[i].db = t[1]
          PROVE  t[2] \in deployed'[i].since
      <3>1. CASE i = Latest'
        BY <1>2, <2>2, <3>1 DEF IInv, TakedownsReachTheFleet
      <3>2. CASE i # Latest'
        <4>1. i \in fleet /\ i \in DOMAIN deployed
          BY <1>2, <2>2, <3>2 DEF IInv, TypeOK
        <4> QED
          BY <1>2, <2>2, <4>1 DEF IInv, TakedownsReachTheFleet
      <3> QED
        BY <3>1, <3>2
    <2> QED
      BY <1>1, <2>1, <2>2 DEF IInv, TakedownsReachTheFleet
  <1> QED
    BY <1>3, <1>4, <1>5, <1>6 DEF IInv

\* The takedown redeploys the same database, now with the suppression.
LEMMA BumpKeeps ==
    ASSUME ReadsAssumption, IInv, Bump
    PROVE  IInv'
  <1> DEFINE b == deployed[Latest].build
             d == Current
  <1>1. /\ runbook.step = "suppressed" /\ Deployment(b, d)
        /\ runbook' = [runbook EXCEPT !.step = "bumped"]
        /\ UNCHANGED <<released, withdrawn, resolved, cache, puts, reader>>
    BY DEF Bump, databaseVars, NotOperator
  <1>2. Latest \in DOMAIN deployed /\ runbook.moment \in withdrawn[d]
    BY <1>1 DEF IInv, TakedownsReachTheFleet
  <1>3. b \in Builds /\ d \in Builds
    BY <1>2, ReleasesAreTyped DEF IInv, Configs, Current
  <1>4. /\ runbook' \in [step : {"none", "suppressed", "bumped", "purged"}, moment : Moments \cup {0}]
        /\ runbook'.step = "bumped" /\ runbook'.moment = runbook.moment
    BY <1>1 DEF IInv, TypeOK
  <1>5. PICK bb \in Builds, dd \in Builds : bb = b /\ dd = d
    BY <1>3
  <1>6. /\ DOMAIN deployed' = DOMAIN deployed \cup {Latest'} /\ Latest' \notin DOMAIN deployed
        /\ deployed' \in [1 .. Latest' -> Configs] /\ Latest' \in 0 .. MaxReleases
        /\ \A i \in DOMAIN deployed : deployed'[i] = deployed[i]
        /\ deployed'[Latest'].db = dd /\ deployed'[Latest'].since = withdrawn[dd]
        /\ fleet' = fleet \cup {Latest'}
    <2>1. Deployment(bb, dd)
      BY <1>1, <1>5
    <2> QED
      BY <2>1, DeploymentsAppend
  <1>7. TypeOK'
    BY <1>1, <1>4, <1>6 DEF IInv, TypeOK
  <1>8. CopiesAreAnswers' /\ ExportIsOnePass'
    BY <1>1, <1>6, CopiesRemain, ExportRemains
  <1>9. ReleasesStartClean'
    BY <1>1, <1>6 DEF IInv, ReleasesStartClean
  <1>10. Current' = dd
    BY <1>6 DEF Current
  <1>11. TakedownsReachTheFleet'
    <2>1. ASSUME NEW t \in resolved, NEW i \in fleet', deployed'[i].db = t[1]
          PROVE  t[2] \in deployed'[i].since
      <3>1. CASE i = Latest'
        BY <1>6, <2>1, <3>1 DEF IInv, TakedownsReachTheFleet
      <3>2. CASE i # Latest'
        <4>1. i \in fleet /\ i \in DOMAIN deployed
          BY <1>6, <2>1, <3>2 DEF IInv, TypeOK
        <4> QED
          BY <1>6, <2>1, <4>1 DEF IInv, TakedownsReachTheFleet
      <3> QED
        BY <3>1, <3>2
    <2>2. /\ Latest' \in DOMAIN deployed' /\ runbook'.moment \in withdrawn'[Current']
          /\ runbook'.moment \in deployed'[Latest'].since
      BY <1>1, <1>2, <1>4, <1>5, <1>6, <1>10
    <2>3. \A t \in resolved' : t[2] \in withdrawn'[t[1]]
      BY <1>1 DEF IInv, TakedownsReachTheFleet
    <2> QED
      BY <1>1, <2>1, <2>2, <2>3 DEF TakedownsReachTheFleet
  <1> QED
    BY <1>7, <1>8, <1>9, <1>11 DEF IInv

LEMMA RetireKeeps ==
    ASSUME ReadsAssumption, IInv, NEW i \in fleet, Retire(i)
    PROVE  IInv'
  <1>1. /\ fleet' = fleet \ {i}
        /\ UNCHANGED <<released, withdrawn, deployed, runbook, resolved, cache, puts, reader>>
    BY DEF Retire, databaseVars, NotOperator
  <1>2. TypeOK'
    BY <1>1 DEF IInv, TypeOK
  <1>3. CopiesAreAnswers' /\ ExportIsOnePass'
    BY <1>1, CopiesRemain, ExportRemains
  <1>4. ReleasesStartClean' /\ TakedownsReachTheFleet'
    BY <1>1 DEF IInv, ReleasesStartClean, TakedownsReachTheFleet, Latest, Current
  <1> QED
    BY <1>2, <1>3, <1>4 DEF IInv

LEMMA PurgeKeeps ==
    ASSUME ReadsAssumption, IInv, Purge
    PROVE  IInv'
  <1>1. /\ runbook.step = "bumped" /\ cache' = {}
        /\ runbook' = [runbook EXCEPT !.step = "purged"]
        /\ UNCHANGED <<released, withdrawn, deployed, fleet, resolved, puts, reader>>
    BY DEF Purge, databaseVars, NotOperator
  <1>2. /\ runbook' \in [step : {"none", "suppressed", "bumped", "purged"}, moment : Moments \cup {0}]
        /\ runbook'.step = "purged" /\ runbook'.moment = runbook.moment
    BY <1>1 DEF IInv, TypeOK
  <1>3. TypeOK'
    BY <1>1, <1>2 DEF IInv, TypeOK
  <1>4. CopiesAreAnswers' /\ ExportIsOnePass'
    BY <1>1, CopiesRemain, ExportRemains
  <1>5. ReleasesStartClean' /\ TakedownsReachTheFleet'
    BY <1>1, <1>2 DEF IInv, ReleasesStartClean, TakedownsReachTheFleet, Latest, Current
  <1> QED
    BY <1>3, <1>4, <1>5 DEF IInv

LEMMA VerifyKeeps ==
    ASSUME ReadsAssumption, IInv, Verify
    PROVE  IInv'
  <1>1. /\ runbook.step = "purged" /\ fleet = {Latest}
        /\ resolved' = resolved \cup {<<Current, runbook.moment>>} /\ runbook' = NoTakedown
        /\ UNCHANGED <<released, withdrawn, deployed, fleet, cache, puts, reader>>
    BY DEF Verify, databaseVars, NotOperator
  <1>2. /\ Latest \in DOMAIN deployed /\ runbook.moment \in withdrawn[Current]
        /\ runbook.moment \in deployed[Latest].since
    BY <1>1 DEF IInv, TakedownsReachTheFleet
  <1>3. Current \in Builds
    BY <1>2, ReleasesAreTyped DEF IInv, Configs, Current
  <1>4. runbook.moment \in Moments
    BY <1>2, <1>3 DEF IInv, TypeOK
  <1>5. TypeOK'
    <2>1. NoTakedown \in [step : {"none", "suppressed", "bumped", "purged"}, moment : Moments \cup {0}]
      BY DEF NoTakedown
    <2>2. resolved' \subseteq Builds \X Moments
      BY <1>1, <1>3, <1>4 DEF IInv, TypeOK
    <2> QED
      BY <1>1, <2>1, <2>2 DEF IInv, TypeOK
  <1>6. CopiesAreAnswers' /\ ExportIsOnePass'
    BY <1>1, CopiesRemain, ExportRemains
  <1>7. ReleasesStartClean'
    BY <1>1 DEF IInv, ReleasesStartClean
  <1>8. TakedownsReachTheFleet'
    <2>1. ASSUME NEW t \in resolved'
          PROVE  /\ t[2] \in withdrawn[t[1]]
                 /\ \A i \in fleet : deployed[i].db = t[1] => t[2] \in deployed[i].since
      <3>1. CASE t \in resolved
        BY <3>1 DEF IInv, TakedownsReachTheFleet
      <3>2. CASE t = <<Current, runbook.moment>>
        BY <1>1, <1>2, <3>2
      <3> QED
        BY <1>1, <3>1, <3>2
    <2>2. runbook'.step = "none"
      BY <1>1 DEF NoTakedown
    <2> QED
      BY <1>1, <2>1, <2>2 DEF TakedownsReachTheFleet
  <1> QED
    BY <1>5, <1>6, <1>7, <1>8 DEF IInv

-----------------------------------------------------------------------------
(* The browser.                                                              *)

LEMMA BrowserKeeps ==
    ASSUME IInv, UNCHANGED <<released, withdrawn, deployed, fleet, runbook, resolved>>,
           cache' \cup puts' \subseteq [key : Keys, body : Bodies],
           reader' \in Readers, CopiesAreAnswers', ExportIsOnePass'
    PROVE  IInv'
  <1>1. TypeOK'
    BY DEF IInv, TypeOK, Readers
  <1>2. ReleasesStartClean' /\ TakedownsReachTheFleet'
    BY DEF IInv, ReleasesStartClean, TakedownsReachTheFleet, Latest, Current
  <1> QED
    BY <1>1, <1>2 DEF IInv

\* Where nothing was sent, the copies are as they were.
LEMMA AskingKeeps ==
    ASSUME ReadsAssumption, IInv, NotReader, UNCHANGED puts,
           reader' \in Readers, ExportIsOnePass'
    PROVE  IInv'
  <1>1. UNCHANGED <<released, withdrawn, deployed, fleet, runbook, resolved, cache, puts>>
    BY DEF NotReader, databaseVars, operatorVars
  <1>2. CopiesAreAnswers'
    BY <1>1, CopiesRemain
  <1> QED
    BY <1>1, <1>2, BrowserKeeps DEF IInv, TypeOK

LEMMA FailKeeps ==
    ASSUME ReadsAssumption, IInv, NotReader, UNCHANGED puts, Fail
    PROVE  IInv'
  <1>1. reader' = [Idle EXCEPT !.phase = "failed"] /\ Idle \in Readers
    BY IdleIsTyped DEF Fail
  <1>2. /\ reader' \in Readers /\ reader'.phase = "failed" /\ reader'.release = Idle.release
        /\ reader'.items = Idle.items /\ reader'.clean = Idle.clean /\ reader'.want = Idle.want
    <2> HIDE DEF Idle
    <2> QED
      BY <1>1 DEF Readers
  <1>3. /\ reader'.release = NoRelease /\ reader'.items = {} /\ reader'.clean = {}
        /\ reader'.want.after = 0
    BY <1>2, IdleIsTyped DEF FirstPage
  <1>4. ExportIsOnePass'
    BY <1>2, <1>3 DEF ExportIsOnePass, At, NotReader, databaseVars, operatorVars, NoRelease
  <1> QED
    BY <1>2, <1>4, AskingKeeps

LEMMA BeginKeeps ==
    ASSUME ReadsAssumption, IInv, Begin
    PROVE  IInv'
  <1>1. NotReader /\ UNCHANGED puts
    BY DEF Begin
  <1>2. PICK kind \in {"manifest", "page"} :
           reader' = [Idle EXCEPT !.phase = "asking", !.want = [kind |-> kind, after |-> 0],
                                  !.clean = resolved]
    BY DEF Begin
  <1> DEFINE q == [kind |-> kind, after |-> 0]
  <1>3. q \in Requests /\ q.after = 0
    BY DEF Requests
  <1>4. resolved \subseteq Builds \X Moments
    BY DEF IInv, TypeOK
  <1>5. reader' = [Idle EXCEPT !.phase = "asking", !.want = q, !.clean = resolved]
    BY <1>2
  <1> HIDE DEF q
  <1>6. reader' \in Readers
    BY <1>3, <1>4, <1>5, IdleIsTyped DEF Readers
  <1>7. /\ reader'.phase = "asking" /\ reader'.release = Idle.release
        /\ reader'.items = Idle.items
    BY <1>5, IdleIsTyped DEF Readers
  <1>8. reader'.want = q /\ reader'.clean = resolved
    BY <1>5, IdleIsTyped DEF Readers
  <1>9. ExportIsOnePass'
    BY <1>1, <1>3, <1>7, <1>8, IdleIsTyped
       DEF ExportIsOnePass, At, NotReader, databaseVars, operatorVars
  <1> QED
    BY <1>1, <1>6, <1>9, AskingKeeps

\* What an export has, it keeps while it asks for more.
HasOnePass ==
    /\ reader.clean \subseteq resolved
    /\ reader.release = NoRelease => reader.items = {} /\ reader.want.after = 0
                                     /\ reader.phase # "done"
    /\ reader.release # NoRelease =>
          \E i \in DOMAIN deployed :
             /\ reader.release = Release(i) /\ Served(i) /\ Fresh(i)
             /\ reader.items \subseteq Shown(i, deployed[i].since)
             /\ \A m \in Shown(i, withdrawn[deployed[i].build]) :
                   (Reading /\ m <= reader.want.after) \/ At("done") => m \in reader.items

LEMMA PassGoesOn ==
    ASSUME ReadsAssumption, IInv, NotReader, Reading, Reading',
           reader'.release = reader.release, reader'.items = reader.items,
           reader'.clean = reader.clean,
           reader'.want.after = reader.want.after \/ reader'.want.after = 0
    PROVE  HasOnePass' /\ \A i \in DOMAIN deployed : Fresh(i)' <=> Fresh(i)
  <1>1. UNCHANGED <<released, withdrawn, deployed, fleet, runbook, resolved, cache>>
    BY DEF NotReader, databaseVars, operatorVars
  <1>2. \A i \in DOMAIN deployed : Fresh(i)' <=> Fresh(i)
    BY <1>1 DEF Fresh
  <1>3. ASSUME reader.release # NoRelease
        PROVE  \E i \in DOMAIN deployed' :
                  /\ reader'.release = Release(i)' /\ Served(i)' /\ Fresh(i)'
                  /\ reader'.items \subseteq Shown(i, deployed[i].since)'
                  /\ \A m \in Shown(i, withdrawn[deployed[i].build])' :
                        (Reading' /\ m <= reader'.want.after) \/ At("done")' => m \in reader'.items
    <2>1. PICK i \in DOMAIN deployed :
             /\ reader.release = Release(i) /\ Served(i) /\ Fresh(i)
             /\ reader.items \subseteq Shown(i, deployed[i].since)
             /\ \A m \in Shown(i, withdrawn[deployed[i].build]) :
                   (Reading /\ m <= reader.want.after) \/ At("done") => m \in reader.items
      BY <1>3 DEF IInv, ExportIsOnePass
    <2>2. Release(i)' = Release(i) /\ Served(i)' /\ Fresh(i)'
      BY <1>1, <1>2, <2>1 DEF Release, Served
    <2>3. /\ Shown(i, deployed[i].since)' = Shown(i, deployed[i].since)
          /\ Shown(i, withdrawn[deployed[i].build])' = Shown(i, withdrawn[deployed[i].build])
      BY <1>1 DEF Shown
    <2>4. \A m \in Shown(i, withdrawn[deployed[i].build]) : ~(m <= 0)
      <3>1. deployed[i].build \in Builds
        BY ReleasesAreTyped DEF IInv, Configs
      <3>2. Shown(i, withdrawn[deployed[i].build]) \subseteq Moments
        BY <3>1 DEF Shown, ReadsAssumption
      <3>3. \A m \in Moments : m \in Nat /\ m # 0
        BY DEF ReadsAssumption
      <3> QED
        BY <3>2, <3>3
    <2>5. ~At("done")'
      BY DEF Reading, At
    <2> QED
      BY <1>1, <2>1, <2>2, <2>3, <2>4, <2>5
  <1>4. reader'.clean \subseteq resolved'
    BY <1>1 DEF IInv, ExportIsOnePass
  <1>5. reader'.phase # "done"
    BY DEF Reading
  <1>6. reader.release = NoRelease => reader.items = {} /\ reader.want.after = 0
    BY DEF IInv, ExportIsOnePass
  <1> QED
    BY <1>2, <1>3, <1>4, <1>5, <1>6 DEF HasOnePass

\* Whoever still takes requests had all the takedowns that are complete.
LEMMA FleetIsFresh ==
    ASSUME ReadsAssumption, IInv, NEW i \in fleet
    PROVE  i \in DOMAIN deployed /\ Fresh(i)
  <1>1. i \in DOMAIN deployed
    BY DEF IInv, TypeOK
  <1>2. ASSUME NEW m \in Moments, <<deployed[i].db, m>> \in reader.clean
        PROVE  m \in deployed[i].since
    <2>1. PICK t \in resolved : t = <<deployed[i].db, m>>
      BY <1>2 DEF IInv, ExportIsOnePass
    <2> QED
      BY <2>1 DEF IInv, TakedownsReachTheFleet
  <1> QED
    BY <1>1, <1>2 DEF Fresh

LEMMA LimitAndWaitKeep ==
    ASSUME ReadsAssumption, IInv, Limit \/ Waited
    PROVE  IInv'
  <1>1. NotReader /\ UNCHANGED puts
    BY DEF Limit, Waited
  <1>2. CASE Fail
    BY <1>1, <1>2, FailKeeps
  <1>3. ASSUME NEW p \in {"asking", "waiting"}, NEW n \in 0 .. MaxRetries, Reading,
               reader' = [reader EXCEPT !.phase = p, !.tries = n]
        PROVE  IInv'
    <2>1. reader' \in Readers
      BY <1>3, ReadersAreTyped DEF IInv, Readers
    <2>2. /\ reader'.phase = p /\ reader'.release = reader.release /\ reader'.items = reader.items
          /\ reader'.clean = reader.clean /\ reader'.want = reader.want
      BY <1>3, ReadersAreTyped DEF IInv, Readers
    <2>3. Reading'
      BY <2>2 DEF Reading
    <2>4. HasOnePass'
      BY <1>1, <1>3, <2>2, <2>3, PassGoesOn
    <2>5. ExportIsOnePass'
      BY <2>2, <2>4 DEF HasOnePass, ExportIsOnePass, At
    <2> QED
      BY <1>1, <2>1, <2>5, AskingKeeps
  <1>4. CASE Limit /\ ~Fail
    <2>1. /\ reader.phase = "asking" /\ reader.tries # MaxRetries
          /\ reader' = [reader EXCEPT !.phase = "waiting", !.tries = @ + 1]
      BY <1>4 DEF Limit, At
    <2>2. reader.tries \in 0 .. MaxRetries
      BY ReadersAreTyped DEF IInv, Readers
    <2>3. reader.tries + 1 \in 0 .. MaxRetries
      BY <2>1, <2>2 DEF ReadsAssumption
    <2> QED
      BY <1>3, <2>1, <2>3 DEF Reading
  <1>5. CASE Waited
    <2>1. reader.phase = "waiting" /\ reader' = [reader EXCEPT !.phase = "asking"]
      BY <1>5 DEF Waited, At
    <2>2. reader.tries \in 0 .. MaxRetries /\ reader' = [reader EXCEPT !.phase = "asking", !.tries = reader.tries]
      BY <2>1, ReadersAreTyped DEF IInv, Readers
    <2> QED
      BY <1>3, <2>1, <2>2 DEF Reading
  <1> QED
    BY <1>2, <1>4, <1>5

LEMMA AskKeeps ==
    ASSUME ReadsAssumption, IInv, NEW i \in fleet, Ask(i)
    PROVE  IInv'
  <1>1. NotReader /\ UNCHANGED puts /\ reader.phase = "asking"
    BY DEF Ask, At
  <1>2. i \in DOMAIN deployed /\ Fresh(i)
    BY FleetIsFresh
  <1>3. UNCHANGED <<released, withdrawn, deployed, fleet, runbook, resolved, cache>>
    BY <1>1 DEF NotReader, databaseVars, operatorVars
  <1>4. CASE Fail
    BY <1>1, <1>4, FailKeeps
  <1>5. CASE reader' = [reader EXCEPT !.phase = "loading", !.at = i]
    <2>1. reader' \in Readers
      BY <1>2, <1>3, <1>5, ReadersAreTyped DEF IInv, Readers
    <2>2. /\ reader'.phase = "loading" /\ reader'.at = i /\ reader'.release = reader.release
          /\ reader'.items = reader.items /\ reader'.clean = reader.clean
          /\ reader'.want = reader.want
      BY <1>5, ReadersAreTyped DEF IInv, Readers
    <2>3. Reading /\ Reading'
      BY <1>1, <2>2 DEF Reading
    <2>4. HasOnePass' /\ (Fresh(i)' <=> Fresh(i))
      BY <1>1, <1>2, <2>2, <2>3, PassGoesOn
    <2>5. Fresh(reader.at)'
      BY <1>2, <2>2, <2>4 DEF Fresh
    <2>6. ExportIsOnePass'
      BY <1>2, <1>3, <2>2, <2>4, <2>5 DEF HasOnePass, ExportIsOnePass, At
    <2> QED
      BY <1>1, <2>1, <2>6, AskingKeeps
  <1>6. ASSUME NEW e \in cache, e.key = CacheKey(i, reader.want),
               reader' = [reader EXCEPT !.phase = "answered", !.body = e.body]
        PROVE  IInv'
    <2>1. PICK j \in DOMAIN deployed, q \in Requests, w \in SUBSET Moments :
             Saw(j, w) /\ e = Entry(j, q, Body(j, q, Shown(j, w)))
      BY DEF IInv, CopiesAreAnswers
    <2>2. e.key = CacheKey(j, q) /\ e.body = Body(j, q, Shown(j, w))
      BY <2>1 DEF Entry
    <2>3. Release(j) = Release(i) /\ q = reader.want
      BY <1>6, <2>2 DEF CacheKey
    <2>4. j = i
      <3>1. Release(j).id = j /\ Release(i).id = i
        BY <1>2, ReleasesAreTyped DEF IInv
      <3> QED
        BY <2>3, <3>1
    <2>5. e.body \in Bodies
      BY DEF IInv, TypeOK
    <2>6. reader' \in Readers
      BY <1>3, <1>6, <2>5, ReadersAreTyped DEF IInv, Readers
    <2>7. /\ reader'.phase = "answered" /\ reader'.body = e.body /\ reader'.release = reader.release
          /\ reader'.items = reader.items /\ reader'.clean = reader.clean
          /\ reader'.want = reader.want
      BY <1>6, ReadersAreTyped DEF IInv, Readers
    <2>8. Reading /\ Reading'
      BY <1>1, <2>7 DEF Reading
    <2>9. HasOnePass' /\ (Fresh(i)' <=> Fresh(i))
      BY <1>1, <1>2, <2>7, <2>8, PassGoesOn
    <2>10. Saw(i, w)' /\ Body(i, q, Shown(i, w))' = Body(i, q, Shown(i, w))
      BY <1>3, <2>1, <2>4
         DEF Saw, Served, Shown, Body, Release, Page, NextCursor, Past
    <2>11. reader'.body = Body(i, reader.want, Shown(i, w))'
      <3>1. Body(i, reader.want, Shown(i, w))' = Body(i, q, Shown(i, w))'
        BY <1>3, <2>3, <2>7 DEF Shown, Body, Release, Page, NextCursor, Past
      <3> QED
        BY <2>2, <2>4, <2>7, <2>10, <3>1
    <2>12. ExportIsOnePass'
      BY <1>2, <1>3, <2>7, <2>9, <2>10, <2>11 DEF HasOnePass, ExportIsOnePass, At
    <2> QED
      BY <1>1, <2>6, <2>12, AskingKeeps
  <1> QED
    BY <1>4, <1>5, <1>6 DEF Ask

\* A ready database answers with one of its states, which a copy may carry on.
LEMMA LoadKeeps ==
    ASSUME ReadsAssumption, IInv, Load
    PROVE  IInv'
  <1>1. NotReader /\ reader.phase = "loading"
    BY DEF Load, At
  <1>2. UNCHANGED <<released, withdrawn, deployed, fleet, runbook, resolved, cache>>
    BY <1>1 DEF NotReader, databaseVars, operatorVars
  <1>3. CASE Fail /\ UNCHANGED puts
    BY <1>1, <1>3, FailKeeps
  <1>4. CASE ~(Fail /\ UNCHANGED puts)
    <2> DEFINE i == reader.at
               q == reader.want
               w == withdrawn[deployed[i].build]
    <2>1. PICK body \in Generated(i, q) :
             /\ Ready(i)
             /\ reader' = [reader EXCEPT !.phase = "answered", !.at = 0, !.body = body]
             /\ \/ UNCHANGED puts
                \/ puts' = puts \cup {Entry(i, q, body)}
      BY <1>4 DEF Load
    <2>2. i \in DOMAIN deployed /\ Fresh(i)
      BY <1>1 DEF IInv, ExportIsOnePass, At
    <2>3. q \in Requests
      BY ReadersAreTyped DEF IInv, Readers
    <2>4. Served(i) /\ deployed[i].build \in Builds /\ deployed[i].db = deployed[i].build
      BY <2>1, <2>2, ReleasesAreTyped DEF IInv, Ready, Served, Configs
    <2>5. w \subseteq Moments /\ deployed[i].since \subseteq w
      BY <2>2, <2>4 DEF IInv, TypeOK, ReleasesStartClean
    <2>6. Saw(i, w)
      BY <2>4, <2>5 DEF Saw
    <2>7. body = Body(i, q, Shown(i, w))
      BY <2>1, <2>4 DEF Generated, Views, Shown, Ready
    <2>8. Shown(i, w) \subseteq Moments
      BY <2>4 DEF Shown, ReadsAssumption
    <2>9. body \in Bodies
      BY <2>2, <2>3, <2>7, <2>8, BodiesAreTyped DEF IInv
    <2> HIDE DEF i, q, w
    <2>10. reader' \in Readers
      BY <1>2, <2>1, <2>9, ReadersAreTyped DEF IInv, Readers
    <2>11. /\ reader'.phase = "answered" /\ reader'.body = body
           /\ reader'.release = reader.release /\ reader'.items = reader.items
           /\ reader'.clean = reader.clean /\ reader'.want = reader.want
      BY <2>1, ReadersAreTyped DEF IInv, Readers
    <2>12. Reading /\ Reading'
      BY <1>1, <2>11 DEF Reading
    <2>13. PICK k \in DOMAIN deployed, r \in Requests, v \in SUBSET Moments :
              k = i /\ r = q /\ v = w
      BY <2>2, <2>3, <2>5
    <2>14. HasOnePass' /\ (Fresh(k)' <=> Fresh(k))
      BY <1>1, <2>11, <2>12, PassGoesOn
    <2>15. Saw(k, v) /\ Saw(k, v)' /\ Shown(k, v)' = Shown(k, v) /\ Fresh(k)'
      <3>1. Saw(k, v) /\ Fresh(k)
        BY <2>2, <2>6, <2>13
      <3>2. Saw(k, v)' /\ Shown(k, v)' = Shown(k, v)
        BY <1>2, <3>1 DEF Saw, Served, Shown
      <3> QED
        BY <2>14, <3>1, <3>2
    <2>16. /\ Body(k, r, Shown(k, v))' = body
           /\ Entry(k, r, Body(k, r, Shown(k, v)))' = Entry(i, q, body)
      BY <1>2, <2>7, <2>13, <2>15
         DEF Entry, CacheKey, Body, Release, Page, NextCursor, Past
    <2>17. reader'.body = Body(k, reader.want, Shown(k, v))'
      <3>1. r = reader.want
        BY <2>13 DEF q
      <3>2. Body(k, reader.want, Shown(k, v))' = Body(k, r, Shown(k, v))'
        BY <2>11, <3>1 DEF Shown, Body, Release, Page, NextCursor, Past
      <3> QED
        BY <2>11, <2>16, <3>2
    <2>18. ExportIsOnePass'
      BY <1>2, <2>11, <2>14, <2>15, <2>17 DEF HasOnePass, ExportIsOnePass, At
    <2>19. CopiesAreAnswers'
      <3> SUFFICES ASSUME NEW e \in cache' \cup puts'
                   PROVE  \E j \in DOMAIN deployed', p \in Requests, u \in SUBSET Moments :
                             Saw(j, u)' /\ e = Entry(j, p, Body(j, p, Shown(j, u)))'
        BY DEF CopiesAreAnswers
      <3>1. CASE e \in cache \cup puts
        <4>1. PICK j \in DOMAIN deployed, p \in Requests, u \in SUBSET Moments :
                 Saw(j, u) /\ e = Entry(j, p, Body(j, p, Shown(j, u)))
          BY <3>1 DEF IInv, CopiesAreAnswers
        <4>2. Saw(j, u)' /\ Shown(j, u)' = Shown(j, u)
          BY <1>2, <4>1 DEF Saw, Served, Shown
        <4>3. Entry(j, p, Body(j, p, Shown(j, u)))' = Entry(j, p, Body(j, p, Shown(j, u)))
          BY <1>2, <4>2 DEF Entry, CacheKey, Body, Release, Page, NextCursor, Past
        <4> QED
          BY <1>2, <4>1, <4>2, <4>3
      <3>2. CASE e \notin cache \cup puts
        <4>1. e = Entry(i, q, body)
          BY <1>2, <2>1, <3>2
        <4> QED
          BY <1>2, <2>15, <2>16, <4>1
      <3> QED
        BY <3>1, <3>2
    <2>20. cache' \cup puts' \subseteq [key : Keys, body : Bodies]
      <3>1. CacheKey(i, q) \in Keys
        BY <2>2, <2>3, ReleasesAreTyped DEF IInv, CacheKey, Keys
      <3>2. Entry(i, q, body) \in [key : Keys, body : Bodies]
        BY <2>9, <3>1 DEF Entry
      <3> QED
        BY <1>2, <2>1, <3>2 DEF IInv, TypeOK
    <2> QED
      BY <1>2, <2>10, <2>18, <2>19, <2>20, BrowserKeeps
  <1> QED
    BY <1>3, <1>4

LEMMA ReadManifestKeeps ==
    ASSUME ReadsAssumption, IInv, ReadManifest
    PROVE  IInv'
  <1>1. NotReader /\ UNCHANGED puts /\ reader.phase = "answered"
    BY DEF ReadManifest, At
  <1>2. reader' = [reader EXCEPT !.phase = "asking", !.want = FirstPage,
                                 !.manifest = reader.body, !.body = NoBody]
    BY DEF ReadManifest
  <1>3. UNCHANGED deployed
    BY <1>1 DEF NotReader, operatorVars
  <1>4. FirstPage \in Requests /\ NoBody \in Bodies /\ FirstPage.after = 0
    BY NothingIsTyped DEF FirstPage
  <1>5. reader.body \in Bodies
    BY ReadersAreTyped DEF IInv, Readers
  <1>6. reader' \in Readers
    BY <1>2, <1>3, <1>4, <1>5, ReadersAreTyped DEF IInv, Readers
  <1>7. /\ reader'.phase = "asking" /\ reader'.release = reader.release
        /\ reader'.items = reader.items /\ reader'.clean = reader.clean
        /\ reader'.want = FirstPage
    BY <1>2, ReadersAreTyped DEF IInv, Readers
  <1>8. Reading /\ Reading'
    BY <1>1, <1>7 DEF Reading
  <1>9. HasOnePass'
    BY <1>1, <1>4, <1>7, <1>8, PassGoesOn
  <1>10. ExportIsOnePass'
    BY <1>7, <1>9 DEF HasOnePass, ExportIsOnePass, At
  <1> QED
    BY <1>1, <1>6, <1>10, AskingKeeps

\* A page goes on where the last one ended, in the view of its own release.
LEMMA ReadPageKeeps ==
    ASSUME ReadsAssumption, IInv, ReadPage
    PROVE  IInv'
  <1> DEFINE body == reader.body
             after == reader.want.after
             set == reader.items \cup body.items
  <1>1. NotReader /\ UNCHANGED puts /\ reader.phase = "answered" /\ reader.want.kind = "page"
    BY DEF ReadPage, At
  <1>2. UNCHANGED <<released, withdrawn, deployed, fleet, runbook, resolved, cache>>
    BY <1>1 DEF NotReader, databaseVars, operatorVars
  <1>3. CASE Fail
    BY <1>1, <1>3, FailKeeps
  <1>4. CASE ~Fail
    <2>1. /\ reader.release \in {NoRelease, body.release}
          /\ \/ /\ body.next # 0
                /\ reader' = [reader EXCEPT
                        !.phase = "asking", !.want = [kind |-> "page", after |-> body.next],
                        !.release = body.release, !.items = set, !.body = NoBody, !.tries = 0]
             \/ /\ body.next = 0
                /\ reader' = [reader EXCEPT
                        !.phase = IF Agrees(body.release, set) THEN "done" ELSE "failed",
                        !.release = body.release, !.items = set, !.body = NoBody]
      BY <1>4 DEF ReadPage
    <2>2. PICK i \in DOMAIN deployed, w \in SUBSET Moments :
             /\ Saw(i, w) /\ Fresh(i)
             /\ body = Body(i, reader.want, Shown(i, w))
      BY <1>1 DEF IInv, ExportIsOnePass, At
    <2> DEFINE view == Shown(i, w)
               start == Shown(i, deployed[i].since)
               now == Shown(i, withdrawn[deployed[i].build])
    <2>3. deployed[i].build \in Builds /\ Release(i) # NoRelease /\ Release(i) \in Releases
      BY ReleasesAreTyped DEF IInv, Configs
    <2>4. view \subseteq Moments /\ now \subseteq view /\ view \subseteq start
      BY <2>2, <2>3 DEF Saw, Shown, ReadsAssumption
    <2>5. /\ reader.want \in Requests /\ after \in Moments \cup {0} /\ after \in Nat
          /\ \A m \in Moments : m \in Nat /\ m # 0
      <3>1. reader.want \in Requests
        BY ReadersAreTyped DEF IInv, Readers
      <3>2. after \in Moments \cup {0}
        BY <3>1 DEF Requests
      <3>3. \A m \in Moments : m \in Nat /\ m # 0
        BY DEF ReadsAssumption
      <3>4. Moments \cup {0} \subseteq Nat
        BY <3>3
      <3> QED
        BY <3>1, <3>2, <3>3, <3>4
    <2>6. /\ body \in Bodies /\ body.release = Release(i)
          /\ body.items = Page(view, after) /\ body.next = NextCursor(view, after)
      <3> HIDE DEF view
      <3> QED
        BY <1>1, <2>2, <2>4, <2>5, BodiesAreTyped DEF IInv, view
    <2>7. /\ body.items \subseteq view /\ body.next \in Moments \cup {0}
          /\ body.next = 0 => \A m \in view : m > after => m \in body.items
          /\ body.next # 0 => \A m \in view : m > after /\ m <= body.next => m \in body.items
      <3> HIDE DEF view, body, after
      <3>1. /\ Page(view, after) \subseteq view /\ NextCursor(view, after) \in Moments \cup {0}
            /\ NextCursor(view, after) = 0 =>
                  \A m \in view : m > after => m \in Page(view, after)
            /\ NextCursor(view, after) # 0 =>
                  \A m \in view : m > after /\ m <= NextCursor(view, after) =>
                     m \in Page(view, after)
        BY <2>4, <2>5, PagesSkipNothing
      <3>2. body.items = Page(view, after) /\ body.next = NextCursor(view, after)
        BY <2>6
      <3> QED
        BY <3>1, <3>2, Zenon
    <2>8. /\ reader.items \subseteq start
          /\ \A m \in now : m <= after => m \in reader.items
      <3>1. CASE reader.release = NoRelease
        <4>1. reader.items = {} /\ after = 0
          BY <3>1 DEF IInv, ExportIsOnePass
        <4>2. \A m \in now : m \in Nat /\ m # 0
          BY <2>4, <2>5
        <4> QED
          BY <4>1, <4>2
      <3>2. CASE reader.release # NoRelease
        <4>1. PICK j \in DOMAIN deployed :
                 /\ reader.release = Release(j)
                 /\ reader.items \subseteq Shown(j, deployed[j].since)
                 /\ \A m \in Shown(j, withdrawn[deployed[j].build]) :
                       Reading /\ m <= after => m \in reader.items
          BY <3>2 DEF IInv, ExportIsOnePass
        <4>2. Release(j).id = j /\ Release(i).id = i
          BY ReleasesAreTyped DEF IInv
        <4>3. j = i
          BY <2>1, <2>6, <3>2, <4>1, <4>2
        <4> QED
          BY <1>1, <4>1, <4>3 DEF Reading
      <3> QED
        BY <3>1, <3>2
    <2>9. set \subseteq start /\ set \subseteq Moments
      <3>1. start \subseteq Moments
        BY <2>3 DEF Shown, ReadsAssumption
      <3> QED
        BY <2>4, <2>7, <2>8, <3>1
    <2>10. \A m \in now : body.next = 0 \/ m <= body.next => m \in set
      <3> SUFFICES ASSUME NEW m \in now, body.next = 0 \/ m <= body.next
                   PROVE  m \in set
        OBVIOUS
      <3>1. m \in view /\ m \in Nat
        BY <2>4, <2>5
      <3>2. CASE m <= after
        BY <2>8, <3>2
      <3>3. CASE m > after
        BY <2>7, <3>1, <3>3
      <3> HIDE DEF after, set, now
      <3> QED
        BY <2>5, <3>1, <3>2, <3>3
    <2>11. PICK s, n, z, x : s = set /\ n = now /\ z = start /\ x = body.next
      OBVIOUS
    <2>12. /\ reader'.release = Release(i) /\ reader'.items = s /\ reader'.clean = reader.clean
           /\ reader'.manifest = reader.manifest
           /\ reader'.phase \in {"asking", "done", "failed"}
           /\ reader'.phase = "asking" => x # 0 /\ reader'.want.after = x
           /\ reader'.phase = "done" => x = 0 /\ Agrees(Release(i), s)
           /\ reader' \in Readers
      <3> HIDE DEF body, set, after, view, start, now
      <3>1. ASSUME x # 0
            PROVE  /\ reader'.release = Release(i) /\ reader'.items = s
                   /\ reader'.clean = reader.clean /\ reader'.manifest = reader.manifest
                   /\ reader'.phase = "asking" /\ reader'.want.after = x
                   /\ reader' \in Readers
        <4> DEFINE q == [kind |-> "page", after |-> x]
        <4>1. q \in Requests /\ q.after = x
          BY <2>7, <2>11 DEF Requests
        <4>2. reader' = [reader EXCEPT !.phase = "asking", !.want = q, !.release = Release(i),
                                       !.items = s, !.body = NoBody, !.tries = 0]
          BY <2>1, <2>6, <2>11, <3>1
        <4> HIDE DEF q
        <4>3. s \in SUBSET Moments /\ Release(i) \in Releases \cup {NoRelease}
          BY <2>3, <2>9, <2>11
        <4>4. reader' \in Readers
          BY <1>2, <4>1, <4>2, <4>3, NothingIsTyped, ReadersAreTyped DEF IInv, Readers
        <4>5. reader'.release = Release(i) /\ reader'.items = s
          BY <4>2, ReadersAreTyped DEF IInv, Readers
        <4>6. reader'.clean = reader.clean /\ reader'.manifest = reader.manifest
          BY <4>2, ReadersAreTyped DEF IInv, Readers
        <4>7. reader'.phase = "asking" /\ reader'.want = q
          BY <4>2, ReadersAreTyped DEF IInv, Readers
        <4> QED
          BY <4>1, <4>4, <4>5, <4>6, <4>7
      <3>2. ASSUME x = 0
            PROVE  /\ reader'.release = Release(i) /\ reader'.items = s
                   /\ reader'.clean = reader.clean /\ reader'.manifest = reader.manifest
                   /\ reader'.phase \in {"done", "failed"}
                   /\ reader'.phase = "done" => Agrees(Release(i), s)
                   /\ reader' \in Readers
        <4> DEFINE p == IF Agrees(Release(i), s) THEN "done" ELSE "failed"
        <4>1. p \in {"done", "failed"} /\ (p = "done" => Agrees(Release(i), s))
          OBVIOUS
        <4>2. reader' = [reader EXCEPT !.phase = p, !.release = Release(i), !.items = s,
                                       !.body = NoBody]
          BY <2>1, <2>6, <2>11, <3>2
        <4> HIDE DEF p
        <4>3. s \in SUBSET Moments /\ Release(i) \in Releases \cup {NoRelease}
          BY <2>3, <2>9, <2>11
        <4>4. reader' \in Readers
          BY <1>2, <4>1, <4>2, <4>3, NothingIsTyped, ReadersAreTyped DEF IInv, Readers
        <4>5. reader'.release = Release(i) /\ reader'.items = s
          BY <4>2, ReadersAreTyped DEF IInv, Readers
        <4>6. reader'.clean = reader.clean /\ reader'.manifest = reader.manifest
          BY <4>2, ReadersAreTyped DEF IInv, Readers
        <4>7. reader'.phase = p
          BY <4>2, ReadersAreTyped DEF IInv, Readers
        <4> QED
          BY <4>1, <4>4, <4>5, <4>6, <4>7
      <3> QED
        BY <3>1, <3>2
    <2>13. /\ s \subseteq z /\ z = Shown(i, deployed[i].since)
           /\ n = Shown(i, withdrawn[deployed[i].build])
           /\ \A m \in n : x = 0 \/ m <= x => m \in s
      <3>1. s \subseteq z
        BY <2>9, <2>11
      <3>2. \A m \in n : x = 0 \/ m <= x => m \in s
        <4> HIDE DEF set, now, body
        <4> QED
          BY <2>10, <2>11
      <3> QED
        BY <2>11, <3>1, <3>2
    <2> HIDE DEF body, set, after, view, start, now
    <2>14. /\ Release(i)' = Release(i) /\ Served(i)' /\ Fresh(i)'
           /\ Shown(i, deployed[i].since)' = z
           /\ Shown(i, withdrawn[deployed[i].build])' = n
      BY <1>2, <2>2, <2>12, <2>13 DEF Release, Saw, Served, Fresh, Shown
    <2>15. \A m \in n : (Reading' /\ m <= reader'.want.after) \/ At("done")' => m \in reader'.items
      BY <2>12, <2>13 DEF Reading, At
    <2>16. reader'.phase = "done" /\ reader'.manifest # NoBody =>
              reader'.release = reader'.manifest.release
      BY <2>12 DEF Agrees
    <2>17. reader'.clean \subseteq resolved'
      BY <1>2, <2>12 DEF IInv, ExportIsOnePass
    <2>18. ExportIsOnePass'
      BY <1>2, <2>3, <2>12, <2>13, <2>14, <2>15, <2>16, <2>17 DEF ExportIsOnePass, At
    <2> QED
      BY <1>1, <2>12, <2>18, AskingKeeps
  <1> QED
    BY <1>3, <1>4

-----------------------------------------------------------------------------
(* The theorems.                                                             *)

LEMMA NextKeeps ==
    ASSUME ReadsAssumption, IInv, [Next]_vars
    PROVE  IInv'
  <1>1. CASE Begin
    BY <1>1, BeginKeeps
  <1>2. CASE ReaderStep
    BY <1>2, AskKeeps, LimitAndWaitKeep, LoadKeeps, ReadManifestKeeps, ReadPageKeeps
       DEF ReaderStep
  <1>3. CASE Limit
    BY <1>3, LimitAndWaitKeep
  <1>4. CASE (\E e \in puts : Put(e)) \/ (\E e \in cache : Evict(e))
    BY <1>4, CacheKeeps
  <1>5. CASE Operator
    BY <1>5, ActivateKeeps, DeployKeeps, RetireKeeps, SuppressKeeps, BumpKeeps, PurgeKeeps,
       VerifyKeeps DEF Operator
  <1>6. CASE UNCHANGED vars
    <2>1. /\ UNCHANGED <<released, withdrawn, deployed, fleet, runbook, resolved, cache, puts,
                         reader>>
      BY <1>6 DEF vars, databaseVars, operatorVars
    <2>2. CopiesAreAnswers' /\ ExportIsOnePass'
      BY <2>1, CopiesRemain, ExportRemains
    <2>3. reader' \in Readers /\ cache' \cup puts' \subseteq [key : Keys, body : Bodies]
      BY <2>1, ReadersAreTyped DEF IInv, TypeOK
    <2> QED
      BY <2>1, <2>2, <2>3, BrowserKeeps
  <1> QED
    BY <1>1, <1>2, <1>3, <1>4, <1>5, <1>6 DEF Next

\* The types, and what releases, copies and the export are to each other, hold throughout.
THEOREM Invariance ==
    ASSUME ReadsAssumption
    PROVE  Spec => []IInv
  <1>1. Init => IInv
    BY InitHolds
  <1>2. IInv /\ [Next]_vars => IInv'
    BY NextKeeps
  <1> QED
    BY <1>1, <1>2, PTL DEF Spec

\* collectPersonalArchive and downloadMomentAuthorExport: a finished export holds all that
\* is public in one release's database, and nothing withdrawn before that release, however
\* many releases, isolates, copies and takedowns there were while it was read.
THEOREM ExportsHaveOneRelease ==
    ASSUME ReadsAssumption
    PROVE  Spec => []ExportsAreOneRelease
  <1>1. ASSUME IInv
        PROVE  ExportsAreOneRelease
    <2> SUFFICES ASSUME At("done")
                 PROVE  LET b == reader.release.build
                        IN  /\ Projection[b] \ withdrawn[b] \subseteq reader.items
                            /\ reader.items \subseteq
                                  Projection[b] \ deployed[reader.release.id].since
                            /\ reader.manifest # NoBody => reader.manifest.release.build = b
      BY DEF ExportsAreOneRelease
    <2>1. reader.release # NoRelease
      BY <1>1 DEF IInv, ExportIsOnePass, At
    <2>2. PICK i \in DOMAIN deployed :
             /\ reader.release = Release(i)
             /\ reader.items \subseteq Shown(i, deployed[i].since)
             /\ \A m \in Shown(i, withdrawn[deployed[i].build]) : m \in reader.items
      BY <1>1, <2>1 DEF IInv, ExportIsOnePass
    <2>3. reader.release.id = i /\ reader.release.build = deployed[i].build
      BY <2>2 DEF Release
    <2>4. reader.manifest # NoBody => reader.release = reader.manifest.release
      BY <1>1 DEF IInv, ExportIsOnePass
    <2> QED
      BY <2>2, <2>3, <2>4 DEF Shown
  <1>2. Spec => []IInv
    BY Invariance
  <1>3. IInv => ExportsAreOneRelease
    BY <1>1
  <1> QED
    BY <1>2, <1>3, PTL

\* "Suppression and takedown runbook": once the five steps are through, no export that
\* begins then receives the record, from whatever isolate, cache or late copy.
THEOREM TakedownsHold ==
    ASSUME ReadsAssumption
    PROVE  Spec => []TakedownHolds
  <1>1. ASSUME IInv
        PROVE  TakedownHolds
    <2> SUFFICES ASSUME reader.release # NoRelease, NEW m \in reader.items,
                        <<reader.release.build, m>> \in reader.clean
                 PROVE  FALSE
      BY DEF TakedownHolds
    <2>1. PICK i \in DOMAIN deployed :
             /\ reader.release = Release(i) /\ Served(i) /\ Fresh(i)
             /\ reader.items \subseteq Shown(i, deployed[i].since)
      BY <1>1 DEF IInv, ExportIsOnePass
    <2>2. m \in Moments
      BY <1>1, ReadersAreTyped DEF IInv, Readers
    <2>3. reader.release.build = deployed[i].db
      BY <2>1 DEF Release, Served
    <2>4. m \in deployed[i].since
      BY <2>1, <2>2, <2>3 DEF Fresh
    <2> QED
      BY <2>1, <2>4 DEF Shown
  <1>2. Spec => []IInv
    BY Invariance
  <1>3. IInv => TakedownHolds
    BY <1>1
  <1> QED
    BY <1>2, <1>3, PTL

-----------------------------------------------------------------------------
(* The ZIP of a site.                                                        *)

Calls == [at : {"new", "worker", "failed", "main", "zipped", "blob", "error", "cancelled"},
          ready : BOOLEAN, next : 0 .. Files, chunks : Seq(Nat), shown : 0 .. Files]
Compressors == [state : {"none", "running", "hung", "failed", "terminated"},
                started : BOOLEAN, completed : Nat]
Messages == [type : {"ready", "chunk", "progress", "error"}, n : Nat]

ZipTypes ==
    /\ call \in Calls /\ worker \in Compressors /\ aborted \in BOOLEAN
    /\ toPage \in Seq(Messages)

\* The chunks of the first n files.
Compressed(n) == [i \in 1 .. n |-> i]

\* What a worker says last of all, and after the completion of file n.
LastWords == IF worker.state = "failed" THEN <<Zip!Say("error", 0)>> ELSE <<>>
After(n) == IF n = Files THEN <<Zip!Say("chunk", Zip!Directory)>> \o LastWords ELSE LastWords

\* The page and its worker have one thing in hand at a time: what is on its way to
\* either of them continues what the page has heard.
Waking ==
    /\ ~call.ready /\ call.next = 0 /\ call.chunks = <<>> /\ worker.completed = 0
    /\ \/ toWorker = <<[type |-> "start", file |-> 0]>> /\ toPage = LastWords
       \/ toWorker = <<>> /\ toPage = <<Zip!Say("ready", 0)>> \o LastWords /\ worker.started
Handed(n) ==
    /\ toWorker = <<[type |-> "file", file |-> n]>> /\ toPage = LastWords
    /\ worker.completed + 1 = n /\ call.chunks = Compressed(n - 1)
Sent(n) ==
    /\ toWorker = <<>> /\ worker.completed = n
    /\ toPage = <<Zip!Say("chunk", n)>> \o (<<Zip!Say("progress", n)>> \o After(n))
    /\ call.chunks = Compressed(n - 1)
Told(n) ==
    /\ toWorker = <<>> /\ worker.completed = n
    /\ toPage = <<Zip!Say("progress", n)>> \o After(n)
    /\ call.chunks = Compressed(n)
Ending(n) ==
    /\ n = Files /\ toWorker = <<>> /\ worker.completed = n
    /\ toPage = After(n) /\ call.chunks = Compressed(n)
InHand ==
    \/ Waking
    \/ /\ call.ready /\ worker.started /\ call.next \in 1 .. Files
       /\ Handed(call.next) \/ Sent(call.next) \/ Told(call.next) \/ Ending(call.next)

WorkerIsInStep ==
    call.at = "worker" => /\ Files # 0 /\ worker.state \in {"running", "hung", "failed"}
                          /\ InHand
MainIsInStep == call.at = "main" => call.chunks = Compressed(call.next)
PageEnds ==
    /\ Zip!WorkerIsReleased /\ Zip!AbortIsFinal
    /\ call.at \in {"zipped", "blob"} => call.chunks = Zip!Whole
    /\ call.at # "worker" => toPage = <<>>
    /\ call.at = "new" => call.next = 0 /\ call.chunks = <<>> /\ ~call.ready

ZipInv == ZipTypes /\ WorkerIsInStep /\ MainIsInStep /\ PageEnds

LEMMA OneMoreChunk ==
    ASSUME NEW n \in Nat
    PROVE  /\ Append(Compressed(n), n + 1) = Compressed(n + 1)
           /\ Compressed(n) \in Seq(Nat) /\ Compressed(0) = <<>>
BY DEF Compressed

LEMMA LastChunk ==
    ASSUME Files \in Nat
    PROVE  Append(Compressed(Files), Zip!Directory) = Zip!Whole
BY DEF Compressed, Zip!Whole, Zip!Directory

LEMMA Queues ==
    ASSUME NEW a \in Messages, NEW s \in Seq(Messages)
    PROVE  /\ <<a>> \o s \in Seq(Messages) /\ <<a>> \o s # <<>>
           /\ Head(<<a>> \o s) = a /\ Tail(<<a>> \o s) = s
           /\ s \o <<>> = s /\ <<>> \o s = s
           /\ \A t \in Seq(Messages) : (<<a>> \o s) \o t = <<a>> \o (s \o t)
OBVIOUS

LEMMA ZipInit ==
    ASSUME Zip!SiteZipAssumption, Zip!Init
    PROVE  ZipInv
<1>1. worker \in Compressors /\ worker.state = "none"
  BY DEF Zip!Init, Zip!NewWorker, Compressors
<1>2. call \in Calls
  BY DEF Zip!SiteZipAssumption, Zip!Init, Calls
<1>3. toPage \in Seq(Messages)
  BY DEF Zip!Init
<1> QED
  BY <1>1, <1>2, <1>3 DEF Zip!Init, ZipInv, ZipTypes, WorkerIsInStep, MainIsInStep, PageEnds,
     Zip!WorkerIsReleased, Zip!AbortIsFinal

LEMMA Words ==
    ASSUME ZipTypes
    PROVE  /\ LastWords \in Seq(Messages)
           /\ \A n \in 0 .. Files : After(n) \in Seq(Messages)
           /\ \A n \in Nat : Zip!Say("chunk", n) \in Messages /\ Zip!Say("progress", n) \in Messages
           /\ Zip!Say("ready", 0) \in Messages /\ Zip!Say("error", 0) \in Messages
<1>1. /\ \A n \in Nat : Zip!Say("chunk", n) \in Messages /\ Zip!Say("progress", n) \in Messages
      /\ Zip!Say("ready", 0) \in Messages /\ Zip!Say("error", 0) \in Messages
  BY DEF Zip!Say, Messages
<1>2. LastWords \in Seq(Messages)
  BY <1>1 DEF LastWords
<1>3. <<Zip!Say("chunk", Zip!Directory)>> \o LastWords \in Seq(Messages)
  BY <1>1, <1>2, Queues DEF Zip!Directory
<1> QED
  BY <1>1, <1>2, <1>3 DEF After

\* A promise that is settled leaves nothing on its way.
LEMMA SettledKeeps ==
    ASSUME ZipInv, call.at = "worker", NEW to \in Calls, Zip!Settle(to), UNCHANGED aborted,
           to.at = "failed" \/ (to.at = "zipped" /\ to.chunks = Zip!Whole)
    PROVE  ZipInv'
<1>1. worker' \in Compressors /\ worker'.state = "terminated"
  BY DEF ZipInv, ZipTypes, Zip!Settle, Compressors
<1>2. toPage' = <<>> /\ call' = to
  BY DEF Zip!Settle
<1>3. ZipTypes'
  BY <1>1, <1>2 DEF ZipInv, ZipTypes
<1> QED
  BY <1>1, <1>2, <1>3 DEF ZipInv, WorkerIsInStep, MainIsInStep, PageEnds, Zip!WorkerIsReleased,
     Zip!AbortIsFinal

LEMMA StartKeeps ==
    ASSUME Zip!SiteZipAssumption, ZipInv, Zip!Start
    PROVE  ZipInv'
<1> USE DEF Zip!Start, ZipInv
<1>1. call' \in Calls /\ call'.chunks = <<>> /\ call'.next = 0 /\ ~call'.ready
  BY DEF ZipTypes, Calls, PageEnds
<1>2. CASE UNCHANGED <<worker, toWorker>> /\ call'.at \in {"cancelled", "error", "failed", "main"}
  <2>1. ZipTypes'
    BY <1>1, <1>2 DEF ZipTypes
  <2>2. call'.at = "main" => call'.chunks = Compressed(0)
    BY <1>1, OneMoreChunk
  <2> QED
    BY <1>1, <1>2, <2>1, <2>2 DEF WorkerIsInStep, MainIsInStep, PageEnds, Zip!WorkerIsReleased,
       Zip!AbortIsFinal
<1>3. CASE /\ Files # 0 /\ call' = [call EXCEPT !.at = "worker"] /\ worker' = Zip!NewWorker
           /\ toWorker' = <<[type |-> "start", file |-> 0]>>
  <2>1. worker' \in Compressors /\ worker'.state = "running" /\ worker'.completed = 0
    BY <1>3 DEF Zip!NewWorker, Compressors
  <2>2. call'.at = "worker"
    BY <1>3 DEF ZipTypes, Calls
  <2>3. toPage' = <<>>
    BY <1>3 DEF PageEnds
  <2> QED
    BY <1>1, <1>3, <2>1, <2>2, <2>3 DEF ZipTypes, WorkerIsInStep, MainIsInStep, PageEnds,
       Zip!WorkerIsReleased, Zip!AbortIsFinal, InHand, Waking, LastWords
<1> QED
  BY <1>2, <1>3 DEF ZipTypes, Calls

LEMMA WakingHear ==
    ASSUME Zip!SiteZipAssumption, ZipInv, Zip!Hear, Waking
    PROVE  ZipInv'
<1> USE DEF ZipInv
<1>1. call.at = "worker" /\ toPage # <<>> /\ UNCHANGED aborted /\ call \in Calls /\ Files # 0
  BY DEF Zip!Hear, ZipTypes, WorkerIsInStep
<1>2. CASE toPage = LastWords
  <2>1. Head(toPage).type = "error"
    BY <1>1, <1>2 DEF LastWords, Zip!Say
  <2>2. Zip!Settle([call EXCEPT !.at = "failed"])
    BY <2>1 DEF Zip!Hear
  <2> QED
    BY <1>1, <2>2, SettledKeeps DEF Calls
<1>3. CASE toPage = <<Zip!Say("ready", 0)>> \o LastWords /\ toWorker = <<>> /\ worker.started
  <2>1. Head(toPage) = Zip!Say("ready", 0) /\ Tail(toPage) = LastWords
    BY <1>3, Words, Queues
  <2>2. Head(toPage).type = "ready" /\ ~call.ready /\ call.next = 0
    BY <2>1 DEF Zip!Say, Waking
  <2>3. /\ toPage' = LastWords /\ UNCHANGED worker
        /\ Zip!SendNext([call EXCEPT !.ready = TRUE])
    BY <2>1, <2>2 DEF Zip!Hear
  <2>4. DEFINE c == [call EXCEPT !.ready = TRUE]
  <2>5. c \in Calls /\ c.next = 0 /\ c.ready /\ c.at = "worker" /\ c.chunks = <<>>
    BY <1>1, <2>2 DEF Calls, Waking
  <2> HIDE DEF c
  <2>10. ~(0 >= Files) /\ 1 \in 0 .. Files
    BY <1>1 DEF Zip!SiteZipAssumption
  <2>11. Zip!SendNext(c)
    BY <2>3 DEF c
  <2>12. call' = [c EXCEPT !.next = 1]
    BY <2>5, <2>10, <2>11 DEF Zip!SendNext
  <2>6. toWorker' = <<[type |-> "file", file |-> 1]>>
    BY <1>3, <2>5, <2>10, <2>11 DEF Zip!SendNext
  <2>7. /\ call' \in Calls /\ call'.next = 1 /\ call'.ready /\ call'.at = "worker"
        /\ call'.chunks = <<>>
    BY <2>5, <2>10, <2>12 DEF Calls
  <2>8. Handed(1)'
    BY <2>3, <2>6, <2>7, OneMoreChunk DEF Handed, LastWords, Waking
  <2>9. ZipTypes' /\ 1 \in 1 .. Files
    BY <1>1, <2>3, <2>7, Words DEF ZipTypes, Zip!SiteZipAssumption
  <2> QED
    BY <1>1, <1>3, <2>3, <2>7, <2>8, <2>9 DEF WorkerIsInStep, InHand, MainIsInStep, PageEnds,
       Zip!WorkerIsReleased, Zip!AbortIsFinal
<1> QED
  BY <1>2, <1>3 DEF Waking

LEMMA HearKeeps ==
    ASSUME Zip!SiteZipAssumption, ZipInv, Zip!Hear
    PROVE  ZipInv'
<1> USE DEF ZipInv
<1>1. call.at = "worker" /\ toPage # <<>> /\ UNCHANGED aborted /\ call \in Calls /\ Files # 0
  BY DEF Zip!Hear, ZipTypes, WorkerIsInStep
<1>2. CASE Waking
  BY <1>2, WakingHear
<1>3. ASSUME NEW n \in 1 .. Files, n = call.next, call.ready, worker.started,
             Handed(n) \/ Sent(n) \/ Told(n) \/ Ending(n)
      PROVE  ZipInv'
  <2>1. n \in Nat /\ n \in 0 .. Files /\ n # Zip!Directory
    BY <1>3 DEF Zip!Directory, Zip!SiteZipAssumption
  <2>2. CASE Handed(n)
    <3>1. Head(toPage).type = "error"
      BY <1>1, <2>2 DEF LastWords, Zip!Say, Handed
    <3>2. Zip!Settle([call EXCEPT !.at = "failed"])
      BY <3>1 DEF Zip!Hear
    <3> QED
      BY <1>1, <3>2, SettledKeeps DEF Calls
  <2>3. CASE Sent(n)
    <3>1. <<Zip!Say("progress", n)>> \o After(n) \in Seq(Messages)
      BY <2>1, Words, Queues
    <3>2. /\ Head(toPage) = Zip!Say("chunk", n)
          /\ Tail(toPage) = <<Zip!Say("progress", n)>> \o After(n)
      BY <2>1, <2>3, <3>1, Words, Queues DEF Sent
    <3>3. Head(toPage).type = "chunk" /\ Head(toPage).n = n
      BY <3>2 DEF Zip!Say
    <3>4. /\ call' = [call EXCEPT !.chunks = Append(@, n)]
          /\ toPage' = <<Zip!Say("progress", n)>> \o After(n) /\ UNCHANGED <<worker, toWorker>>
      BY <2>1, <3>2, <3>3 DEF Zip!Hear
    <3>5. n - 1 \in Nat /\ (n - 1) + 1 = n
      BY <1>3 DEF Zip!SiteZipAssumption
    <3>6. Append(call.chunks, n) = Compressed(n) /\ Compressed(n) \in Seq(Nat)
      BY <2>1, <2>3, <3>5, OneMoreChunk DEF Sent
    <3>7. /\ call' \in Calls /\ call'.chunks = Compressed(n) /\ call'.at = "worker"
          /\ call'.next = n /\ call'.ready
      BY <1>1, <1>3, <3>4, <3>6 DEF Calls
    <3>8. Told(n)'
      BY <2>3, <3>4, <3>7 DEF Sent, Told, After, LastWords
    <3>9. ZipTypes'
      BY <1>1, <3>1, <3>4, <3>7 DEF ZipTypes
    <3> QED
      BY <1>1, <1>3, <3>4, <3>7, <3>8, <3>9 DEF WorkerIsInStep, InHand, MainIsInStep, PageEnds,
         Zip!WorkerIsReleased, Zip!AbortIsFinal
  <2>4. CASE Told(n)
    <3>2. /\ Head(toPage) = Zip!Say("progress", n) /\ Tail(toPage) = After(n)
          /\ After(n) \in Seq(Messages)
      BY <2>1, <2>4, Words, Queues DEF Told
    <3>3. Head(toPage).type = "progress" /\ Head(toPage).n = n
      BY <3>2 DEF Zip!Say
    <3> DEFINE c == [call EXCEPT !.shown = n]
    <3>4. toPage' = After(n) /\ UNCHANGED worker /\ Zip!SendNext(c)
      BY <1>3, <2>1, <3>2, <3>3 DEF Zip!Hear
    <3>5. /\ c \in Calls /\ c.next = n /\ c.ready /\ c.at = "worker"
          /\ c.chunks = Compressed(n)
      BY <1>1, <1>3, <2>1, <2>4 DEF Calls, Told
    <3>6. CASE n = Files
      <4>1. call' = c /\ UNCHANGED toWorker
        BY <3>4, <3>5, <3>6, <2>1 DEF Zip!SendNext
      <4> HIDE DEF c
      <4>2. Ending(n)'
        BY <2>4, <3>4, <3>5, <3>6, <4>1 DEF Ending, Told, After, LastWords
      <4>3. ZipTypes'
        BY <1>1, <3>2, <3>4, <3>5, <4>1 DEF ZipTypes
      <4> QED
        BY <1>1, <1>3, <3>4, <3>5, <4>1, <4>2, <4>3 DEF WorkerIsInStep, InHand, MainIsInStep,
           PageEnds, Zip!WorkerIsReleased, Zip!AbortIsFinal
    <3>7. CASE n # Files
      <4>0. ~(n >= Files) /\ n + 1 \in 1 .. Files /\ (n + 1) - 1 = n
        BY <1>3, <3>7 DEF Zip!SiteZipAssumption
      <4>1. /\ call' = [c EXCEPT !.next = n + 1]
            /\ toWorker' = Append(toWorker, [type |-> "file", file |-> n + 1])
        BY <3>4, <3>5, <4>0 DEF Zip!SendNext
      <4> HIDE DEF c
      <4>2. /\ call' \in Calls /\ call'.chunks = Compressed(n) /\ call'.at = "worker"
            /\ call'.next = n + 1 /\ call'.ready
        BY <3>5, <4>0, <4>1 DEF Calls
      <4>3. toWorker' = <<[type |-> "file", file |-> n + 1]>>
        BY <2>4, <4>1 DEF Told
      <4>4. toPage' = LastWords'
        BY <3>4, <3>7 DEF After, LastWords
      <4>5. Handed(n + 1)'
        BY <2>4, <3>4, <4>0, <4>2, <4>3, <4>4 DEF Handed, Told
      <4>6. ZipTypes'
        BY <1>1, <3>2, <3>4, <4>2 DEF ZipTypes
      <4> QED
        BY <1>1, <1>3, <3>4, <4>0, <4>2, <4>5, <4>6 DEF WorkerIsInStep, InHand, MainIsInStep,
           PageEnds, Zip!WorkerIsReleased, Zip!AbortIsFinal
    <3> QED
      BY <3>6, <3>7
  <2>5. CASE Ending(n)
    <3>1. /\ toPage = <<Zip!Say("chunk", Zip!Directory)>> \o LastWords
          /\ call.chunks = Compressed(Files)
      BY <2>5 DEF Ending, After
    <3>2. Head(toPage) = Zip!Say("chunk", Zip!Directory)
      BY <3>1, Words, Queues DEF Zip!Directory
    <3>3. Head(toPage).type = "chunk" /\ Head(toPage).n = Zip!Directory
      BY <3>2 DEF Zip!Say
    <3> DEFINE c == [[call EXCEPT !.chunks = Append(@, Zip!Directory)] EXCEPT !.at = "zipped"]
    <3>4. Zip!Settle(c)
      BY <3>3 DEF Zip!Hear
    <3>7. Append(call.chunks, Zip!Directory) \in Seq(Nat)
      BY <1>1 DEF Calls, Zip!Directory
    <3>5. c \in Calls /\ c.at = "zipped" /\ c.chunks = Append(call.chunks, Zip!Directory)
      BY <1>1, <3>7 DEF Calls
    <3>6. c.chunks = Zip!Whole
      BY <3>1, <3>5, LastChunk DEF Zip!SiteZipAssumption
    <3> HIDE DEF c
    <3> QED
      BY <1>1, <3>4, <3>5, <3>6, SettledKeeps
  <2> QED
    BY <1>3, <2>2, <2>3, <2>4, <2>5
<1> QED
  BY <1>1, <1>2, <1>3 DEF WorkerIsInStep, InHand

\* A worker that is running has said nothing last.
LEMMA CompressKeeps ==
    ASSUME Zip!SiteZipAssumption, ZipInv, Zip!Compress
    PROVE  ZipInv'
<1> USE DEF ZipInv
<1>1. /\ call.at = "worker" /\ worker.state = "running" /\ toWorker # <<>>
      /\ UNCHANGED <<call, aborted>> /\ worker \in Compressors /\ toPage \in Seq(Messages)
      /\ LastWords = <<>>
  BY DEF Zip!Compress, PageEnds, Zip!WorkerIsReleased, ZipTypes, LastWords
<1>2. CASE Waking
  <2>1. toWorker = <<[type |-> "start", file |-> 0]>> /\ toPage = <<>>
    BY <1>1, <1>2 DEF Waking
  <2>2. worker' = [worker EXCEPT !.started = TRUE] /\ toWorker' = <<>>
        /\ toPage' = toPage \o <<Zip!Say("ready", 0)>>
    BY <2>1 DEF Zip!Compress, Zip!Said
  <2>3. worker' \in Compressors /\ worker'.started /\ worker'.state = "running"
        /\ worker'.completed = worker.completed
    BY <1>1, <2>2 DEF Compressors
  <2>4. toPage' = <<Zip!Say("ready", 0)>> \o LastWords' /\ toPage' \in Seq(Messages)
    BY <2>1, <2>2, <2>3, Words, Queues DEF LastWords
  <2>5. Waking'
    BY <1>1, <1>2, <2>2, <2>3, <2>4 DEF Waking
  <2> QED
    BY <1>1, <2>3, <2>4, <2>5 DEF ZipTypes, WorkerIsInStep, InHand, MainIsInStep, PageEnds,
       Zip!WorkerIsReleased, Zip!AbortIsFinal
<1>3. ASSUME NEW n \in 1 .. Files, n = call.next, call.ready, worker.started,
             Handed(n) \/ Sent(n) \/ Told(n) \/ Ending(n)
      PROVE  ZipInv'
  <2>1. Handed(n) /\ n \in Nat /\ n \in 0 .. Files
    BY <1>1, <1>3 DEF Sent, Told, Ending, Zip!SiteZipAssumption
  <2>2. /\ Head(toWorker).type = "file" /\ Head(toWorker).file = n /\ Tail(toWorker) = <<>>
        /\ toPage = <<>> /\ worker.completed + 1 = n
    BY <1>1, <2>1 DEF Handed
  <2> DEFINE more == IF n = Files THEN <<Zip!Say("chunk", Zip!Directory)>> ELSE <<>>
  <2>3. worker' = [worker EXCEPT !.completed = n] /\ toWorker' = <<>>
        /\ toPage' = toPage \o (<<Zip!Say("chunk", n), Zip!Say("progress", n)>> \o more)
    BY <1>3, <2>2 DEF Zip!Compress, Zip!Said
  <2>4. worker' \in Compressors /\ worker'.started /\ worker'.state = "running"
        /\ worker'.completed = n
    BY <1>1, <1>3, <2>1, <2>3 DEF Compressors
  <2>5. more = After(n)' /\ more \in Seq(Messages)
    BY <2>4, Words, Queues DEF After, LastWords, Zip!Directory
  <2> HIDE DEF more
  <2>6. /\ toPage' = <<Zip!Say("chunk", n)>> \o (<<Zip!Say("progress", n)>> \o more)
        /\ toPage' \in Seq(Messages)
    <3> DEFINE c == Zip!Say("chunk", n)
               p == Zip!Say("progress", n)
    <3>1. c \in Messages /\ p \in Messages
      BY <2>1, Words
    <3> HIDE DEF c, p
    <3>5. <<c, p>> = <<c>> \o <<p>> /\ <<p>> \in Seq(Messages)
      <4>1. <<c, p>> = Append(<<c>>, p) /\ <<c>> \in Seq(Messages) /\ <<p>> \in Seq(Messages)
        BY <3>1
      <4> QED
        BY <3>1, <4>1, AppendIsConcat
    <3>6. (<<c>> \o <<p>>) \o more = <<c>> \o (<<p>> \o more)
      BY <2>5, <3>1, <3>5, Queues
    <3>2. /\ <<c, p>> \o more = <<c>> \o (<<p>> \o more)
          /\ <<c>> \o (<<p>> \o more) \in Seq(Messages)
      BY <2>5, <3>1, <3>5, <3>6, Queues
    <3>3. toPage' = <<>> \o (<<c, p>> \o more)
      BY <2>2, <2>3 DEF c, p
    <3>4. toPage' = <<c>> \o (<<p>> \o more)
      BY <3>2, <3>3, Queues
    <3> QED
      BY <3>2, <3>4 DEF c, p
  <2>7. Sent(n)'
    BY <1>1, <2>1, <2>3, <2>4, <2>5, <2>6 DEF Sent, Handed
  <2> QED
    BY <1>1, <1>3, <2>4, <2>6, <2>7 DEF ZipTypes, WorkerIsInStep, InHand, MainIsInStep, PageEnds,
       Zip!WorkerIsReleased, Zip!AbortIsFinal
<1> QED
  BY <1>1, <1>2, <1>3 DEF WorkerIsInStep, InHand

\* The error comes after everything that the worker has said.
LEMMA BreakKeeps ==
    ASSUME Zip!SiteZipAssumption, ZipInv, Zip!Break
    PROVE  ZipInv'
<1> USE DEF ZipInv
<1>1. /\ call.at = "worker" /\ worker.state = "running"
      /\ UNCHANGED <<call, toWorker, aborted>> /\ worker \in Compressors
      /\ toPage \in Seq(Messages) /\ LastWords = <<>>
  BY DEF Zip!Break, PageEnds, Zip!WorkerIsReleased, ZipTypes, LastWords
<1>2. CASE worker' = [worker EXCEPT !.state = "hung"] /\ UNCHANGED toPage
  <2>1. worker' \in Compressors /\ worker'.state = "hung" /\ worker'.completed = worker.completed
        /\ worker'.started = worker.started
    BY <1>1, <1>2 DEF Compressors
  <2>2. LastWords' = <<>>
    BY <2>1 DEF LastWords
  <2>3. InHand'
    BY <1>1, <1>2, <2>1, <2>2 DEF WorkerIsInStep, InHand, Waking, Handed, Sent, Told, Ending, After
  <2> QED
    BY <1>1, <1>2, <2>1, <2>3 DEF ZipTypes, WorkerIsInStep, MainIsInStep, PageEnds,
       Zip!WorkerIsReleased, Zip!AbortIsFinal
<1>3. CASE worker' = [worker EXCEPT !.state = "failed"]
           /\ toPage' = toPage \o <<Zip!Say("error", 0)>>
  <2> DEFINE e == <<Zip!Say("error", 0)>>
  <2>1. worker' \in Compressors /\ worker'.state = "failed" /\ worker'.completed = worker.completed
        /\ worker'.started = worker.started
    BY <1>1, <1>3 DEF Compressors
  <2>2. LastWords' = e /\ e \in Seq(Messages)
    BY <2>1, Words DEF LastWords
  <2>3. ASSUME NEW n \in 0 .. Files
        PROVE  After(n)' = After(n) \o e /\ After(n) \in Seq(Messages)
    <3> DEFINE d == Zip!Say("chunk", Zip!Directory)
    <3>1. d \in Messages /\ e \in Seq(Messages)
      BY <2>2, Words DEF Zip!Directory
    <3> HIDE DEF d, e
    <3>2. <<d>> \o <<>> = <<d>> /\ <<>> \o e = e /\ <<d>> \in Seq(Messages)
      BY <3>1, Queues
    <3>3. CASE n = Files
      BY <1>1, <2>2, <3>2, <3>3 DEF After, d
    <3>4. CASE n # Files
      BY <1>1, <2>2, <3>2, <3>4 DEF After, d
    <3> QED
      BY <3>3, <3>4
  <2> HIDE DEF e
  <2>4. ASSUME NEW m \in Messages, NEW s \in Seq(Messages)
        PROVE  (<<m>> \o s) \o e = <<m>> \o (s \o e)
    BY <2>2, <2>4
  <2>5. toPage' = toPage \o e /\ <<>> \o e = e /\ toPage \o e \in Seq(Messages)
    BY <1>1, <1>3, <2>2, Queues DEF e
  <2>6. CASE Waking
    <3>1. Waking'
      <4>1. CASE toPage = LastWords
        BY <1>1, <1>3, <2>1, <2>2, <2>5, <2>6, <4>1 DEF Waking
      <4>2. CASE toPage = <<Zip!Say("ready", 0)>> \o LastWords /\ toWorker = <<>> /\ worker.started
        <5>1. toPage' = <<Zip!Say("ready", 0)>> \o (LastWords \o e)
          BY <2>4, <2>5, <4>2, Words
        <5> QED
          BY <1>1, <2>1, <2>2, <2>5, <2>6, <4>2, <5>1 DEF Waking
      <4> QED
        BY <2>6, <4>1, <4>2 DEF Waking
    <3> QED
      BY <1>1, <2>1, <2>5, <3>1 DEF ZipTypes, WorkerIsInStep, InHand, MainIsInStep, PageEnds,
         Zip!WorkerIsReleased, Zip!AbortIsFinal
  <2>7. ASSUME NEW n \in 1 .. Files, n = call.next, call.ready, worker.started,
               Handed(n) \/ Sent(n) \/ Told(n) \/ Ending(n)
        PROVE  ZipInv'
    <3>0. n \in Nat /\ n \in 0 .. Files /\ Zip!Say("chunk", n) \in Messages
          /\ Zip!Say("progress", n) \in Messages /\ After(n) \in Seq(Messages)
      BY <2>7, Words DEF Zip!SiteZipAssumption
    <3>1. Handed(n) => Handed(n)'
      BY <1>1, <2>1, <2>2, <2>5 DEF Handed
    <3>2. <<Zip!Say("progress", n)>> \o After(n) \in Seq(Messages)
      BY <3>0, Queues
    <3>3. (<<Zip!Say("progress", n)>> \o After(n)) \o e = <<Zip!Say("progress", n)>> \o After(n)'
      BY <2>3, <2>4, <3>0
    <3>4. Sent(n) => Sent(n)'
      <4> SUFFICES ASSUME Sent(n)
                   PROVE  Sent(n)'
        OBVIOUS
      <4>1. toPage' = <<Zip!Say("chunk", n)>> \o ((<<Zip!Say("progress", n)>> \o After(n)) \o e)
        BY <2>4, <2>5, <3>0, <3>2 DEF Sent
      <4> QED
        BY <1>1, <2>1, <3>3, <4>1 DEF Sent
    <3>5. Told(n) => Told(n)'
      BY <1>1, <2>1, <2>5, <3>3 DEF Told
    <3>6. Ending(n) => Ending(n)'
      BY <1>1, <2>1, <2>3, <2>5, <3>0 DEF Ending
    <3> QED
      BY <1>1, <2>1, <2>5, <2>7, <3>1, <3>4, <3>5, <3>6 DEF ZipTypes, WorkerIsInStep, InHand,
         MainIsInStep, PageEnds, Zip!WorkerIsReleased, Zip!AbortIsFinal
  <2> QED
    BY <1>1, <2>6, <2>7 DEF WorkerIsInStep, InHand
<1> QED
  BY <1>2, <1>3 DEF Zip!Break, Zip!Said

LEMMA PageKeeps ==
    ASSUME Zip!SiteZipAssumption, ZipInv,
           Zip!FallBack \/ Zip!MainStep \/ Zip!MainFails \/ Zip!Return
    PROVE  ZipInv'
<1> USE DEF ZipInv
<1>1. call \in Calls /\ UNCHANGED <<worker, toWorker, toPage, aborted>> /\ call.at # "worker"
  BY DEF ZipTypes, Zip!FallBack, Zip!MainStep, Zip!MainFails, Zip!Return
<1>2. ASSUME call' \in Calls, call'.at \notin {"new", "worker"},
             call'.at \in {"zipped", "blob"} => call'.chunks = Zip!Whole,
             call'.at = "blob" => ~aborted, MainIsInStep'
      PROVE  ZipInv'
  BY <1>1, <1>2 DEF ZipTypes, WorkerIsInStep, PageEnds, Zip!WorkerIsReleased, Zip!AbortIsFinal
<1>3. CASE Zip!FallBack
  <2>1. 0 \in 0 .. Files /\ <<>> \in Seq(Nat) /\ Compressed(0) = <<>>
    BY OneMoreChunk DEF Zip!SiteZipAssumption
  <2>2. CASE aborted
    BY <1>1, <1>2, <1>3, <2>2 DEF Zip!FallBack, Calls, MainIsInStep
  <2>3. CASE ~aborted
    <3>1. call' = [call EXCEPT !.at = "main", !.next = 0, !.chunks = <<>>, !.shown = 0]
      BY <1>3, <2>3 DEF Zip!FallBack
    <3>2. call' \in Calls /\ call'.at = "main" /\ call'.next = 0 /\ call'.chunks = <<>>
      BY <1>1, <2>1, <3>1 DEF Calls
    <3> QED
      BY <1>2, <2>1, <3>2 DEF MainIsInStep
  <2> QED
    BY <2>2, <2>3
<1>4. CASE Zip!MainStep
  <2>1. call.at = "main" /\ call.next \in Nat /\ call.next \in 0 .. Files /\ Files \in Nat
        /\ call.chunks = Compressed(call.next)
    BY <1>1, <1>4 DEF Zip!MainStep, MainIsInStep, Calls, Zip!SiteZipAssumption
  <2>2. CASE aborted
    BY <1>1, <1>2, <1>4, <2>2 DEF Zip!MainStep, Calls, MainIsInStep
  <2>3. CASE ~aborted /\ call.next < Files
    <3>1. call' = [call EXCEPT !.next = call.next + 1,
                               !.chunks = Append(call.chunks, call.next + 1),
                               !.shown = call.next + 1]
      BY <1>4, <2>3 DEF Zip!MainStep
    <3>2. /\ Append(call.chunks, call.next + 1) = Compressed(call.next + 1)
          /\ Compressed(call.next + 1) \in Seq(Nat) /\ call.next + 1 \in 0 .. Files
      <4>1. call.next + 1 \in 0 .. Files /\ call.next + 1 \in Nat
        BY <2>1, <2>3
      <4> QED
        BY <2>1, <4>1, OneMoreChunk
    <3>3. call' \in Calls /\ call'.at = "main" /\ call'.next = call.next + 1
          /\ call'.chunks = Compressed(call.next + 1)
      BY <1>1, <2>1, <3>1, <3>2 DEF Calls
    <3> QED
      BY <1>2, <3>3 DEF MainIsInStep
  <2>4. CASE ~aborted /\ ~(call.next < Files)
    <3>1. call' = [call EXCEPT !.at = "zipped", !.chunks = Append(call.chunks, Zip!Directory)]
      BY <1>4, <2>4 DEF Zip!MainStep
    <3>2. Append(call.chunks, Zip!Directory) = Zip!Whole
      BY <2>1, <2>4, LastChunk
    <3>3. Append(call.chunks, Zip!Directory) \in Seq(Nat)
      BY <1>1 DEF Calls, Zip!Directory
    <3>4. call' \in Calls /\ call'.at = "zipped" /\ call'.chunks = Zip!Whole
      BY <1>1, <3>1, <3>2, <3>3 DEF Calls
    <3> QED
      BY <1>2, <3>4 DEF MainIsInStep
  <2> QED
    BY <2>2, <2>3, <2>4
<1>5. CASE Zip!MainFails
  BY <1>1, <1>2, <1>5 DEF Zip!MainFails, Calls, MainIsInStep
<1>6. CASE Zip!Return
  <2>1. call.chunks = Zip!Whole
    BY <1>6 DEF Zip!Return, PageEnds
  <2> QED
    BY <1>1, <1>2, <1>6, <2>1 DEF Zip!Return, Calls, MainIsInStep
<1> QED
  BY <1>3, <1>4, <1>5, <1>6

LEMMA ZipStep ==
    ASSUME Zip!SiteZipAssumption, ZipInv, [Zip!Next]_Zip!vars
    PROVE  ZipInv'
<1> USE DEF ZipInv
<1>1. CASE Zip!Watchdog \/ (Zip!Abort /\ call.at = "worker")
  <2>1. call.at = "worker" /\ Zip!Settle([call EXCEPT !.at = "failed"]) /\ call \in Calls
    BY <1>1 DEF Zip!Watchdog, Zip!Abort, ZipTypes
  <2>2. [call EXCEPT !.at = "failed"] \in Calls /\ [call EXCEPT !.at = "failed"].at = "failed"
    BY <2>1 DEF Calls
  <2>4. call' \in Calls /\ call'.at = "failed" /\ toPage' = <<>>
    BY <2>1, <2>2 DEF Zip!Settle
  <2>5. worker' \in Compressors /\ worker'.state = "terminated"
    BY <2>1 DEF Zip!Settle, ZipTypes, Compressors
  <2>6. aborted' \in BOOLEAN
    BY <1>1 DEF Zip!Watchdog, Zip!Abort, ZipTypes
  <2>3. ZipTypes' /\ call'.at = "failed" /\ toPage' = <<>> /\ worker'.state = "terminated"
    BY <2>4, <2>5, <2>6 DEF ZipTypes
  <2> QED
    BY <2>3 DEF WorkerIsInStep, MainIsInStep, PageEnds, Zip!WorkerIsReleased, Zip!AbortIsFinal
<1>2. CASE Zip!Abort /\ call.at # "worker"
  BY <1>2 DEF Zip!Abort, ZipTypes, WorkerIsInStep, MainIsInStep, PageEnds, Zip!WorkerIsReleased,
     Zip!AbortIsFinal
<1>3. CASE UNCHANGED Zip!vars
  BY <1>3 DEF Zip!vars, ZipTypes, WorkerIsInStep, MainIsInStep, PageEnds, Zip!WorkerIsReleased,
     Zip!AbortIsFinal, InHand, Waking, Handed, Sent, Told, Ending, After, LastWords
<1> QED
  BY <1>1, <1>2, <1>3, StartKeeps, HearKeeps, CompressKeeps, BreakKeeps, PageKeeps
  DEF Zip!Next, Zip!Page

\* What a site's ZIP promises, from whatever state its part is in step.
LEMMA ZipsAreWhole ==
    ASSUME ZipInv
    PROVE  Zip!ZipIsWhole /\ Zip!WorkerIsReleased /\ Zip!AbortIsFinal
BY DEF ZipInv, PageEnds, Zip!ZipIsWhole

-----------------------------------------------------------------------------
(* The image archive of an address.                                          *)

JobsOf(L, S) ==
    [at : {"idle", "loading", "asking", "reading", "failing", "done", "error"},
     index : Nat \ {0}, attempt : Nat, length : L, got : Nat, good : BOOLEAN,
     zip : Seq(S), out : Nat]
Destinations == [kind : {"none", "memory", "file"}, state : {"none", "open", "closed", "aborted"}]

\* An image in the ZIP is what entry e of the plan asks for.
Answers(image, e) ==
    /\ image.url = e.url /\ image.whole /\ e.bytes \in {0, image.bytes}
    /\ image.url \in Addressed => image.good /\ image.bytes = Stored[image.url]

\* The ZIP so far: the first images of the plan, one for one.
ZipFollowsPlan ==
    /\ Len(job.zip) = job.index - 1 /\ job.index <= Len(plan.entries) + 1
    /\ \A i \in 1 .. (job.index - 1) : Answers(job.zip[i], plan.entries[i])

ZipFits == job.out < MaxZip /\ (file.kind = "memory" => job.out <= MaxBlob)

ImagesTypes ==
    /\ \E L, S : job \in JobsOf(L, S)
    /\ file \in Destinations
    /\ Len(plan.entries) \in Nat /\ refs \in References

\* The destination is closed when the ZIP is done, and no sooner.
ClosedWhenDone ==
    /\ file.state = "closed" => job.at = "done"
    /\ job.at = "done" => job.index = Len(plan.entries) + 1
    /\ job.at = "idle" => job.index = 1 /\ job.out = 0
    /\ job.at = "reading" => job.index <= Len(plan.entries)

ImagesInv == ImagesTypes /\ ZipFollowsPlan /\ ZipFits /\ ClosedWhenDone

LEMMA SeqGrows ==
    ASSUME NEW S, NEW s \in Seq(S), NEW e
    PROVE  /\ Append(s, e) \in Seq(S \cup {e})
           /\ Len(s) \in Nat /\ Len(Append(s, e)) = Len(s) + 1
           /\ \A i \in 1 .. Len(s) : Append(s, e)[i] = s[i]
           /\ Append(s, e)[Len(s) + 1] = e
<1>2. s \in Seq(S \cup {e}) /\ e \in S \cup {e}
  OBVIOUS
<1>3. Append(s, e) \in Seq(S \cup {e})
  BY <1>2
<1> QED
  BY <1>2, <1>3, AppendProperties

\* The instance has the operators of FiniteSets in its own name.
LEMMA SameSizes ==
    ASSUME NEW S
    PROVE  Images!Cardinality(S) = Cardinality(S) /\ (Images!IsFiniteSet(S) <=> IsFiniteSet(S))
BY DEF Images!Cardinality, Cardinality, Images!IsFiniteSet, IsFiniteSet

\* createPersonalImageArchiveZip's plan has as many entries as there are images.
LEMMA PlanLength ==
    ASSUME Images!ImageArchiveAssumption, NEW r
    PROVE  Len(Images!Planned(r)) \in Nat
<1> DEFINE n == Images!Cardinality(Images!Referenced(r))
           url(i) == CHOOSE u \in Images!Referenced(r) :
                        Images!Cardinality({v \in Images!Referenced(r) : v < u}) = i - 1
           entry(i) == [url |-> url(i), bytes |-> Images!Expected(r, url(i))]
<1>1. n \in Nat
  <2>1. Images!Referenced(r) \in SUBSET Pinned
    BY DEF Images!Referenced
  <2>2. IsFiniteSet(Pinned)
    BY SameSizes DEF Images!ImageArchiveAssumption
  <2>3. IsFiniteSet(Images!Referenced(r))
    BY <2>1, <2>2, FS_Subset
  <2> QED
    BY <2>3, FS_CardinalityType, SameSizes
<1>2. Images!Planned(r) = [i \in 1 .. n |-> entry(i)]
  BY DEF Images!Planned
<1> HIDE DEF n, entry
<1>3. Images!Planned(r) \in Seq({entry(i) : i \in 1 .. n})
  BY <1>1, <1>2
<1> QED
  BY <1>3

\* A step that takes nothing into the ZIP.
LEMMA JobMoves ==
    ASSUME ImagesInv, UNCHANGED <<refs, plan>>,
           \E L, S : job' \in JobsOf(L, S), file' \in Destinations,
           job'.at \in {"loading", "asking", "reading", "failing", "error"},
           job'.at = "reading" => job.index <= Len(plan.entries),
           job'.index = job.index, job'.zip = job.zip, file'.state # "closed",
           job'.out < MaxZip, file'.kind = "memory" => job'.out <= MaxBlob
    PROVE  ImagesInv'
BY DEF ImagesInv, ImagesTypes, ZipFollowsPlan, Answers, ZipFits, ClosedWhenDone

LEMMA ImagesInit ==
    ASSUME Images!ImageArchiveAssumption, Images!Init
    PROVE  ImagesInv
<1>1. job = [at |-> "idle", index |-> 1, attempt |-> 1, length |-> 0, got |-> 0, good |-> TRUE,
             zip |-> <<>>, out |-> 0]
  BY DEF Images!Init, Images!Idle
<1>2. job \in JobsOf({0}, {})
  BY <1>1 DEF JobsOf
<1>3. file = [kind |-> "none", state |-> "none"]
  BY DEF Images!Init, Images!NoFile
<1>4. file \in Destinations
  BY <1>3 DEF Destinations
<1>5. Len(plan.entries) = 0 /\ refs \in References
  BY DEF Images!Init
<1> QED
  BY <1>1, <1>2, <1>3, <1>4, <1>5
  DEF ImagesInv, ImagesTypes, ZipFollowsPlan, ZipFits, ClosedWhenDone, Images!ImageArchiveAssumption

LEMMA ImagesStep ==
    ASSUME Images!ImageArchiveAssumption, ImagesInv, [Images!Next]_Images!vars
    PROVE  ImagesInv'
<1> USE DEF ImagesInv
<1>0. PICK L, S : job \in JobsOf(L, S)
  BY DEF ImagesTypes
<1>1. /\ MaxZip \in Nat \ {0} /\ MaxBlob \in Nat /\ file \in Destinations /\ job.out < MaxZip
      /\ file.kind = "memory" => job.out <= MaxBlob
  BY DEF ImagesTypes, ZipFits, Images!ImageArchiveAssumption
<1>2. ASSUME NEW s \in {"loading", "asking", "failing", "error"},
             job' = [job EXCEPT !.at = s], UNCHANGED <<refs, plan>>, file' \in Destinations,
             file'.state # "closed", file'.kind = file.kind
      PROVE  ImagesInv'
  <2>1. job' \in JobsOf(L, S) /\ job'.at = s /\ job'.index = job.index /\ job'.zip = job.zip
        /\ job'.out = job.out
    BY <1>0, <1>2 DEF JobsOf
  <2> QED
    BY <1>1, <1>2, <2>1, JobMoves
<1>3. job.at # "done" => file.state # "closed"
  BY DEF ClosedWhenDone
<1>4. CASE Images!BuildPlan
  <2>1. CASE job' = [job EXCEPT !.at = "error"] /\ UNCHANGED plan
    BY <1>1, <1>2, <1>3, <1>4, <2>1 DEF Images!BuildPlan
  <2>2. CASE plan' = [made |-> TRUE, entries |-> Images!Planned(refs)] /\ UNCHANGED job
    <3>1. Len(plan'.entries) \in Nat
      BY <2>2, PlanLength
    <3>2. job.index = 1 /\ job.at = "idle"
      BY <1>4 DEF Images!BuildPlan, ClosedWhenDone
    <3>3. 1 .. (job.index - 1) = {} /\ job.index <= Len(plan'.entries) + 1
      BY <3>1, <3>2
    <3> QED
      BY <1>0, <1>4, <2>2, <3>1, <3>2, <3>3 DEF Images!BuildPlan, ImagesTypes, ZipFollowsPlan,
         ZipFits, ClosedWhenDone
  <2> QED
    BY <1>4, <2>1, <2>2 DEF Images!BuildPlan
<1>5. ASSUME NEW kind \in {"memory", "file"}, Images!Save(kind)
      PROVE  ImagesInv'
  <2>1. job.at = "idle" /\ job.out = 0 /\ UNCHANGED <<refs, plan>>
    BY <1>5 DEF Images!Save, ClosedWhenDone
  <2>2. /\ file' \in Destinations /\ file'.state # "closed"
        /\ job' = [job EXCEPT !.at = "error"] \/ job' = [job EXCEPT !.at = "loading"]
    BY <1>5 DEF Images!Save, Images!NoFile, Destinations
  <2>3. job' \in JobsOf(L, S) /\ job'.at \in {"error", "loading"} /\ job'.index = job.index
        /\ job'.zip = job.zip /\ job'.out = 0
    BY <1>0, <2>1, <2>2 DEF JobsOf
  <2> QED
    BY <1>1, <2>1, <2>2, <2>3, JobMoves
<1>6. CASE Images!LoadCode
  BY <1>1, <1>2, <1>3, <1>6 DEF Images!LoadCode
<1>7. CASE Images!FetchImage
  <2>1. UNCHANGED <<refs, plan, file>> /\ job.at = "asking"
    BY <1>7 DEF Images!FetchImage
  <2>2. CASE job' = [job EXCEPT !.at = "failing"]
    BY <1>1, <1>2, <1>3, <2>1, <2>2
  <2>3. CASE job' = [job EXCEPT !.attempt = @ + 1]
    <3>1. job' \in JobsOf(L, S) /\ job'.at = "asking" /\ job'.index = job.index
          /\ job'.zip = job.zip /\ job'.out = job.out
      BY <1>0, <2>1, <2>3 DEF JobsOf
    <3> QED
      BY <1>1, <1>3, <2>1, <3>1, JobMoves
  <2>4. ASSUME NEW length,
               job' = [job EXCEPT !.at = "reading", !.length = length, !.got = 0, !.good = TRUE]
        PROVE  ImagesInv'
    <3>2. job.index <= Len(plan.entries)
      BY <1>7, <2>4 DEF Images!FetchImage, Images!Fail, Images!Again
    <3>1. job' \in JobsOf(L \cup {length}, S) /\ job'.at = "reading" /\ job'.index = job.index
          /\ job'.zip = job.zip /\ job'.out = job.out
      BY <1>0, <2>4 DEF JobsOf
    <3> QED
      BY <1>1, <1>3, <2>1, <3>1, <3>2, JobMoves
  <2> QED
    BY <1>7, <2>2, <2>3, <2>4 DEF Images!FetchImage, Images!Fail, Images!Again
<1>8. CASE Images!ReadChunk
  <2>1. UNCHANGED <<refs, plan, file>> /\ job.at = "reading"
    BY <1>8 DEF Images!ReadChunk
  <2>2. CASE job' = [job EXCEPT !.at = "failing"]
    BY <1>1, <1>2, <1>3, <2>1, <2>2
  <2>3. ASSUME NEW good \in BOOLEAN, Images!Fits(1),
               job' = [job EXCEPT !.got = @ + 1, !.out = @ + 1, !.good = @ /\ good]
        PROVE  ImagesInv'
    <3> DEFINE verified == job.good /\ good
    <3>0. verified \in BOOLEAN
      BY <1>0, <2>3 DEF JobsOf
    <3>2. PICK b \in BOOLEAN : job' = [job EXCEPT !.got = @ + 1, !.out = @ + 1, !.good = b]
      BY <2>3, <3>0, Zenon
    <3> HIDE DEF verified
    <3>4. job.got + 1 \in Nat /\ job.out + 1 \in Nat
      BY <1>0 DEF JobsOf
    <3>5. job' = [job EXCEPT !.got = job.got + 1, !.out = job.out + 1, !.good = b]
      BY <3>2
    <3>1. job' \in JobsOf(L, S) /\ job'.at = "reading" /\ job'.index = job.index
          /\ job'.zip = job.zip /\ job'.out = job.out + 1
      <4> DEFINE g == job.got + 1  o == job.out + 1
      <4>1. g \in Nat /\ o \in Nat /\ job' = [job EXCEPT !.got = g, !.out = o, !.good = b]
            /\ job.out + 1 = o
        BY <3>4, <3>5
      <4> HIDE DEF g, o
      <4>2. job \in JobsOf(L, S) /\ job.at = "reading"
        BY <1>0, <2>1
      <4>3. job' \in JobsOf(L, S) /\ job'.at = job.at /\ job'.index = job.index
            /\ job'.zip = job.zip /\ job'.out = o
        <5>1. \A j \in JobsOf(L, S) :
                /\ [j EXCEPT !.got = g, !.out = o, !.good = b] \in JobsOf(L, S)
                /\ [j EXCEPT !.got = g, !.out = o, !.good = b].at = j.at
                /\ [j EXCEPT !.got = g, !.out = o, !.good = b].index = j.index
                /\ [j EXCEPT !.got = g, !.out = o, !.good = b].zip = j.zip
                /\ [j EXCEPT !.got = g, !.out = o, !.good = b].out = o
          BY ONLY b \in BOOLEAN, <4>1 DEF JobsOf
        <5> QED
          BY ONLY <4>1, <4>2, <5>1
      <4> QED
        BY <4>1, <4>2, <4>3
    <3>3. job.index <= Len(plan.entries)
      BY <2>1 DEF ClosedWhenDone
    <3> QED
      BY <1>1, <1>3, <2>1, <2>3, <3>1, <3>3, JobMoves DEF Images!Fits
  <2> QED
    BY <1>8, <2>2, <2>3 DEF Images!ReadChunk, Images!Fail
<1>9. CASE Images!CloseEntry
  <2>1. UNCHANGED <<refs, plan, file>> /\ job.at = "reading"
    BY <1>9 DEF Images!CloseEntry
  <2>2. CASE job' = [job EXCEPT !.at = "failing"]
    BY <1>1, <1>2, <1>3, <2>1, <2>2
  <2> DEFINE image == [url |-> Images!Entry.url, bytes |-> job.got,
                       whole |-> job.got = job.length, good |-> job.good]
  <2>3. CASE /\ Images!Verifies
             /\ job' = [job EXCEPT !.at = "asking", !.index = @ + 1, !.attempt = 1,
                                   !.zip = Append(@, image)]
    <3>1. Answers(image, plan.entries[job.index])
      BY <2>3 DEF Images!Verifies, Images!Entry, Answers
    <3> HIDE DEF image
    <3>2. job.index \in Nat \ {0} /\ job.zip \in Seq(S) /\ Len(job.zip) = job.index - 1
      BY <1>0 DEF JobsOf, ZipFollowsPlan
    <3>3. /\ Append(job.zip, image) \in Seq(S \cup {image})
          /\ Len(Append(job.zip, image)) = job.index
          /\ \A i \in 1 .. (job.index - 1) : Append(job.zip, image)[i] = job.zip[i]
          /\ Append(job.zip, image)[job.index] = image
      BY <3>2, SeqGrows
    <3>4. job' \in JobsOf(L, S \cup {image}) /\ job'.at = "asking"
          /\ job'.index = job.index + 1 /\ job'.zip = Append(job.zip, image)
          /\ job'.out = job.out
      <4> DEFINE zip == Append(job.zip, image)
      <4>1. job.index + 1 \in Nat \ {0} /\ zip \in Seq(S \cup {image})
            /\ job' = [job EXCEPT !.at = "asking", !.index = job.index + 1, !.attempt = 1,
                                  !.zip = zip]
        BY <2>3, <3>2, <3>3
      <4> HIDE DEF zip
      <4>2. job' \in JobsOf(L, S \cup {image}) /\ job'.at = "asking"
            /\ job'.index = job.index + 1 /\ job'.zip = zip /\ job'.out = job.out
        BY <1>0, <4>1 DEF JobsOf
      <4> QED
        BY <4>2 DEF zip
    <3>5. \A i \in 1 .. (job'.index - 1) : Answers(job'.zip[i], plan.entries[i])
      BY <3>1, <3>2, <3>3, <3>4 DEF ZipFollowsPlan
    <3>6. job.index <= Len(plan.entries)
      BY <2>1 DEF ClosedWhenDone
    <3> QED
      <4>1. ImagesTypes'
        BY <2>1, <3>4 DEF ImagesTypes
      <4>2. ZipFollowsPlan'
        <5>1. Len(plan.entries) \in Nat /\ job'.index <= Len(plan'.entries) + 1
          BY <2>1, <3>2, <3>4, <3>6 DEF ImagesTypes
        <5>2. Len(job'.zip) = job'.index - 1
          BY <3>2, <3>3, <3>4
        <5>3. \A i \in 1 .. (job'.index - 1) : Answers(job'.zip[i], plan'.entries[i])
          BY <2>1, <3>5
        <5> QED
          BY <5>1, <5>2, <5>3 DEF ZipFollowsPlan, Answers
      <4> QED
        BY <1>1, <1>3, <2>1, <3>4, <4>1, <4>2 DEF ZipFits, ClosedWhenDone
  <2> QED
    BY <1>9, <2>2, <2>3 DEF Images!CloseEntry, Images!Fail
<1>10. CASE Images!Finish
  <2>1. UNCHANGED <<refs, plan>> /\ job.at = "asking" /\ job.index > Len(plan.entries)
    BY <1>10 DEF Images!Finish
  <2>2. CASE job' = [job EXCEPT !.at = "failing"] /\ UNCHANGED file
    BY <1>1, <1>2, <1>3, <2>1, <2>2
  <2>3. CASE job' = [job EXCEPT !.at = "done"] /\ file' = [file EXCEPT !.state = "closed"]
    <3>1. job' \in JobsOf(L, S) /\ job'.at = "done" /\ job'.index = job.index
          /\ job'.zip = job.zip /\ job'.out = job.out
      BY <1>0, <2>3 DEF JobsOf
    <3>2. file' \in Destinations /\ file'.kind = file.kind
      BY <1>1, <2>3 DEF Destinations
    <3>3. job.index = Len(plan.entries) + 1
      BY <1>0, <2>1 DEF ZipFollowsPlan, ImagesTypes, JobsOf
    <3> QED
      BY <1>1, <2>1, <3>1, <3>2, <3>3 DEF ImagesTypes, ZipFollowsPlan, ZipFits, ClosedWhenDone,
         Answers
  <2> QED
    BY <1>10, <2>2, <2>3 DEF Images!Finish, Images!Fail
<1>11. CASE Images!CleanUp
  <2>1. file' \in Destinations /\ file'.state # "closed" /\ file'.kind = file.kind
    BY <1>1, <1>11 DEF Images!CleanUp, Destinations
  <2> QED
    BY <1>2, <1>11, <2>1 DEF Images!CleanUp
<1>12. CASE Images!Abort \/ UNCHANGED Images!vars
  BY <1>12 DEF Images!Abort, Images!vars, ImagesTypes, ZipFollowsPlan, ZipFits, ClosedWhenDone,
     Answers
<1> QED
  BY <1>4, <1>5, <1>6, <1>7, <1>8, <1>9, <1>10, <1>11, <1>12 DEF Images!Next, Images!Work

LEMMA ImagesAreWhole ==
    ASSUME ImagesInv
    PROVE  Images!SavedIsWhole
<1>0. PICK L, S : job \in JobsOf(L, S)
  BY DEF ImagesInv, ImagesTypes
<1>1. /\ job.zip \in Seq(S) /\ job.index \in Nat /\ Len(plan.entries) \in Nat
      /\ Len(job.zip) = job.index - 1
  BY <1>0 DEF JobsOf, ImagesInv, ImagesTypes, ZipFollowsPlan
<1>2. DOMAIN job.zip = 1 .. (job.index - 1)
  BY <1>1
<1>3. ASSUME file.state = "closed"
      PROVE  job.at = "done" /\ Len(job.zip) = Len(plan.entries)
  BY <1>1, <1>3 DEF ImagesInv, ClosedWhenDone
<1> QED
  BY <1>2, <1>3 DEF ImagesInv, ZipFollowsPlan, ZipFits, Answers, Images!SavedIsWhole

-----------------------------------------------------------------------------
(* The listings of the Worker.                                               *)

PageConfig(i) == Pages!Config(i)
Source(i, kind) == PageConfig(i)[Pages!Db(kind)]

ClientPhases == {"idle", "asking", "streaming", "done", "refused", "failed"}

IsCursor(c) == c = [p |-> c.p, key |-> c.key, s |-> c.s, f |-> c.f] /\ c.p \in Nat

PagesTypes ==
    /\ configs \in 1 .. Len(PageDeployments) /\ isolates \subseteq 1 .. configs
    /\ client = [phase |-> client.phase, kind |-> client.kind, cursor |-> client.cursor,
                 at |-> client.at, rows |-> client.rows, sources |-> client.sources,
                 since |-> client.since]
    /\ client.phase \in ClientPhases /\ client.kind \in PageKinds
    /\ client.since \subseteq 1 .. configs /\ IsCursor(client.cursor)

\* A copy is what a configuration that was deployed answered, under the key it gave.
CopiesAreLoads ==
    \A e \in edge :
        /\ e.kind \in PageKinds
        /\ \E j \in DOMAIN PageDeployments :
              /\ j \in 1 .. configs
              /\ e.key = Pages!CacheKey(PageConfig(j), e.kind, e.cursor)
              /\ e.answer = Pages!Answer(PageConfig(j), e.kind, e.cursor)

\* Whoever began under the newest configuration alone has had no other since.
NewestIsAlone == client.since = {configs} => isolates = {configs}

\* The cursor is of the snapshot that all the pages so far came from.
PagesFollowTheCursor ==
    LET db == Pages!Db(client.kind)
    IN /\ \A r, s \in client.sources : r[db].snapshot = s[db].snapshot
       /\ client.phase = "idle" => client.cursor = Pages!Start /\ client.since = {}
       /\ client.phase \in {"idle", "asking"} /\ client.cursor = Pages!Start => client.sources = {}
       /\ client.phase = "asking" /\ client.cursor # Pages!Start =>
             \A s \in client.sources : s[db].snapshot = client.cursor.s

\* A cursor that one configuration alone has given is its own.
CursorIsOfTheNewest ==
    client.since = {configs} /\ client.phase = "asking" /\ client.cursor # Pages!Start =>
        /\ client.cursor.s = Source(configs, client.kind).snapshot
        /\ client.cursor.f = Pages!Filter(PageConfig(configs), client.kind)

PagesInv ==
    /\ PagesTypes /\ CopiesAreLoads /\ NewestIsAlone /\ PagesFollowTheCursor
    /\ CursorIsOfTheNewest /\ Pages!CursorsAreAccepted

\* The databases of which the key of a listing names the release.
Agreed(kind) ==
    IF kind \in Pages!OfCollections THEN {"collections"} ELSE Pages!Reads(kind)

PagesAreGiven == Pages!ApiPagesAssumption /\ Pages!ReleasesAreIdentified

LEMMA KeyParts ==
    ASSUME NEW a, NEW b, NEW c, NEW d, NEW e, NEW f
    PROVE  LET one == <<a, b, c>> \o <<d>>
               two == <<a, b, c>> \o <<d, e>>
               three == <<a, b, c>> \o <<d, e, f>>
           IN /\ one[1] = a /\ one[2] = b /\ one[3] = c /\ one[4] = d
              /\ two[1] = a /\ two[2] = b /\ two[3] = c /\ two[4] = d /\ two[5] = e
              /\ three[1] = a /\ three[2] = b /\ three[3] = c /\ three[4] = d /\ three[5] = e
              /\ three[6] = f
OBVIOUS

\* Each listing is of one kind of database, which its key tells.
LEMMA KindsOfDatabases ==
    ASSUME PagesAreGiven, NEW kind \in PageKinds
    PROVE  /\ Pages!Db(kind) \in Agreed(kind) /\ Agreed(kind) \subseteq Pages!Reads(kind)
           /\ kind \in {"authored", "tagged", "capsules"} => "moments" \in Agreed(kind)
           /\ \/ kind \in Pages!OfDrops /\ Agreed(kind) = {"catalog"}
              \/ kind \in Pages!OfHoldings /\ Agreed(kind) = {"catalog", "holdings", "collections"}
              \/ kind \in Pages!OfCollections /\ Agreed(kind) = {"collections"}
              \/ kind \in Pages!OfMoments /\ Agreed(kind) = {"moments"}
           /\ kind \notin Pages!CardListings => Pages!Reads(kind) = Agreed(kind)
           /\ kind \in Pages!CardListings =>
                 /\ Pages!Reads(kind) = {"catalog", "collections"}
                 /\ Agreed(kind) = {"collections"}
<1>1. \/ kind \in Pages!OfDrops \/ kind \in Pages!OfHoldings
      \/ kind \in Pages!OfCollections \/ kind \in Pages!OfMoments
  BY DEF PagesAreGiven, Pages!ApiPagesAssumption
<1> USE DEF Pages!OfDrops, Pages!OfHoldings, Pages!OfCollections, Pages!OfMoments,
        Pages!Reads, Pages!CardListings, Agreed, Pages!Db
<1>2. CASE kind \in Pages!OfDrops
  BY <1>2
<1>3. CASE kind \in Pages!OfHoldings
  BY <1>3
<1>4. CASE kind \in Pages!OfCollections
  BY <1>4
<1>5. CASE kind \in Pages!OfMoments
  BY <1>5
<1> QED
  BY <1>1, <1>2, <1>3, <1>4, <1>5

\* Two configurations that agree on what a listing's key tells answer it alike; the
\* catalogs of two cards may differ.
LEMMA AnswersAreOfTheirReads ==
    ASSUME PagesAreGiven, NEW kind \in PageKinds, NEW cursor, NEW c, NEW k,
           \A d \in Agreed(kind) : c[d] = k[d]
    PROVE  LET a == Pages!Answer(c, kind, cursor)
               b == Pages!Answer(k, kind, cursor)
           IN /\ a.next = b.next /\ \A d \in Agreed(kind) : a.sources[d] = b.sources[d]
              /\ kind \notin Pages!CardListings => a = b
              /\ kind \in Pages!CardListings =>
                    a = [b EXCEPT !.sources["catalog"] = c.catalog]
<1>1. c[Pages!Db(kind)] = k[Pages!Db(kind)]
  BY KindsOfDatabases
<1>2. Pages!Filter(c, kind) = Pages!Filter(k, kind)
  BY KindsOfDatabases DEF Pages!Filter
<1>3. \A t : Pages!NextCursor(c, kind, t, cursor) = Pages!NextCursor(k, kind, t, cursor)
  BY <1>1, <1>2 DEF Pages!NextCursor
<1> DEFINE of(x) == [e \in Pages!Reads(kind) |-> x[e]]
<1>4. \A d \in Agreed(kind) : of(c)[d] = of(k)[d]
  BY KindsOfDatabases
<1>5. kind \notin Pages!CardListings => of(c) = of(k)
  BY <1>4, KindsOfDatabases
<1>6. kind \in Pages!CardListings => of(c) = [of(k) EXCEPT !["catalog"] = c.catalog]
  <2> SUFFICES ASSUME kind \in Pages!CardListings
               PROVE  of(c) = [of(k) EXCEPT !["catalog"] = c.catalog]
    OBVIOUS
  <2>1. Pages!Reads(kind) = {"catalog", "collections"} /\ c["collections"] = k["collections"]
    BY KindsOfDatabases
  <2>2. of(c) = [e \in {"catalog", "collections"} |-> c[e]]
    BY <2>1
  <2>3. of(k) = [e \in {"catalog", "collections"} |-> k[e]]
    BY <2>1
  <2> HIDE DEF of
  <2> QED
    BY <2>1, <2>2, <2>3
<1>7. \A x : Pages!Answer(x, kind, cursor) =
              [rows |-> Pages!Shown(kind, PageTables[x[Pages!Db(kind)]], cursor.key),
               next |-> Pages!NextCursor(x, kind, PageTables[x[Pages!Db(kind)]], cursor),
               sources |-> of(x)]
  BY DEF Pages!Answer
<1> HIDE DEF of
<1>8. Pages!Answer(c, kind, cursor) =
              [rows |-> Pages!Shown(kind, PageTables[k[Pages!Db(kind)]], cursor.key),
               next |-> Pages!NextCursor(k, kind, PageTables[k[Pages!Db(kind)]], cursor),
               sources |-> of(c)]
  BY <1>1, <1>3, <1>7
<1> DEFINE a == Pages!Answer(c, kind, cursor)
           b == Pages!Answer(k, kind, cursor)
           rows == Pages!Shown(kind, PageTables[k[Pages!Db(kind)]], cursor.key)
           next == Pages!NextCursor(k, kind, PageTables[k[Pages!Db(kind)]], cursor)
<1>9. /\ a = [rows |-> rows, next |-> next, sources |-> of(c)]
      /\ b = [rows |-> rows, next |-> next, sources |-> of(k)]
  BY <1>7, <1>8
<1> HIDE DEF a, b, rows, next
<1>10. a.next = b.next /\ a.sources = of(c) /\ b.sources = of(k)
  BY <1>9
<1>11. kind \notin Pages!CardListings => a = b
  BY <1>5, <1>9
<1>12. a = [b EXCEPT !.sources = of(c)]
  BY <1>9
<1>13. kind \in Pages!CardListings => a = [b EXCEPT !.sources["catalog"] = c.catalog]
  BY <1>6, <1>10, <1>12
<1> QED
  BY <1>4, <1>10, <1>11, <1>13 DEF a, b

\* "Cache keys must include the active snapshot ID plus every normalized input": the key
\* tells the release of every database of which it is told.
LEMMA KeysTell ==
    ASSUME PagesAreGiven, NEW i \in DOMAIN PageDeployments, NEW j \in DOMAIN PageDeployments,
           NEW kind \in PageKinds, NEW cursor,
           Pages!CacheKey(PageConfig(i), kind, cursor) = Pages!CacheKey(PageConfig(j), kind, cursor)
    PROVE  \A d \in Agreed(kind) : PageConfig(i)[d] = PageConfig(j)[d]
<1> DEFINE c == PageConfig(i)  k == PageConfig(j)
<1>1. /\ c.api = k.api =>
           /\ c.catalog.snapshot = k.catalog.snapshot => c.catalog = k.catalog
           /\ c.holdings.snapshot = k.holdings.snapshot => c.holdings = k.holdings
           /\ c.collections.id = k.collections.id => c.collections = k.collections
           /\ Pages!KeyOfMoments(c) = Pages!KeyOfMoments(k) => c.moments = k.moments
  BY DEF PagesAreGiven, Pages!ReleasesAreIdentified, PageConfig
<1>2. Pages!CacheKey(c, kind, cursor) = Pages!CacheKey(k, kind, cursor)
  OBVIOUS
<1> HIDE DEF c, k
<1> SUFFICES \A d \in Agreed(kind) : c[d] = k[d]
  BY DEF c, k
<1>3. CASE kind \in Pages!OfDrops /\ Agreed(kind) = {"catalog"}
  <2>1. /\ kind \notin Pages!OfHoldings /\ kind \notin Pages!OfCollections
        /\ kind \notin Pages!OfMoments
    BY <1>3 DEF Pages!OfDrops, Pages!OfHoldings, Pages!OfCollections, Pages!OfMoments
  <2>2. <<kind, cursor, c.api>> \o <<c.catalog.snapshot>>
          = <<kind, cursor, k.api>> \o <<k.catalog.snapshot>>
    BY <1>2, <1>3, <2>1 DEF Pages!CacheKey, Pages!KeyOfDrops
  <2>3. c.api = k.api /\ c.catalog.snapshot = k.catalog.snapshot
    BY <2>2, KeyParts
  <2> QED
    BY <1>1, <1>3, <2>3
<1>4. CASE kind \in Pages!OfHoldings /\ Agreed(kind) = {"catalog", "holdings", "collections"}
  <2>1. /\ kind \notin Pages!OfDrops /\ kind \notin Pages!OfCollections
        /\ kind \notin Pages!OfMoments
    BY <1>4 DEF Pages!OfDrops, Pages!OfHoldings, Pages!OfCollections, Pages!OfMoments
  <2>2. <<kind, cursor, c.api>> \o <<c.holdings.snapshot, c.catalog.snapshot, c.collections.id>>
          = <<kind, cursor, k.api>> \o <<k.holdings.snapshot, k.catalog.snapshot, k.collections.id>>
    BY <1>2, <1>4, <2>1 DEF Pages!CacheKey, Pages!KeyOfHoldings
  <2>3. /\ c.api = k.api /\ c.catalog.snapshot = k.catalog.snapshot
        /\ c.holdings.snapshot = k.holdings.snapshot /\ c.collections.id = k.collections.id
    BY <2>2, KeyParts
  <2> QED
    BY <1>1, <1>4, <2>3
<1>5. CASE kind \in Pages!OfCollections /\ Agreed(kind) = {"collections"}
  <2>1. /\ kind \notin Pages!OfHoldings /\ kind \notin Pages!OfDrops
        /\ kind \notin Pages!OfMoments
    BY <1>5 DEF Pages!OfDrops, Pages!OfHoldings, Pages!OfCollections, Pages!OfMoments
  <2>2. <<kind, cursor, c.api>> \o <<c.collections.snapshot, c.collections.id>>
          = <<kind, cursor, k.api>> \o <<k.collections.snapshot, k.collections.id>>
    BY <1>2, <1>5, <2>1 DEF Pages!CacheKey, Pages!KeyOfCollections
  <2>3. c.api = k.api /\ c.collections.id = k.collections.id
    BY <2>2, KeyParts
  <2> QED
    BY <1>1, <1>5, <2>3
<1>6. CASE kind \in Pages!OfMoments /\ Agreed(kind) = {"moments"}
  <2>1. /\ kind \notin Pages!OfHoldings /\ kind \notin Pages!OfCollections
        /\ kind \notin Pages!OfDrops
    BY <1>6 DEF Pages!OfDrops, Pages!OfHoldings, Pages!OfCollections, Pages!OfMoments
  <2>2. <<kind, cursor, c.api>> \o <<c.moments.snapshot, c.moments.id>>
          = <<kind, cursor, k.api>> \o <<k.moments.snapshot, k.moments.id>>
    BY <1>2, <1>6, <2>1 DEF Pages!CacheKey, Pages!KeyOfMoments
  <2>3. c.api = k.api /\ c.moments.snapshot = k.moments.snapshot /\ c.moments.id = k.moments.id
    BY <2>2, KeyParts
  <2>4. Pages!KeyOfMoments(c) = Pages!KeyOfMoments(k)
    BY <2>3 DEF Pages!KeyOfMoments
  <2> QED
    BY <1>1, <1>6, <2>3, <2>4
<1> QED
  BY <1>3, <1>4, <1>5, <1>6, KindsOfDatabases

\* A key is of one listing and one cursor.
LEMMA KeysAreOfOnePage ==
    ASSUME PagesAreGiven, NEW c, NEW kind \in PageKinds, NEW cursor
    PROVE  /\ Pages!CacheKey(c, kind, cursor)[1] = kind
           /\ Pages!CacheKey(c, kind, cursor)[2] = cursor
<1>1. \/ kind \in Pages!OfDrops \/ kind \in Pages!OfHoldings
      \/ kind \in Pages!OfCollections \/ kind \in Pages!OfMoments
  BY KindsOfDatabases
<1>2. \/ Pages!CacheKey(c, kind, cursor) = <<kind, cursor, c.api>> \o Pages!KeyOfDrops(c)
      \/ Pages!CacheKey(c, kind, cursor) = <<kind, cursor, c.api>> \o Pages!KeyOfHoldings(c)
      \/ Pages!CacheKey(c, kind, cursor) = <<kind, cursor, c.api>> \o Pages!KeyOfCollections(c)
      \/ Pages!CacheKey(c, kind, cursor) = <<kind, cursor, c.api>> \o Pages!KeyOfMoments(c)
  BY <1>1 DEF Pages!CacheKey
<1> QED
  BY <1>2, KeyParts DEF Pages!KeyOfDrops, Pages!KeyOfHoldings, Pages!KeyOfCollections,
     Pages!KeyOfMoments

\* What an answer under configuration i carries on: its cursor, and the release of its
\* own database.
Carries(answer, i, kind) ==
    /\ IsCursor(answer.next)
    /\ answer.sources[Pages!Db(kind)] = Source(i, kind)
    /\ answer.next # Pages!Start =>
          /\ answer.next.s = Source(i, kind).snapshot
          /\ answer.next.f = Pages!Filter(PageConfig(i), kind)

LEMMA AnswersCarry ==
    ASSUME PagesAreGiven, NEW kind \in PageKinds, NEW cursor, cursor.p \in Nat, NEW i
    PROVE  Carries(Pages!Answer(PageConfig(i), kind, cursor), i, kind)
<1>1. Pages!Db(kind) \in Pages!Reads(kind)
  BY KindsOfDatabases
<1>2. \A t : Pages!NextCursor(PageConfig(i), kind, t, cursor) # Pages!Start =>
          /\ Pages!NextCursor(PageConfig(i), kind, t, cursor).s = Source(i, kind).snapshot
          /\ Pages!NextCursor(PageConfig(i), kind, t, cursor).f = Pages!Filter(PageConfig(i), kind)
  BY DEF Pages!NextCursor, Source
<1>3. \A t : IsCursor(Pages!NextCursor(PageConfig(i), kind, t, cursor))
  BY DEF Pages!NextCursor, Pages!Start, IsCursor
<1> QED
  BY <1>1, <1>2, <1>3 DEF Carries, Pages!Answer, Source

LEMMA ConfigsAreDeployments ==
    ASSUME PagesAreGiven, PagesTypes
    PROVE  /\ configs \in Nat /\ configs \in DOMAIN PageDeployments
           /\ \A i \in isolates : /\ i \in Nat /\ i <= configs /\ i \in 1 .. configs
                                  /\ i \in DOMAIN PageDeployments
<1>1. PageDeployments \in Seq(Pages!Range(PageDeployments))
  BY DEF PagesAreGiven, Pages!ApiPagesAssumption
<1>2. DOMAIN PageDeployments = 1 .. Len(PageDeployments) /\ Len(PageDeployments) \in Nat
  BY <1>1
<1> QED
  BY <1>2 DEF PagesTypes

LEMMA CopiesAreOfTheKey ==
    ASSUME PagesAreGiven, PagesTypes, CopiesAreLoads, NEW i \in isolates, NEW e \in edge,
           e.key = Pages!CacheKey(PageConfig(i), e.kind, e.cursor)
    PROVE  LET loaded == Pages!Answer(PageConfig(i), e.kind, e.cursor)
           IN /\ e.answer.next = loaded.next
              /\ \A d \in Agreed(e.kind) : e.answer.sources[d] = loaded.sources[d]
              /\ e.kind \notin Pages!CardListings => e.answer = loaded
              /\ e.kind \in Pages!CardListings => \E j \in 1 .. configs :
                    e.answer = [loaded EXCEPT !.sources["catalog"] = PageConfig(j).catalog]
<1>1. PICK j \in DOMAIN PageDeployments :
          /\ j \in 1 .. configs
          /\ e.key = Pages!CacheKey(PageConfig(j), e.kind, e.cursor)
          /\ e.answer = Pages!Answer(PageConfig(j), e.kind, e.cursor)
  BY DEF CopiesAreLoads
<1>2. e.kind \in PageKinds /\ i \in DOMAIN PageDeployments
  BY ConfigsAreDeployments DEF CopiesAreLoads
<1> DEFINE kind == e.kind  cursor == e.cursor
<1>4. Pages!CacheKey(PageConfig(j), kind, cursor) = Pages!CacheKey(PageConfig(i), kind, cursor)
  BY <1>1
<1>5. kind \in PageKinds
  BY <1>2
<1> HIDE DEF kind, cursor
<1>3. \A d \in Agreed(kind) : PageConfig(j)[d] = PageConfig(i)[d]
  BY <1>2, <1>4, <1>5, KeysTell
<1> QED
  BY <1>1, <1>3, <1>5, AnswersAreOfTheirReads DEF kind, cursor

LEMMA PagesInit ==
    ASSUME PagesAreGiven, Pages!Init
    PROVE  PagesInv
<1>1. PICK kind \in PageKinds : client = Pages!Idle(kind)
  BY DEF Pages!Init
<1>2. Len(PageDeployments) \in Nat \ {0}
  BY DEF PagesAreGiven, Pages!ApiPagesAssumption
<1> QED
  BY <1>1, <1>2 DEF Pages!Init, Pages!Idle, PagesInv, PagesTypes, CopiesAreLoads, NewestIsAlone,
     PagesFollowTheCursor, CursorIsOfTheNewest, Pages!CursorsAreAccepted, ClientPhases, IsCursor,
     Pages!Start


\* What a step of the reader alone leaves alone.
LEMMA ReaderSteps ==
    ASSUME CopiesAreLoads, UNCHANGED <<configs, edge>>
    PROVE  CopiesAreLoads'
BY DEF CopiesAreLoads

LEMMA BeginsKeep ==
    ASSUME PagesAreGiven, PagesInv, Pages!Begin
    PROVE  PagesInv'
<1>1. /\ client' = [client EXCEPT !.phase = "asking", !.since = isolates]
      /\ client.phase = "idle" /\ UNCHANGED <<configs, isolates, edge>>
  BY DEF Pages!Begin
<1>2. /\ client' = [phase |-> "asking", kind |-> client.kind, cursor |-> client.cursor,
                    at |-> client.at, rows |-> client.rows, sources |-> client.sources,
                    since |-> isolates]
  BY <1>1 DEF PagesInv, PagesTypes
<1>3. client.cursor = Pages!Start /\ client.sources = {}
  BY <1>1 DEF PagesInv, PagesFollowTheCursor
<1>4. CopiesAreLoads'
  BY <1>1, ReaderSteps DEF PagesInv
<1>5. PagesTypes'
  BY <1>1, <1>2 DEF PagesInv, PagesTypes, ClientPhases
<1>6. NewestIsAlone' /\ CursorIsOfTheNewest' /\ Pages!CursorsAreAccepted'
  BY <1>1, <1>2, <1>3 DEF NewestIsAlone, CursorIsOfTheNewest, Pages!CursorsAreAccepted
<1>7. PagesFollowTheCursor'
  BY <1>2, <1>3 DEF PagesFollowTheCursor
<1> QED
  BY <1>4, <1>5, <1>6, <1>7 DEF PagesInv

LEMMA TookKeeps ==
    ASSUME PagesAreGiven, PagesInv, Pages!Paged, NEW i \in isolates, NEW answer,
           Pages!CursorFits(PageConfig(i), client.kind, client.cursor),
           Carries(answer, i, client.kind),
           client' = Pages!Took(answer), UNCHANGED <<configs, isolates>>
    PROVE  /\ PagesTypes' /\ NewestIsAlone' /\ PagesFollowTheCursor' /\ CursorIsOfTheNewest'
           /\ Pages!CursorsAreAccepted'
<1> DEFINE db == Pages!Db(client.kind)  phase == IF answer.next = Pages!Start THEN "done" ELSE "asking"
           snapshot == Source(i, client.kind).snapshot
<1>1. client' = [phase |-> phase, kind |-> client.kind, cursor |-> answer.next, at |-> 0,
                 rows |-> client.rows \o answer.rows,
                 sources |-> client.sources \cup {answer.sources}, since |-> client.since]
  BY DEF PagesInv, PagesTypes, Pages!Took
<1>2. client.phase = "asking" /\ client.kind \in PageKinds /\ client.since \subseteq 1 .. configs
  BY DEF Pages!Paged, PagesInv, PagesTypes
<1>3. \A s \in client.sources : s[db].snapshot = snapshot
  <2>1. CASE client.cursor = Pages!Start
    BY <1>2, <2>1 DEF PagesInv, PagesFollowTheCursor
  <2>2. CASE client.cursor # Pages!Start
    <3>1. client.cursor.s = snapshot
      BY <2>2 DEF Pages!CursorFits, Source, PageConfig
    <3>2. \A s \in client.sources : s[db].snapshot = client.cursor.s
      BY <1>2, <2>2 DEF PagesInv, PagesFollowTheCursor
    <3> QED
      BY <3>1, <3>2
  <2> QED
    BY <2>1, <2>2
<1>4. answer.sources[db].snapshot = snapshot
  BY DEF Carries
<1>5. \A s \in client'.sources : s[db].snapshot = snapshot
  BY <1>1, <1>3, <1>4
<1>6. client'.kind = client.kind /\ client'.cursor = answer.next /\ client'.since = client.since
      /\ client'.phase = phase /\ phase \in {"done", "asking"}
      /\ (phase = "asking" => answer.next # Pages!Start)
  BY <1>1
<1>7. answer.next # Pages!Start =>
          answer.next.s = snapshot /\ answer.next.f = Pages!Filter(PageConfig(i), client.kind)
  BY DEF Carries
<1>8. client.since = {configs} => i = configs
  BY DEF PagesInv, NewestIsAlone
<1>9. PagesTypes'
  <2>1. /\ configs' \in 1 .. Len(PageDeployments) /\ isolates' \subseteq 1 .. configs'
    BY DEF PagesInv, PagesTypes
  <2>2. client' = [phase |-> client'.phase, kind |-> client'.kind, cursor |-> client'.cursor,
                   at |-> client'.at, rows |-> client'.rows, sources |-> client'.sources,
                   since |-> client'.since]
    BY <1>1
  <2> QED
    BY <1>2, <1>6, <2>1, <2>2 DEF PagesTypes, ClientPhases, Carries
<1>10. PagesFollowTheCursor'
  <2>1. (Pages!Db(client.kind))' = db
    BY <1>6 DEF Pages!Db
  <2> HIDE DEF phase, snapshot
  <2> QED
    BY <1>5, <1>6, <1>7, <2>1 DEF PagesFollowTheCursor
<1>11. CursorIsOfTheNewest'
  BY <1>6, <1>7, <1>8 DEF CursorIsOfTheNewest, Source, PageConfig, Pages!Config
<1>12. NewestIsAlone' /\ Pages!CursorsAreAccepted'
  BY <1>6 DEF PagesInv, NewestIsAlone, Pages!CursorsAreAccepted
<1> QED
  BY <1>9, <1>10, <1>11, <1>12

LEMMA RefuseKeeps ==
    ASSUME PagesAreGiven, PagesInv, NEW i \in isolates, Pages!Refuse(i)
    PROVE  PagesInv'
<1>1. /\ client.phase = "asking" /\ ~Pages!CursorFits(PageConfig(i), client.kind, client.cursor)
      /\ client' = [client EXCEPT !.phase = "refused"] /\ UNCHANGED <<configs, isolates, edge>>
  BY DEF Pages!Refuse, Pages!Paged, PageConfig
<1>2. client' = [phase |-> "refused", kind |-> client.kind, cursor |-> client.cursor,
                 at |-> client.at, rows |-> client.rows, sources |-> client.sources,
                 since |-> client.since]
  BY <1>1 DEF PagesInv, PagesTypes
<1>3. CopiesAreLoads'
  BY <1>1, ReaderSteps DEF PagesInv
<1>4. PagesTypes'
  BY <1>1, <1>2 DEF PagesInv, PagesTypes, ClientPhases
<1>5. NewestIsAlone' /\ CursorIsOfTheNewest' /\ PagesFollowTheCursor'
  BY <1>1, <1>2 DEF PagesInv, NewestIsAlone, CursorIsOfTheNewest, PagesFollowTheCursor
<1>6. Pages!CursorsAreAccepted'
  <2>1. SUFFICES ASSUME client.since = {configs}
                 PROVE  client.cursor.p > MaxPage
    BY <1>1, <1>2 DEF Pages!CursorsAreAccepted
  <2>2. i = configs
    BY <2>1 DEF PagesInv, NewestIsAlone
  <2>3. client.cursor # Pages!Start
    BY <1>1 DEF Pages!CursorFits
  <2>4. /\ client.cursor.s = Source(i, client.kind).snapshot
        /\ client.cursor.f = Pages!Filter(PageConfig(i), client.kind)
    BY <1>1, <2>1, <2>2, <2>3 DEF PagesInv, CursorIsOfTheNewest
  <2>5. ~(client.cursor.p <= MaxPage)
    BY <1>1, <2>4 DEF Pages!CursorFits, Source
  <2>6. client.cursor.p \in Nat /\ MaxPage \in Nat
    BY DEF PagesInv, PagesTypes, IsCursor, PagesAreGiven, Pages!ApiPagesAssumption
  <2> QED
    BY <2>5, <2>6
<1> QED
  BY <1>3, <1>4, <1>5, <1>6 DEF PagesInv

LEMMA HitKeeps ==
    ASSUME PagesAreGiven, PagesInv, NEW i \in isolates, Pages!Hit(i)
    PROVE  PagesInv'
<1>1. PICK e \in edge :
          /\ e.key = Pages!CacheKey(PageConfig(i), client.kind, client.cursor)
          /\ client' = Pages!Took(e.answer)
  BY DEF Pages!Hit, PageConfig
<1>2. /\ Pages!Paged /\ Pages!CursorFits(PageConfig(i), client.kind, client.cursor)
      /\ UNCHANGED <<configs, isolates, edge>>
  BY DEF Pages!Hit, PageConfig
<1>3. client.kind \in PageKinds /\ client.cursor.p \in Nat
  BY DEF PagesInv, PagesTypes, IsCursor
<1>4. e.kind = client.kind /\ e.cursor = client.cursor
  <2>1. PICK j \in DOMAIN PageDeployments :
            e.key = Pages!CacheKey(PageConfig(j), e.kind, e.cursor)
    BY DEF PagesInv, CopiesAreLoads
  <2>2. e.kind \in PageKinds
    BY DEF PagesInv, CopiesAreLoads
  <2>3. /\ Pages!CacheKey(PageConfig(j), e.kind, e.cursor)[1] = e.kind
        /\ Pages!CacheKey(PageConfig(j), e.kind, e.cursor)[2] = e.cursor
    BY <2>2, KeysAreOfOnePage
  <2>4. /\ Pages!CacheKey(PageConfig(i), client.kind, client.cursor)[1] = client.kind
        /\ Pages!CacheKey(PageConfig(i), client.kind, client.cursor)[2] = client.cursor
    BY <1>3, KeysAreOfOnePage
  <2> QED
    BY <1>1, <2>1, <2>3, <2>4
<1> DEFINE loaded == Pages!Answer(PageConfig(i), client.kind, client.cursor)
<1>5. /\ e.answer.next = loaded.next
      /\ \A d \in Agreed(client.kind) : e.answer.sources[d] = loaded.sources[d]
  BY <1>1, <1>4, CopiesAreOfTheKey DEF PagesInv
<1>6. Carries(loaded, i, client.kind)
  BY <1>3, AnswersCarry
<1> HIDE DEF loaded
<1>7. Carries(e.answer, i, client.kind)
  BY <1>3, <1>5, <1>6, KindsOfDatabases DEF Carries
<1> QED
  BY <1>1, <1>2, <1>7, TookKeeps, ReaderSteps DEF PagesInv

LEMMA LoadPageKeeps ==
    ASSUME PagesAreGiven, PagesInv, NEW i \in isolates, Pages!Load(i)
    PROVE  PagesInv'
<1> DEFINE answer == Pages!Answer(PageConfig(i), client.kind, client.cursor)
           entry == [key |-> Pages!CacheKey(PageConfig(i), client.kind, client.cursor),
                     answer |-> answer, kind |-> client.kind, cursor |-> client.cursor]
<1>1. /\ Pages!Paged /\ Pages!CursorFits(PageConfig(i), client.kind, client.cursor)
      /\ UNCHANGED <<configs, isolates>>
      /\ \/ client' = Pages!Took(answer) /\ (UNCHANGED edge \/ edge' = edge \cup {entry})
         \/ client' = [client EXCEPT !.phase = "failed"] /\ UNCHANGED edge
  BY DEF Pages!Load, PageConfig
<1>2. client.kind \in PageKinds /\ client.cursor.p \in Nat /\ i \in DOMAIN PageDeployments
  BY ConfigsAreDeployments DEF PagesInv, PagesTypes, IsCursor
<1>3. CopiesAreLoads'
  <2>1. CASE UNCHANGED edge
    BY <1>1, <2>1, ReaderSteps DEF PagesInv
  <2>2. CASE edge' = edge \cup {entry}
    <3>1. /\ entry.kind \in PageKinds /\ i \in 1 .. configs /\ UNCHANGED configs
          /\ entry.key = Pages!CacheKey(PageConfig(i), entry.kind, entry.cursor)
          /\ entry.answer = Pages!Answer(PageConfig(i), entry.kind, entry.cursor)
      BY <1>1, <1>2, ConfigsAreDeployments DEF PagesInv
    <3> HIDE DEF entry
    <3> QED
      BY <1>2, <2>2, <3>1 DEF PagesInv, CopiesAreLoads
  <2> QED
    BY <1>1, <2>1, <2>2
<1>4. Carries(answer, i, client.kind)
  BY <1>2, AnswersCarry
<1> HIDE DEF answer, entry
<1>5. CASE client' = Pages!Took(answer)
  BY <1>1, <1>3, <1>4, <1>5, TookKeeps DEF PagesInv
<1>6. CASE client' = [client EXCEPT !.phase = "failed"]
  <2>1. client' = [phase |-> "failed", kind |-> client.kind, cursor |-> client.cursor,
                   at |-> client.at, rows |-> client.rows, sources |-> client.sources,
                   since |-> client.since]
    BY <1>6 DEF PagesInv, PagesTypes
  <2>2. PagesTypes'
    BY <1>1, <2>1 DEF PagesInv, PagesTypes, ClientPhases
  <2> QED
    BY <1>1, <1>3, <2>1, <2>2 DEF PagesInv, NewestIsAlone, CursorIsOfTheNewest,
       PagesFollowTheCursor, Pages!CursorsAreAccepted
<1> QED
  BY <1>1, <1>5, <1>6

\* The streamed export is of one isolate: its rows have one source.
LEMMA StreamKeeps ==
    ASSUME PagesAreGiven, PagesInv, (\E i \in isolates : Pages!Open(i)) \/ Pages!Pull
    PROVE  PagesInv'
<1>1. PICK phase, at, rows, sources, cursor :
          /\ client' = [phase |-> phase, kind |-> client.kind, cursor |-> cursor, at |-> at,
                        rows |-> rows, sources |-> sources, since |-> client.since]
          /\ phase \in {"failed", "done", "streaming"} /\ IsCursor(cursor)
          /\ sources = client.sources \/ \E s : sources = {s}
          /\ UNCHANGED <<configs, isolates, edge>>
  <2>1. ASSUME NEW i \in isolates, Pages!Open(i)
        PROVE  \E phase, at, rows, sources, cursor :
          /\ client' = [phase |-> phase, kind |-> client.kind, cursor |-> cursor, at |-> at,
                        rows |-> rows, sources |-> sources, since |-> client.since]
          /\ phase \in {"failed", "done", "streaming"} /\ IsCursor(cursor)
          /\ sources = client.sources \/ \E s : sources = {s}
          /\ UNCHANGED <<configs, isolates, edge>>
    <3> DEFINE s == [d \in Pages!Reads("stream") |-> Pages!Config(i)[d]]
    <3>1. /\ UNCHANGED <<configs, isolates, edge>>
          /\ \/ client' = [client EXCEPT !.phase = "failed"]
             \/ \E p \in {"done", "streaming"} :
                   client' = [client EXCEPT !.phase = p, !.at = i, !.sources = {s}]
      BY <2>1 DEF Pages!Open
    <3> HIDE DEF s
    <3>2. CASE client' = [client EXCEPT !.phase = "failed"]
      <4>1. client' = [phase |-> "failed", kind |-> client.kind, cursor |-> client.cursor,
                       at |-> client.at, rows |-> client.rows, sources |-> client.sources,
                       since |-> client.since]
        BY <3>2 DEF PagesInv, PagesTypes
      <4> QED
        BY <3>1, <4>1 DEF PagesInv, PagesTypes
    <3>3. ASSUME NEW p \in {"done", "streaming"},
                 client' = [client EXCEPT !.phase = p, !.at = i, !.sources = {s}]
          PROVE  client' = [phase |-> p, kind |-> client.kind, cursor |-> client.cursor,
                            at |-> i, rows |-> client.rows, sources |-> {s},
                            since |-> client.since]
      BY <3>3 DEF PagesInv, PagesTypes
    <3> QED
      BY <3>1, <3>2, <3>3 DEF PagesInv, PagesTypes
  <2>2. ASSUME Pages!Pull
        PROVE  \E phase, at, rows, sources, cursor :
          /\ client' = [phase |-> phase, kind |-> client.kind, cursor |-> cursor, at |-> at,
                        rows |-> rows, sources |-> sources, since |-> client.since]
          /\ phase \in {"failed", "done", "streaming"} /\ IsCursor(cursor)
          /\ sources = client.sources \/ \E s : sources = {s}
          /\ UNCHANGED <<configs, isolates, edge>>
    <3> DEFINE b == Pages!Shown("stream", PageTables[Pages!Config(client.at).holdings],
                                client.cursor.key)
               r == client.rows \o b
               k == Pages!Last(b)
    <3>1. /\ UNCHANGED <<configs, isolates, edge>>
          /\ \/ client' = [client EXCEPT !.phase = "done"]
             \/ \E p \in {"done", "streaming"} :
                   client' = [client EXCEPT !.rows = r, !.cursor.key = k, !.phase = p]
      BY <2>2 DEF Pages!Pull
    <3> HIDE DEF b, r, k
    <3>2. CASE client' = [client EXCEPT !.phase = "done"]
      <4>1. client' = [phase |-> "done", kind |-> client.kind, cursor |-> client.cursor,
                       at |-> client.at, rows |-> client.rows, sources |-> client.sources,
                       since |-> client.since]
        BY <3>2 DEF PagesInv, PagesTypes
      <4> QED
        BY <3>1, <4>1 DEF PagesInv, PagesTypes
    <3>3. ASSUME NEW p \in {"done", "streaming"},
                 client' = [client EXCEPT !.rows = r, !.cursor.key = k, !.phase = p]
          PROVE  \E c : /\ IsCursor(c)
                        /\ client' = [phase |-> p, kind |-> client.kind, cursor |-> c,
                                      at |-> client.at, rows |-> r,
                                      sources |-> client.sources, since |-> client.since]
      <4> DEFINE c == [client.cursor EXCEPT !.key = k]
      <4>1. client' = [phase |-> p, kind |-> client.kind, cursor |-> c, at |-> client.at,
                       rows |-> r, sources |-> client.sources, since |-> client.since]
        BY <3>3 DEF PagesInv, PagesTypes
      <4>2. IsCursor(c)
        BY DEF PagesInv, PagesTypes, IsCursor
      <4> HIDE DEF c
      <4> QED
        BY <4>1, <4>2
    <3> QED
      BY <3>1, <3>2, <3>3
  <2> QED
    BY <2>1, <2>2
<1>2. CopiesAreLoads'
  BY <1>1, ReaderSteps DEF PagesInv
<1>3. PagesTypes'
  BY <1>1 DEF PagesInv, PagesTypes, ClientPhases
<1>4. PagesFollowTheCursor'
  BY <1>1 DEF PagesInv, PagesFollowTheCursor
<1> QED
  BY <1>1, <1>2, <1>3, <1>4 DEF PagesInv, NewestIsAlone, CursorIsOfTheNewest,
     Pages!CursorsAreAccepted

LEMMA LeaveKeeps ==
    ASSUME PagesAreGiven, PagesInv, Pages!Leave
    PROVE  PagesInv'
<1>1. client' = Pages!Idle(client.kind) /\ UNCHANGED <<configs, isolates, edge>>
  BY DEF Pages!Leave
<1> QED
  BY <1>1, ReaderSteps DEF PagesInv, PagesTypes, NewestIsAlone, CursorIsOfTheNewest,
     PagesFollowTheCursor, Pages!CursorsAreAccepted, Pages!Idle, ClientPhases, IsCursor, Pages!Start

\* Publishing, deploying, retiring and evicting leave the reader alone.
LEMMA OperatorKeeps ==
    ASSUME PagesAreGiven, PagesInv,
           Pages!Evict \/ Pages!Publish \/ Pages!Deploy \/ Pages!Retire \/ UNCHANGED Pages!vars
    PROVE  PagesInv'
<1>1. UNCHANGED client /\ edge' \subseteq edge
  BY DEF Pages!Evict, Pages!Publish, Pages!Deploy, Pages!Retire, Pages!vars
<1>2. CopiesAreLoads'
  <2>1. \A j \in 1 .. configs : j \in 1 .. configs'
    <3>1. configs \in Nat /\ (configs' = configs \/ configs' = configs + 1)
      BY ConfigsAreDeployments
         DEF PagesInv, Pages!Evict, Pages!Publish, Pages!Deploy, Pages!Retire, Pages!vars
    <3> QED
      BY <3>1
  <2> QED
    BY <1>1, <2>1 DEF PagesInv, CopiesAreLoads
<1>3. PagesFollowTheCursor'
  BY <1>1 DEF PagesInv, PagesFollowTheCursor
<1>4. \/ configs' = configs /\ (isolates' = isolates
                                \/ \E i \in isolates : i < configs /\ isolates' = isolates \ {i})
      \/ /\ configs < Len(PageDeployments) /\ configs' = configs + 1
         /\ isolates' = isolates \cup {configs + 1}
  BY DEF Pages!Evict, Pages!Publish, Pages!Deploy, Pages!Retire, Pages!vars
<1>5. configs \in Nat /\ Len(PageDeployments) \in Nat
  <2>1. PageDeployments \in Seq(Pages!Range(PageDeployments))
    BY DEF PagesAreGiven, Pages!ApiPagesAssumption
  <2> QED
    BY <2>1, ConfigsAreDeployments DEF PagesInv
<1>6. CASE configs' = configs
  BY <1>1, <1>2, <1>3, <1>4, <1>5, <1>6 DEF PagesInv, PagesTypes, NewestIsAlone,
     CursorIsOfTheNewest, Pages!CursorsAreAccepted
<1>7. CASE /\ configs < Len(PageDeployments) /\ configs' = configs + 1
           /\ isolates' = isolates \cup {configs + 1}
  <2>1. client'.since # {configs'}
    <3>1. client.since \subseteq 1 .. configs
      BY DEF PagesInv, PagesTypes
    <3>2. configs + 1 \notin client.since
      BY <1>5, <3>1
    <3> QED
      BY <1>1, <1>7, <3>2
  <2>2. PagesTypes'
    BY <1>1, <1>5, <1>7 DEF PagesInv, PagesTypes
  <2> QED
    BY <1>1, <1>2, <1>3, <2>1, <2>2 DEF PagesInv, NewestIsAlone, CursorIsOfTheNewest,
       Pages!CursorsAreAccepted
<1> QED
  BY <1>4, <1>5, <1>6, <1>7

LEMMA PagesStep ==
    ASSUME PagesAreGiven, PagesInv, [Pages!Next]_Pages!vars
    PROVE  PagesInv'
BY BeginsKeep, RefuseKeeps, HitKeeps, LoadPageKeeps, StreamKeeps, LeaveKeeps, OperatorKeeps
DEF Pages!Next, Pages!Ask

LEMMA PagesAreOneSnapshot ==
    ASSUME PagesInv
    PROVE  Pages!WalkIsOneSnapshot
<1> DEFINE S == {r.snapshot : r \in Pages!Origins}
<1>1. \A a, b \in S : a = b
  BY DEF PagesInv, PagesFollowTheCursor, Pages!Origins
<1>2. Pages!Cardinality(S) = Cardinality(S)
  BY DEF Pages!Cardinality, Cardinality, Pages!IsFiniteSet, IsFiniteSet
<1>3. CASE S = {}
  BY <1>2, <1>3, FS_EmptySet DEF Pages!WalkIsOneSnapshot
<1>4. ASSUME NEW a \in S
      PROVE  Pages!WalkIsOneSnapshot
  <2>1. S = {a}
    BY <1>1
  <2> HIDE DEF S
  <2>2. Cardinality(S) = 1
    BY <2>1, FS_Singleton
  <2> QED
    BY <1>2, <2>2 DEF Pages!WalkIsOneSnapshot, S
<1> QED
  BY <1>3, <1>4

LEMMA PagesAnswerAsLoaded ==
    ASSUME PagesAreGiven, PagesInv
    PROVE  Pages!CachedIsLoaded
BY CopiesAreOfTheKey DEF PagesInv, Pages!CachedIsLoaded, PageConfig

-----------------------------------------------------------------------------
(* The parts of what readers get: a behaviour stays in its part.             *)

PartsAreGiven == PagesAreGiven /\ Zip!SiteZipAssumption /\ Images!ImageArchiveAssumption

PartsHold ==
    /\ which = "pages" => PagesInv
    /\ which = "zip" => ZipInv
    /\ which = "images" => ImagesInv

LEMMA PartsAreKept ==
    ASSUME PartsAreGiven
    PROVE  MCInit /\ [][MCNext]_MCVars => []PartsHold
<1>1. MCInit => PartsHold
  BY PagesInit, ZipInit, ImagesInit DEF MCInit, PartsHold, PartsAreGiven
<1>2. ASSUME PartsHold, [MCNext]_MCVars
      PROVE  PartsHold'
  <2> USE DEF InRelease, InPages, InExport, InZip, InImages
  <2>1. which' = which
    BY <1>2 DEF MCNext, MCVars
  <2>2. ASSUME which = "pages"
        PROVE  [Pages!Next]_Pages!vars
    BY <1>2, <2>2 DEF MCNext, MCVars, Pages!vars
  <2>3. ASSUME which = "zip"
        PROVE  [Zip!Next]_Zip!vars
    BY <1>2, <2>3 DEF MCNext, MCVars, zipVars, Zip!vars
  <2>4. ASSUME which = "images"
        PROVE  [Images!Next]_Images!vars
    BY <1>2, <2>4 DEF MCNext, MCVars, imagesVars, Images!vars
  <2>5. which = "pages" => PagesInv'
    BY <1>2, <2>2, PagesStep DEF PartsHold, PartsAreGiven
  <2>6. which = "zip" => ZipInv'
    BY <1>2, <2>3, ZipStep DEF PartsHold, PartsAreGiven
  <2>7. which = "images" => ImagesInv'
    BY <1>2, <2>4, ImagesStep DEF PartsHold, PartsAreGiven
  <2> QED
    BY <2>1, <2>5, <2>6, <2>7 DEF PartsHold
<1> QED
  BY <1>1, <1>2, PTL

\* createPortableSiteZip, createPersonalImageArchiveZip: what a visitor keeps is every
\* file of the site or every image of the plan, for any number of them and whatever the
\* worker, the fetches and the visitor do meanwhile.
THEOREM SavedArchivesAreWhole ==
    ASSUME PartsAreGiven
    PROVE  MCInit /\ [][MCNext]_MCVars => []SavedIsWhole
<1>1. PartsHold => SavedIsWhole
  BY ZipsAreWhole, ImagesAreWhole DEF PartsHold, SavedIsWhole
<1> QED
  BY <1>1, PartsAreKept, PTL

\* "Clients should follow the returned nextPath unchanged": for any listings, deployments
\* and cache, a cursor is refused only across configurations or past the cap, and the
\* pages put together are of one snapshot.
THEOREM CursorsAreFollowed ==
    ASSUME PartsAreGiven
    PROVE  MCInit /\ [][MCNext]_MCVars => []CursorsAreAccepted
<1>1. PartsHold => CursorsAreAccepted
  BY PagesAreOneSnapshot DEF PartsHold, PagesInv, CursorsAreAccepted
<1> QED
  BY <1>1, PartsAreKept, PTL

\* "Cache keys must include the active snapshot ID plus every normalized input that changes
\* the response": for any deployments whose releases are told by their identifiers, what
\* the edge cache answers is, part by part, what the databases would.  The cards of a
\* Collection, whose keys leave SNAPSHOT_ID out, are the exception: there everything is
\* but the artwork, which is that of the catalog of some configuration deployed so far.
THEOREM CopiesAreLoaded ==
    ASSUME PartsAreGiven
    PROVE  MCInit /\ [][MCNext]_MCVars => []CachedIsLoaded
<1>1. PartsHold => CachedIsLoaded
  BY PagesAnswerAsLoaded DEF PartsHold, CachedIsLoaded, PartsAreGiven
<1> QED
  BY <1>1, PartsAreKept, PTL

\* The release of PublicReads is the same beside the other parts: all that Spec promises
\* of the published Moments holds of what readers get.
THEOREM ReleasesAreRead ==
    MCInit /\ [][MCNext]_MCVars => Spec
<1>1. MCInit => Init
  BY DEF MCInit
<1>2. [MCNext]_MCVars => [Next]_vars
  BY DEF MCNext, MCVars, InRelease, InPages, InExport, InZip, InImages, vars
<1> QED
  BY <1>1, <1>2, PTL DEF Spec

--------------------------------------------------------------------------------
(* Places in an order.                                                       *)

\* R orders S; Before(x) counts what R has before x.
Orders(R, S) ==
    /\ \A x \in S : <<x, x>> \notin R
    /\ \A x, y, z \in S : <<x, y>> \in R /\ <<y, z>> \in R => <<x, z>> \in R
    /\ \A x, y \in S : x = y \/ <<x, y>> \in R \/ <<y, x>> \in R
Ahead(R, S, x) == {y \in S : <<y, x>> \in R}
Place(R, S, x) == Cardinality(Ahead(R, S, x))

LEMMA AheadIsFinite ==
    ASSUME NEW S, IsFiniteSet(S), NEW R, Orders(R, S), NEW x \in S
    PROVE  /\ IsFiniteSet(Ahead(R, S, x)) /\ Cardinality(S) \in Nat
           /\ Place(R, S, x) \in Nat /\ Place(R, S, x) < Cardinality(S)
<1>1. Ahead(R, S, x) \in SUBSET S /\ x \notin Ahead(R, S, x)
  BY DEF Ahead, Orders
<1>2. /\ IsFiniteSet(Ahead(R, S, x)) /\ Cardinality(Ahead(R, S, x)) <= Cardinality(S)
      /\ Cardinality(S) # Cardinality(Ahead(R, S, x))
  BY <1>1, FS_Subset
<1>3. Cardinality(S) \in Nat /\ Cardinality(Ahead(R, S, x)) \in Nat
  BY <1>2, FS_CardinalityType
<1> QED
  BY <1>2, <1>3 DEF Place

LEMMA PlacesAreInOrder ==
    ASSUME NEW S, IsFiniteSet(S), NEW R, Orders(R, S), NEW x \in S, NEW y \in S
    PROVE  /\ <<x, y>> \in R <=> Place(R, S, x) < Place(R, S, y)
           /\ x = y <=> Place(R, S, x) = Place(R, S, y)
<1>1. ASSUME NEW a \in S, NEW b \in S, <<a, b>> \in R
      PROVE  Place(R, S, a) < Place(R, S, b)
  <2>1. a \in Ahead(R, S, b) /\ a \notin Ahead(R, S, a)
    BY <1>1 DEF Ahead, Orders
  <2>2. Ahead(R, S, a) \in SUBSET Ahead(R, S, b)
    BY <1>1 DEF Ahead, Orders
  <2>3. IsFiniteSet(Ahead(R, S, b)) /\ Place(R, S, a) \in Nat /\ Place(R, S, b) \in Nat
    BY AheadIsFinite
  <2>4. /\ Cardinality(Ahead(R, S, a)) <= Cardinality(Ahead(R, S, b))
        /\ Cardinality(Ahead(R, S, a)) # Cardinality(Ahead(R, S, b))
    BY <2>1, <2>2, <2>3, FS_Subset
  <2> QED
    BY <2>3, <2>4 DEF Place
<1>2. Place(R, S, x) \in Nat /\ Place(R, S, y) \in Nat
  BY AheadIsFinite
<1>3. x = y \/ <<x, y>> \in R \/ <<y, x>> \in R
  BY DEF Orders
<1>4. /\ <<x, y>> \in R => Place(R, S, x) < Place(R, S, y)
      /\ <<y, x>> \in R => Place(R, S, y) < Place(R, S, x)
  BY <1>1
<1>5. x = y => <<x, y>> \notin R
  BY DEF Orders
<1> QED
  BY <1>2, <1>3, <1>4, <1>5

\* Every place is taken.
LEMMA PlacesAreTaken ==
    ASSUME NEW S, IsFiniteSet(S), NEW R, Orders(R, S), NEW n \in Nat, n < Cardinality(S)
    PROVE  \E x \in S : Place(R, S, x) = n
<1> DEFINE N == Cardinality(S)
           Taken == {k \in 0 .. (N - 1) : \E x \in S : Place(R, S, x) = k}
           place == [x \in S |-> Place(R, S, x)]
<1>1. N \in Nat
  BY FS_CardinalityType
<1>2. \A x \in S : Place(R, S, x) \in 0 .. (N - 1)
  BY <1>1, AheadIsFinite
<1>3. place \in Bijection(S, Taken)
  <2>1. \A x \in S : Place(R, S, x) \in Taken
    BY <1>2
  <2>2. ASSUME NEW x \in S, NEW y \in S, Place(R, S, x) = Place(R, S, y)
        PROVE  x = y
    <3>1. x = y \/ <<x, y>> \in R \/ <<y, x>> \in R
      BY DEF Orders
    <3>2. <<x, y>> \in R => Place(R, S, x) < Place(R, S, y)
      BY PlacesAreInOrder
    <3>3. <<y, x>> \in R => Place(R, S, y) < Place(R, S, x)
      BY PlacesAreInOrder
    <3>4. Place(R, S, x) \in Nat
      BY AheadIsFinite
    <3> QED
      BY <2>2, <3>1, <3>2, <3>3, <3>4
  <2> QED
    BY <2>1, <2>2, Fun_IsBij
<1>4. Cardinality(Taken) = N
  BY <1>3, FS_Bijection DEF ExistsBijection
<1>5. IsFiniteSet(0 .. (N - 1)) /\ Cardinality(0 .. (N - 1)) = N
  <2>1. \A m \in Nat : IsFiniteSet(0 .. (m - 1)) /\ Cardinality(0 .. (m - 1)) = m
    BY FS_Interval
  <2> HIDE DEF N
  <2> QED
    BY <1>1, <2>1
<1>6. Taken \in SUBSET (0 .. (N - 1))
  OBVIOUS
<1>7. n \in 0 .. (N - 1)
  BY <1>1
<1>8. Taken = 0 .. (N - 1)
  <2> HIDE DEF Taken, N
  <2> QED
    BY <1>4, <1>5, <1>6, FS_Subset
<1> QED
  BY <1>7, <1>8

\* What comes after the first m keeps its order, m places further on.
LEMMA PlacesGoOn ==
    ASSUME NEW S, IsFiniteSet(S), NEW R, Orders(R, S), NEW a \in S
    PROVE  LET rest == {x \in S : <<a, x>> \in R}
               m    == Place(R, S, a) + 1
           IN /\ IsFiniteSet(rest) /\ Orders(R, rest)
              /\ Cardinality(S) = Cardinality(rest) + m
              /\ \A x \in rest : Place(R, S, x) = Place(R, rest, x) + m
<1> DEFINE rest == {x \in S : <<a, x>> \in R}
           upto == Ahead(R, S, a) \cup {a}
           m    == Place(R, S, a) + 1
<1>1. rest \in SUBSET S /\ IsFiniteSet(rest)
  <2>1. rest \in SUBSET S
    OBVIOUS
  <2> HIDE DEF rest
  <2> QED
    BY <2>1, FS_Subset
<1>2. Orders(R, rest)
  BY <1>1 DEF Orders
<1>3. a \notin Ahead(R, S, a) /\ IsFiniteSet(Ahead(R, S, a))
  BY AheadIsFinite DEF Ahead, Orders
<1>4. IsFiniteSet(upto) /\ Cardinality(upto) = m
  BY <1>3, FS_AddElement DEF Place
<1>5. S = upto \cup rest /\ upto \cap rest = {}
  BY DEF Ahead, Orders
<1>6. m \in Nat
  BY AheadIsFinite
<1>7. Cardinality(S) = Cardinality(rest) + m
  <2>1. Cardinality(upto \cap rest) = 0
    BY <1>5, FS_EmptySet
  <2>2. Cardinality(upto \cup rest) = Cardinality(upto) + Cardinality(rest) - Cardinality(upto \cap rest)
    <3> HIDE DEF upto, rest
    <3> QED
      BY <1>1, <1>4, FS_Union
  <2>3. Cardinality(rest) \in Nat
    BY <1>1, FS_CardinalityType
  <2> HIDE DEF rest, upto, m
  <2> QED
    BY <1>4, <1>5, <1>6, <2>1, <2>2, <2>3
<1>8. ASSUME NEW x \in rest
      PROVE  Place(R, S, x) = Place(R, rest, x) + m
  <2>1. Ahead(R, S, x) = upto \cup Ahead(R, rest, x) /\ upto \cap Ahead(R, rest, x) = {}
    <3>1. x \in S /\ <<a, x>> \in R
      OBVIOUS
    <3>2. \A y \in upto : y \in S /\ <<y, x>> \in R
      BY <3>1 DEF Ahead, Orders
    <3>3. \A y \in S : y \in upto \/ y \in rest
      BY <1>5
    <3>4. Ahead(R, rest, x) \subseteq rest /\ Ahead(R, rest, x) \subseteq Ahead(R, S, x)
      BY DEF Ahead
    <3>5. \A y \in Ahead(R, S, x) : y \in rest => y \in Ahead(R, rest, x)
      BY DEF Ahead
    <3> HIDE DEF upto, rest
    <3>6. upto \subseteq Ahead(R, S, x)
      BY <3>2 DEF Ahead
    <3>7. Ahead(R, S, x) \subseteq S
      BY DEF Ahead
    <3> QED
      BY <1>5, <3>3, <3>4, <3>5, <3>6, <3>7
  <2>2. IsFiniteSet(Ahead(R, rest, x)) /\ Cardinality(Ahead(R, rest, x)) \in Nat
    <3> HIDE DEF rest
    <3> QED
      BY <1>1, <1>2, AheadIsFinite DEF Place
  <2>3. Cardinality(upto \cap Ahead(R, rest, x)) = 0
    BY <2>1, FS_EmptySet
  <2> HIDE DEF upto, rest, m
  <2>4. Cardinality(upto \cup Ahead(R, rest, x))
           = Cardinality(upto) + Cardinality(Ahead(R, rest, x)) - Cardinality(upto \cap Ahead(R, rest, x))
    BY <1>4, <2>2, FS_Union
  <2> QED
    BY <1>4, <1>6, <2>1, <2>2, <2>3, <2>4 DEF Place
<1> QED
  BY <1>1, <1>2, <1>7, <1>8

--------------------------------------------------------------------------------
(* The order of a listing.                                                   *)

Columns(rows) == IsFiniteSet(rows) /\ \E w \in 1 .. 3 : rows \subseteq [1 .. w -> Nat]
Order(kind, rows) == {p \in rows \X rows : Pages!Before(kind, p[1], p[2])}

\* Rows compare column by column: of two rows one is less, unless they are the same.
LEMMA LessIsAnOrder ==
    ASSUME NEW w \in 1 .. 3
    PROVE  /\ \A a \in [1 .. w -> Nat] : ~Pages!Less(a, a)
           /\ \A a, b, c \in [1 .. w -> Nat] :
                 Pages!Less(a, b) /\ Pages!Less(b, c) => Pages!Less(a, c)
           /\ \A a, b \in [1 .. w -> Nat] : a = b \/ Pages!Less(a, b) \/ Pages!Less(b, a)
<1> DEFINE T == [1 .. w -> Nat]
<1>0. \A a \in T : DOMAIN a = 1 .. w /\ \A n \in 1 .. w : a[n] \in Nat
  OBVIOUS
<1>1. ASSUME NEW a \in T
      PROVE  ~Pages!Less(a, a)
  BY <1>0 DEF Pages!Less
<1>2. ASSUME NEW a \in T, NEW b \in T, NEW c \in T, Pages!Less(a, b), Pages!Less(b, c)
      PROVE  Pages!Less(a, c)
  <2>1. PICK n \in 1 .. w : a[n] < b[n] /\ \A i \in 1 .. (n - 1) : a[i] = b[i]
    BY <1>0, <1>2 DEF Pages!Less
  <2>2. PICK m \in 1 .. w : b[m] < c[m] /\ \A i \in 1 .. (m - 1) : b[i] = c[i]
    BY <1>0, <1>2 DEF Pages!Less
  <2> SUFFICES \E k \in 1 .. w : a[k] < c[k] /\ \A i \in 1 .. (k - 1) : a[i] = c[i]
    BY <1>0 DEF Pages!Less
  <2>3. CASE n < m
    <3>1. n \in 1 .. (m - 1) /\ \A i \in 1 .. (n - 1) : i \in 1 .. (m - 1)
      BY <2>3
    <3>2. a[n] < c[n] /\ \A i \in 1 .. (n - 1) : a[i] = c[i]
      BY <2>1, <2>2, <3>1
    <3> QED
      BY <3>2
  <2>4. CASE m < n
    <3>1. m \in 1 .. (n - 1) /\ \A i \in 1 .. (m - 1) : i \in 1 .. (n - 1)
      BY <2>4
    <3>2. a[m] < c[m] /\ \A i \in 1 .. (m - 1) : a[i] = c[i]
      BY <2>1, <2>2, <3>1
    <3> QED
      BY <3>2
  <2>5. CASE m = n
    <3>1. a[n] \in Nat /\ b[n] \in Nat /\ c[n] \in Nat
      BY <1>0
    <3>2. a[n] < c[n] /\ \A i \in 1 .. (n - 1) : a[i] = c[i]
      BY <2>1, <2>2, <2>5, <3>1
    <3> QED
      BY <3>2
  <2> QED
    BY <2>3, <2>4, <2>5
<1>3. ASSUME NEW a \in T, NEW b \in T, a # b
      PROVE  Pages!Less(a, b) \/ Pages!Less(b, a)
  <2>1. PICK n \in 1 .. w : a[n] # b[n] /\ \A i \in 1 .. (n - 1) : a[i] = b[i]
    <3>1. \E n \in 1 .. w : a[n] # b[n]
      BY <1>3
    <3>2. CASE 1 \in 1 .. w /\ a[1] # b[1]
      BY <3>2
    <3>3. CASE 2 \in 1 .. w /\ a[2] # b[2] /\ a[1] = b[1]
      <4>1. \A i \in 1 .. (2 - 1) : i = 1
        OBVIOUS
      <4> QED
        BY <3>3, <4>1
    <3>4. CASE 3 \in 1 .. w /\ a[3] # b[3] /\ a[1] = b[1] /\ a[2] = b[2]
      <4>1. \A i \in 1 .. (3 - 1) : i = 1 \/ i = 2
        OBVIOUS
      <4> QED
        BY <3>4, <4>1
    <3>5. \A n \in 1 .. w : n \in {1, 2, 3}
      OBVIOUS
    <3>6. \A n \in 1 .. w : (n = 3 => 2 \in 1 .. w) /\ 1 \in 1 .. w
      OBVIOUS
    <3>7. PICK k \in 1 .. w : a[k] # b[k]
      BY <3>1
    <3>8. k = 1 \/ k = 2 \/ k = 3
      BY <3>5
    <3>9. CASE k = 1
      BY <3>2, <3>7, <3>9
    <3>10. CASE k = 2
      BY <3>2, <3>3, <3>6, <3>7, <3>10
    <3>11. CASE k = 3
      BY <3>2, <3>3, <3>4, <3>6, <3>7, <3>11
    <3> QED
      BY <3>8, <3>9, <3>10, <3>11
  <2>2. a[n] \in Nat /\ b[n] \in Nat
    BY <1>0
  <2>3. a[n] < b[n] \/ b[n] < a[n]
    BY <2>1, <2>2
  <2> QED
    BY <1>0, <2>1, <2>3 DEF Pages!Less
<1> QED
  BY <1>1, <1>2, <1>3

LEMMA ListingsAreOrdered ==
    ASSUME NEW kind, NEW rows, Columns(rows)
    PROVE  /\ IsFiniteSet(rows) /\ Orders(Order(kind, rows), rows)
           /\ \A x, y \in rows : <<x, y>> \in Order(kind, rows) <=> Pages!Before(kind, x, y)
<1>1. PICK w \in 1 .. 3 : rows \subseteq [1 .. w -> Nat]
  BY DEF Columns
<1>2. \A x, y \in rows : <<x, y>> \in Order(kind, rows) <=> Pages!Before(kind, x, y)
  BY DEF Order
<1>3. /\ \A a \in rows : ~Pages!Less(a, a)
      /\ \A a, b, c \in rows : Pages!Less(a, b) /\ Pages!Less(b, c) => Pages!Less(a, c)
      /\ \A a, b \in rows : a = b \/ Pages!Less(a, b) \/ Pages!Less(b, a)
  BY <1>1, LessIsAnOrder
<1>4. /\ \A x \in rows : ~Pages!Before(kind, x, x)
      /\ \A x, y, z \in rows : Pages!Before(kind, x, y) /\ Pages!Before(kind, y, z) => Pages!Before(kind, x, z)
      /\ \A x, y \in rows : x = y \/ Pages!Before(kind, x, y) \/ Pages!Before(kind, y, x)
  <2>1. CASE kind \in Pages!Ascending
    BY <1>3, <2>1 DEF Pages!Before
  <2>2. CASE kind \notin Pages!Ascending
    BY <1>3, <2>2 DEF Pages!Before
  <2> QED
    BY <2>1, <2>2
<1>5. Orders(Order(kind, rows), rows)
  BY <1>2, <1>4 DEF Orders
<1> QED
  BY <1>2, <1>5 DEF Columns

\* The rows that First lists are each in its place.
LEMMA FirstsAreInPlace ==
    ASSUME NEW kind, NEW rows, Columns(rows), NEW n \in Nat, n <= Cardinality(rows)
    PROVE  /\ Pages!First(kind, rows, n) \in [1 .. n -> rows]
           /\ \A i \in 1 .. n : Place(Order(kind, rows), rows, Pages!First(kind, rows, n)[i]) = i - 1
<1> DEFINE R == Order(kind, rows)
<1>1. IsFiniteSet(rows) /\ Orders(R, rows)
  BY ListingsAreOrdered
<1>2. \A r \in rows :
         Pages!Cardinality({q \in rows : Pages!Before(kind, q, r)}) = Place(R, rows, r)
  <2> TAKE r \in rows
  <2>1. {q \in rows : Pages!Before(kind, q, r)} = Ahead(R, rows, r)
    BY ListingsAreOrdered DEF Ahead
  <2>2. \A S : Pages!Cardinality(S) = Cardinality(S)
    BY DEF Pages!Cardinality, Cardinality, Pages!IsFiniteSet, IsFiniteSet
  <2> QED
    BY <2>1, <2>2 DEF Place
<1>3. \A i \in 1 .. n : Pages!First(kind, rows, n)[i] = CHOOSE r \in rows :
           Pages!Cardinality({q \in rows : Pages!Before(kind, q, r)}) = i - 1
  BY DEF Pages!First
<1>4. ASSUME NEW i \in 1 .. n
      PROVE  /\ Pages!First(kind, rows, n)[i] \in rows
             /\ Place(R, rows, Pages!First(kind, rows, n)[i]) = i - 1
  <2>1. i - 1 \in Nat /\ i - 1 < Cardinality(rows)
    <3>1. Cardinality(rows) \in Nat
      BY <1>1, FS_CardinalityType
    <3> QED
      BY <3>1
  <2>2. \E r \in rows : Place(R, rows, r) = i - 1
    <3> HIDE DEF R
    <3> QED
      BY <1>1, <2>1, PlacesAreTaken
  <2> HIDE DEF R
  <2>3. \E r \in rows : Pages!Cardinality({q \in rows : Pages!Before(kind, q, r)}) = i - 1
    BY <1>2, <2>2
  <2> DEFINE P(r) == Pages!Cardinality({q \in rows : Pages!Before(kind, q, r)}) = i - 1
  <2>4. Pages!First(kind, rows, n)[i] = CHOOSE r \in rows : P(r)
    BY <1>3
  <2>5. \E r \in rows : P(r)
    BY <2>3
  <2>6. (CHOOSE r \in rows : P(r)) \in rows /\ P(CHOOSE r \in rows : P(r))
    <3> HIDE DEF P
    <3> QED
      BY <2>5
  <2> QED
    BY <1>2, <2>4, <2>6
<1>5. DOMAIN Pages!First(kind, rows, n) = 1 .. n
  BY DEF Pages!First
<1>6. Pages!First(kind, rows, n) = [i \in 1 .. n |-> Pages!First(kind, rows, n)[i]]
  BY DEF Pages!First
<1> QED
  BY <1>4, <1>5, <1>6

--------------------------------------------------------------------------------
(* Pages.                                                                    *)

AllRows(kind, t) == Cardinality(Pages!Rows(kind, t))
\* The rows of the first m places of a listing, and the cursor key after them.
Walked(kind, t, m) == [i \in 1 .. m |-> Pages!Listing(kind, t)[i]]
KeyAfter(kind, t, m) == IF m = 0 THEN <<>> ELSE Pages!Listing(kind, t)[m]
OnPage(kind, t, m) == IF AllRows(kind, t) - m < PageRows THEN AllRows(kind, t) - m ELSE PageRows

LEMMA SizesOfPages ==
    ASSUME NEW S
    PROVE  Pages!Cardinality(S) = Cardinality(S) /\ (Pages!IsFiniteSet(S) <=> IsFiniteSet(S))
BY DEF Pages!Cardinality, Cardinality, Pages!IsFiniteSet, IsFiniteSet

LEMMA ListingsAreInPlace ==
    ASSUME NEW kind, NEW t, Columns(Pages!Rows(kind, t))
    PROVE  LET rows == Pages!Rows(kind, t)
           IN /\ AllRows(kind, t) \in Nat
              /\ Pages!Listing(kind, t) \in [1 .. AllRows(kind, t) -> rows]
              /\ \A i \in 1 .. AllRows(kind, t) :
                    Place(Order(kind, rows), rows, Pages!Listing(kind, t)[i]) = i - 1
<1> DEFINE rows == Pages!Rows(kind, t)
<1>1. AllRows(kind, t) \in Nat
  BY FS_CardinalityType DEF Columns, AllRows
<1>2. Pages!Listing(kind, t) = Pages!First(kind, rows, AllRows(kind, t))
  BY SizesOfPages DEF Pages!Listing, AllRows
<1>3. AllRows(kind, t) <= Cardinality(rows)
  BY <1>1 DEF AllRows
<1>4. Columns(rows)
  OBVIOUS
<1> HIDE DEF rows
<1>5. LET F == Pages!First(kind, rows, AllRows(kind, t))
      IN /\ F \in [1 .. AllRows(kind, t) -> rows]
         /\ \A i \in 1 .. AllRows(kind, t) : Place(Order(kind, rows), rows, F[i]) = i - 1
  BY <1>1, <1>3, <1>4, FirstsAreInPlace
<1> QED
  BY <1>1, <1>2, <1>5 DEF rows

\* What is past the key of a place is what comes after it.
LEMMA PastIsTheRest ==
    ASSUME NEW kind, NEW t, Columns(Pages!Rows(kind, t)), NEW m \in 0 .. AllRows(kind, t)
    PROVE  LET rows == Pages!Rows(kind, t)
               past == Pages!Past(kind, t, KeyAfter(kind, t, m))
           IN /\ past \subseteq rows /\ Columns(past)
              /\ Cardinality(past) = AllRows(kind, t) - m
              /\ \A x \in past : Place(Order(kind, rows), rows, x)
                                    = Place(Order(kind, past), past, x) + m
<1> DEFINE rows == Pages!Rows(kind, t)
           past == Pages!Past(kind, t, KeyAfter(kind, t, m))
           R    == Order(kind, rows)
           N    == AllRows(kind, t)
<1>1. past \subseteq rows
  BY DEF Pages!Past
<1>2. Columns(past)
  <2>1. IsFiniteSet(past)
    <3> HIDE DEF past, rows
    <3> QED
      BY <1>1, FS_Subset DEF Columns, rows
  <2> QED
    BY <1>1, <2>1 DEF Columns
<1>3. N \in Nat /\ IsFiniteSet(rows) /\ Orders(R, rows)
  BY ListingsAreInPlace, ListingsAreOrdered
<1>4. CASE m = 0
  <2>1. past = rows
    BY <1>4 DEF Pages!Past, KeyAfter
  <2>2. \A x \in rows : Place(R, rows, x) \in Nat
    <3> HIDE DEF R, rows
    <3> QED
      BY <1>3, AheadIsFinite
  <2>3. Cardinality(past) = N - m
    BY <1>3, <1>4, <2>1 DEF AllRows
  <2> HIDE DEF past, rows, N
  <2> QED
    BY <1>1, <1>2, <1>4, <2>1, <2>2, <2>3 DEF past, rows, N
<1>5. CASE m # 0
  <2> DEFINE a == Pages!Listing(kind, t)[m]
             rest == {x \in rows : <<a, x>> \in R}
  <2>1. m \in 1 .. N
    BY <1>3, <1>5
  <2>2. a \in rows /\ Place(R, rows, a) = m - 1
    BY <2>1, ListingsAreInPlace
  <2>3. KeyAfter(kind, t, m) = a
    BY <1>5 DEF KeyAfter
  <2>4. a # <<>>
    <3>1. PICK w \in 1 .. 3 : rows \subseteq [1 .. w -> Nat]
      BY DEF Columns
    <3>2. DOMAIN a = 1 .. w /\ 1 \in 1 .. w
      BY <2>2, <3>1
    <3> HIDE DEF a
    <3>3. DOMAIN <<>> = {}
      OBVIOUS
    <3> QED
      BY <3>2, <3>3
  <2>5. past = rest
    <3>1. \A x \in rows : <<a, x>> \in R <=> Pages!After(kind, x, a)
      <4> HIDE DEF a, rows
      <4> QED
        BY <2>2, ListingsAreOrdered DEF rows, Pages!After
    <3> HIDE DEF a
    <3> QED
      BY <2>3, <2>4, <3>1 DEF Pages!Past
  <2> HIDE DEF a, past, R, N
  <2>6. /\ Cardinality(rows) = Cardinality(rest) + (Place(R, rows, a) + 1)
        /\ \A x \in rest : Place(R, rows, x) = Place(R, rest, x) + (Place(R, rows, a) + 1)
    <3> HIDE DEF rows
    <3> QED
      BY <1>3, <2>2, PlacesGoOn
  <2>7. (m - 1) + 1 = m
    BY <2>1, <1>3
  <2>8. \A x \in past : Place(R, past, x) = Place(Order(kind, past), past, x)
    <3>1. \A x, y \in past : /\ <<x, y>> \in R <=> Pages!Before(kind, x, y)
                             /\ <<x, y>> \in Order(kind, past) <=> Pages!Before(kind, x, y)
      BY <1>1, <1>2, ListingsAreOrdered DEF R
    <3>2. \A x \in past : Ahead(R, past, x) = Ahead(Order(kind, past), past, x)
      BY <3>1 DEF Ahead
    <3> QED
      BY <3>2 DEF Place
  <2>9. Cardinality(past) \in Nat /\ Cardinality(rows) = N
    BY <1>2, FS_CardinalityType DEF Columns, N, AllRows
  <2>10. N = Cardinality(past) + m
    BY <2>2, <2>5, <2>6, <2>7, <2>9
  <2>11. Cardinality(past) = N - m
    BY <1>3, <2>1, <2>9, <2>10
  <2>12. \A x \in past : Place(R, rows, x) = Place(Order(kind, past), past, x) + m
    BY <2>2, <2>5, <2>6, <2>7, <2>8
  <2> HIDE DEF rows
  <2> QED
    BY <1>1, <1>2, <2>11, <2>12 DEF past, R, rows, N
<1> QED
  BY <1>4, <1>5

\* A page after the first m rows is the rows that follow them.
LEMMA PagesAreTheNext ==
    ASSUME NEW kind, NEW t, Columns(Pages!Rows(kind, t)), NEW m \in 0 .. AllRows(kind, t),
           PageRows \in Nat \ {0}
    PROVE  LET n == OnPage(kind, t, m)
           IN /\ n \in 0 .. PageRows /\ m + n \in 0 .. AllRows(kind, t)
              /\ Pages!Shown(kind, t, KeyAfter(kind, t, m))
                    = [i \in 1 .. n |-> Pages!Listing(kind, t)[m + i]]
              /\ Pages!Cardinality(Pages!Past(kind, t, KeyAfter(kind, t, m))) = AllRows(kind, t) - m
<1> DEFINE rows == Pages!Rows(kind, t)
           past == Pages!Past(kind, t, KeyAfter(kind, t, m))
           R    == Order(kind, rows)
           N    == AllRows(kind, t)
           n    == OnPage(kind, t, m)
           L    == Pages!Listing(kind, t)
           F    == Pages!First(kind, past, n)
<1>1. N \in Nat /\ L \in [1 .. N -> rows] /\ \A i \in 1 .. N : Place(R, rows, L[i]) = i - 1
  BY ListingsAreInPlace
<1>2. n \in 0 .. PageRows /\ m + n \in 0 .. N /\ n <= N - m
  BY <1>1 DEF OnPage
<1>3. /\ past \subseteq rows /\ Columns(past) /\ Cardinality(past) = N - m
      /\ \A x \in past : Place(R, rows, x) = Place(Order(kind, past), past, x) + m
  BY PastIsTheRest
<1>4. Pages!Shown(kind, t, KeyAfter(kind, t, m)) = F
  BY <1>3, SizesOfPages DEF Pages!Shown, OnPage
<1>5. F \in [1 .. n -> past] /\ \A i \in 1 .. n : Place(Order(kind, past), past, F[i]) = i - 1
  <2> HIDE DEF past, n
  <2> QED
    BY <1>2, <1>3, FirstsAreInPlace
<1>6. ASSUME NEW i \in 1 .. n
      PROVE  F[i] = L[m + i]
  <2>1. m + i \in 1 .. N
    BY <1>1, <1>2
  <2>2. F[i] \in rows /\ Place(R, rows, F[i]) = (i - 1) + m
    BY <1>3, <1>5
  <2>3. L[m + i] \in rows /\ Place(R, rows, L[m + i]) = (m + i) - 1
    BY <1>1, <2>1
  <2>4. (i - 1) + m = (m + i) - 1
    BY <1>2
  <2>5. IsFiniteSet(rows) /\ Orders(R, rows)
    BY ListingsAreOrdered
  <2> HIDE DEF F, L, R, rows, n
  <2>6. \A x, y \in rows : Place(R, rows, x) = Place(R, rows, y) => x = y
    <3> TAKE x \in rows, y \in rows
    <3>1. x = y \/ <<x, y>> \in R \/ <<y, x>> \in R
      BY <2>5 DEF Orders
    <3>2. /\ <<x, y>> \in R => Place(R, rows, x) < Place(R, rows, y)
          /\ <<y, x>> \in R => Place(R, rows, y) < Place(R, rows, x)
      BY <2>5, PlacesAreInOrder
    <3>3. Place(R, rows, x) \in Nat
      BY <2>5, AheadIsFinite
    <3> QED
      BY <3>1, <3>2, <3>3
  <2> QED
    BY <2>2, <2>3, <2>4, <2>6
<1>7. F = [i \in 1 .. n |-> L[m + i]]
  <2> HIDE DEF L, F, n
  <2> QED
    BY <1>5, <1>6
<1> QED
  BY <1>2, <1>3, <1>4, <1>7, SizesOfPages

\* The rows of so many places, and those of the page after them.
LEMMA WalksGoOn ==
    ASSUME NEW kind, NEW t, Columns(Pages!Rows(kind, t)), NEW m \in 0 .. AllRows(kind, t),
           PageRows \in Nat \ {0}
    PROVE  LET n     == OnPage(kind, t, m)
               shown == Pages!Shown(kind, t, KeyAfter(kind, t, m))
           IN /\ Walked(kind, t, m) \o shown = Walked(kind, t, m + n)
              /\ Len(shown) = n /\ Len(Walked(kind, t, m)) = m
              /\ shown = <<>> <=> n = 0
              /\ n # 0 => Pages!Last(shown) = KeyAfter(kind, t, m + n)
<1> DEFINE L == Pages!Listing(kind, t)
           n == OnPage(kind, t, m)
           N == AllRows(kind, t)
           rows == Pages!Rows(kind, t)
           shown == [i \in 1 .. n |-> L[m + i]]
<1>1. /\ n \in 0 .. PageRows /\ m + n \in 0 .. N
      /\ Pages!Shown(kind, t, KeyAfter(kind, t, m)) = shown
  BY PagesAreTheNext
<1>2. N \in Nat /\ L \in [1 .. N -> rows]
  BY ListingsAreInPlace
<1> HIDE DEF L, n, N, rows
<1>3. /\ \A i \in 1 .. m : i \in 1 .. N
      /\ \A i \in 1 .. n : m + i \in 1 .. N
      /\ \A i \in 1 .. (m + n) : i \in 1 .. N
  BY <1>1, <1>2
<1>4. /\ Walked(kind, t, m) = [i \in 1 .. m |-> L[i]]
      /\ Walked(kind, t, m + n) = [i \in 1 .. (m + n) |-> L[i]]
  BY DEF Walked, L
<1>5. /\ Walked(kind, t, m) \in Seq(rows) /\ Walked(kind, t, m + n) \in Seq(rows)
      /\ shown \in Seq(rows) /\ Len(shown) = n /\ Len(Walked(kind, t, m)) = m
      /\ Len(Walked(kind, t, m + n)) = m + n
  <2>1. m \in Nat /\ n \in Nat /\ m + n \in Nat
    BY <1>1, <1>2
  <2>2. \A k \in Nat : \A f \in [1 .. k -> rows] : f \in Seq(rows) /\ Len(f) = k
    OBVIOUS
  <2>3. Walked(kind, t, m) \in [1 .. m -> rows] /\ Walked(kind, t, m + n) \in [1 .. (m + n) -> rows]
    BY <1>2, <1>3, <1>4
  <2>4. shown \in [1 .. n -> rows]
    BY <1>2, <1>3
  <2> HIDE DEF shown
  <2> QED
    BY <2>1, <2>2, <2>3, <2>4
<1>6. Walked(kind, t, m) \o shown = Walked(kind, t, m + n)
  BY <1>1, <1>2, <1>3, <1>4, <1>5
<1>7. shown = <<>> <=> n = 0
  <2> HIDE DEF shown
  <2> QED
    BY <1>5
<1>8. ASSUME n # 0
      PROVE  Pages!Last(shown) = KeyAfter(kind, t, m + n)
  <2>1. Pages!Last(shown) = shown[Len(shown)]
    BY DEF Pages!Last
  <2>2. n \in 1 .. n /\ m + n # 0
    BY <1>1, <1>8
  <2>3. shown[Len(shown)] = L[m + n]
    BY <1>5, <2>2
  <2> QED
    BY <2>1, <2>2, <2>3 DEF KeyAfter, L
<1> QED
  BY <1>1, <1>5, <1>6, <1>7, <1>8 DEF n

--------------------------------------------------------------------------------
(* Walks.                                                                    *)

WhereFrom == {s[Pages!Db(client.kind)] : s \in client.sources}
ReleasesOf(kind) == {Source(i, kind) : i \in DOMAIN PageDeployments}

\* The rows are those of the first m places of release r, and the key is of the last.
StandsAt(r, m) ==
    /\ client.rows = Walked(client.kind, PageTables[r], m)
    /\ client.cursor.key = KeyAfter(client.kind, PageTables[r], m)

\* The rows of the pages before page p.
RowsBefore(p) == (p - 1) * PageRows

\* Where a listing ends: a search has so many pages.
WalkEnds(kind, t) ==
    IF kind = "search" /\ AllRows(kind, t) > SearchPages * PageRows THEN SearchPages * PageRows
    ELSE AllRows(kind, t)

\* A walk is as far as its cursor says, if one release alone has answered.
AskingIsOnTheWay ==
    client.phase = "asking" =>
        /\ client.cursor.p >= 1 /\ (client.kind = "search" => client.cursor.p <= SearchPages)
        /\ \A r \in ReleasesOf(client.kind) : WhereFrom \subseteq {r} =>
              \E m \in 0 .. AllRows(client.kind, PageTables[r]) :
                 StandsAt(r, m) /\ m = RowsBefore(client.cursor.p)
StreamIsOnTheWay ==
    client.phase = "streaming" =>
        /\ client.kind = "stream" /\ client.at \in DOMAIN PageDeployments
        /\ WhereFrom = {Source(client.at, "stream")}
        /\ \E m \in 0 .. AllRows("stream", PageTables[Source(client.at, "stream")]) :
              /\ m # AllRows("stream", PageTables[Source(client.at, "stream")])
              /\ StandsAt(Source(client.at, "stream"), m)
DoneIsTheEnd ==
    client.phase = "done" =>
        \A r \in ReleasesOf(client.kind) : WhereFrom = {r} =>
            client.rows = Walked(client.kind, PageTables[r], WalkEnds(client.kind, PageTables[r]))

WalkInv ==
    /\ IsFiniteSet(WhereFrom) /\ WhereFrom \subseteq ReleasesOf(client.kind)
    /\ client.phase = "idle" => client.rows = <<>>
    /\ client.phase = "asking" /\ client.kind = "stream" => client.cursor = Pages!Start
    /\ AskingIsOnTheWay /\ StreamIsOnTheWay /\ DoneIsTheEnd

LEMMA ListingsAreColumns ==
    ASSUME PagesAreGiven, NEW kind \in PageKinds, NEW r \in ReleasesOf(kind)
    PROVE  Columns(Pages!Rows(kind, PageTables[r]))
<1>1. PICK i \in DOMAIN PageDeployments : r = PageDeployments[i][Pages!Db(kind)]
  BY DEF ReleasesOf, Source, PageConfig, Pages!Config
<1> DEFINE rows == Pages!Rows(kind, PageTables[PageDeployments[i][Pages!Db(kind)]])
<1>2. Pages!IsFiniteSet(rows) /\ \E w \in 1 .. 3 : rows \subseteq [1 .. w -> Nat]
  BY DEF PagesAreGiven, Pages!ApiPagesAssumption
<1> HIDE DEF rows
<1>3. Columns(rows)
  BY <1>2, SizesOfPages DEF Columns
<1> QED
  BY <1>1, <1>3 DEF rows

\* Of nothing there is nothing to walk.
LEMMA NothingIsWalked ==
    ASSUME NEW kind, NEW t
    PROVE  Walked(kind, t, 0) = <<>> /\ KeyAfter(kind, t, 0) = <<>>
BY DEF Walked, KeyAfter

LEMMA WalkInit ==
    ASSUME PagesAreGiven, Pages!Init
    PROVE  WalkInv
<1>1. PICK kind \in PageKinds : client = Pages!Idle(kind)
  BY DEF Pages!Init
<1>2. client.phase = "idle" /\ client.sources = {} /\ client.rows = <<>>
  BY <1>1 DEF Pages!Idle
<1>3. WhereFrom = {}
  BY <1>2 DEF WhereFrom
<1> QED
  BY <1>2, <1>3, FS_EmptySet
  DEF WalkInv, AskingIsOnTheWay, StreamIsOnTheWay, DoneIsTheEnd

AfterPage(kind, t, m) == m + OnPage(kind, t, m)
WithPage(kind, t, m, key) == Walked(kind, t, m) \o Pages!Shown(kind, t, key)

\* A page moves on by its rows, and without a cursor it is the last of the walk.
LEMMA PagesWalk ==
    ASSUME PagesAreGiven, NEW kind, NEW t, Columns(Pages!Rows(kind, t)),
           NEW m \in 0 .. AllRows(kind, t), NEW c, NEW cursor, cursor.p \in Nat, cursor.p >= 1,
           kind = "search" => cursor.p <= SearchPages,
           m = RowsBefore(cursor.p), cursor.key = KeyAfter(kind, t, m)
    PROVE  LET next == Pages!NextCursor(c, kind, t, cursor)
               rows == WithPage(kind, t, m, cursor.key)
           IN /\ next = Pages!Start => rows = Walked(kind, t, WalkEnds(kind, t))
              /\ next # Pages!Start =>
                    /\ next.p = cursor.p + 1 /\ (kind = "search" => next.p <= SearchPages)
                    /\ AfterPage(kind, t, m) \in 0 .. AllRows(kind, t)
                    /\ rows = Walked(kind, t, AfterPage(kind, t, m))
                    /\ next.key = KeyAfter(kind, t, AfterPage(kind, t, m))
                    /\ RowsBefore(next.p) = AfterPage(kind, t, m)
<1> DEFINE next  == Pages!NextCursor(c, kind, t, cursor)
           shown == Pages!Shown(kind, t, cursor.key)
           n == OnPage(kind, t, m)
           N == AllRows(kind, t)
           p == cursor.p
           more == N - m > PageRows /\ (kind = "search" => p < SearchPages)
           to == [p |-> p + 1, key |-> Pages!Last(shown), s |-> c[Pages!Db(kind)].snapshot,
                  f |-> Pages!Filter(c, kind)]
<1>1. PageRows \in Nat \ {0} /\ SearchPages \in Nat \ {0}
  BY DEF PagesAreGiven, Pages!ApiPagesAssumption
<1>2. N \in Nat
  BY ListingsAreInPlace
<1>3. /\ n \in 0 .. PageRows /\ m + n \in 0 .. N
      /\ Pages!Cardinality(Pages!Past(kind, t, cursor.key)) = N - m
  BY <1>1, PagesAreTheNext
<1>4. /\ Walked(kind, t, m) \o shown = Walked(kind, t, m + n)
      /\ n # 0 => Pages!Last(shown) = KeyAfter(kind, t, m + n)
  <2> DEFINE page == Pages!Shown(kind, t, KeyAfter(kind, t, m))
  <2>1. /\ Walked(kind, t, m) \o page = Walked(kind, t, m + n)
        /\ n # 0 => Pages!Last(page) = KeyAfter(kind, t, m + n)
    BY <1>1, WalksGoOn
  <2>2. shown = page
    OBVIOUS
  <2> HIDE DEF shown, page, n
  <2> QED
    BY <2>1, <2>2
<1>5. next = IF more THEN to ELSE Pages!Start
  <2> HIDE DEF N
  <2> QED
    BY <1>3 DEF Pages!NextCursor
<1>6. p * PageRows \in Nat /\ (p - 1) * PageRows + PageRows = p * PageRows /\ m = (p - 1) * PageRows
  BY <1>1 DEF RowsBefore
<1>7. m \in 0 .. N /\ n = IF N - m < PageRows THEN N - m ELSE PageRows
  BY DEF OnPage
<1> HIDE DEF N, n, shown, next
<1>8. CASE more
  <2>1. n = PageRows /\ n # 0 /\ m + n = p * PageRows
    <3>1. n = PageRows
      BY <1>1, <1>2, <1>7, <1>8
    <3> QED
      BY <1>1, <1>6, <3>1
  <2>2. next = to /\ next.p = p + 1 /\ next # Pages!Start /\ next.key = Pages!Last(shown)
    <3>1. next = to
      BY <1>5, <1>8
    <3>2. to.p = p + 1 /\ to.key = Pages!Last(shown)
      OBVIOUS
    <3>3. Pages!Start.p = 1
      BY DEF Pages!Start
    <3> HIDE DEF to
    <3> QED
      BY <3>1, <3>2, <3>3
  <2>3. m + n = (next.p - 1) * PageRows
    <3>1. next.p - 1 = p
      BY <2>2
    <3> QED
      BY <2>1, <3>1
  <2>4. kind = "search" => next.p <= SearchPages
    BY <1>1, <1>8, <2>2
  <2> HIDE DEF p, to, more
  <2> QED
    BY <1>3, <1>4, <2>1, <2>2, <2>3, <2>4 DEF next, shown, N, p, n, RowsBefore, AfterPage, WithPage
<1>9. CASE ~more
  <2>1. next = Pages!Start
    BY <1>5, <1>9
  <2>2. m + n = WalkEnds(kind, t)
    <3>1. CASE kind = "search" /\ ~(p < SearchPages)
      <4>1. p = SearchPages
        BY <1>1, <3>1
      <4>2. SearchPages * PageRows = m + PageRows
        BY <1>6, <4>1
      <4> HIDE DEF p
      <4>3. SearchPages * PageRows \in Nat
        BY <1>1
      <4>4. WalkEnds(kind, t) = IF N > SearchPages * PageRows THEN SearchPages * PageRows ELSE N
        BY <3>1 DEF WalkEnds, N
      <4> QED
        BY <1>1, <1>2, <1>3, <1>7, <4>2, <4>3, <4>4
    <3>2. CASE ~(kind = "search" /\ ~(p < SearchPages))
      <4>1. ~(N - m > PageRows)
        BY <1>9, <3>2
      <4>2. m + n = N
        BY <1>1, <1>2, <1>7, <4>1
      <4>3. kind = "search" => N <= SearchPages * PageRows
        <5>1. ASSUME kind = "search"
              PROVE  p * PageRows <= SearchPages * PageRows
          <6>1. \A a, b, d \in Nat : a <= b => a * d <= b * d
            OBVIOUS
          <6> QED
            BY <1>1, <5>1, <6>1
        <5>2. m + PageRows = p * PageRows
          BY <1>6
        <5> HIDE DEF p
        <5>3. SearchPages * PageRows \in Nat
          BY <1>1
        <5> QED
          BY <1>1, <1>2, <1>6, <4>1, <5>1, <5>2, <5>3
      <4>4. SearchPages * PageRows \in Nat
        BY <1>1
      <4> HIDE DEF p
      <4> QED
        BY <1>2, <4>2, <4>3, <4>4 DEF WalkEnds, N
    <3> QED
      BY <3>1, <3>2
  <2> HIDE DEF more, to, p
  <2> QED
    BY <1>4, <2>1, <2>2 DEF next, shown, WithPage
<1> QED
  BY <1>8, <1>9

LEMMA TookWalks ==
    ASSUME PagesAreGiven, PagesInv, WalkInv, Pages!Paged, NEW j \in DOMAIN PageDeployments,
           client' = Pages!Took(Pages!Answer(PageConfig(j), client.kind, client.cursor))
    PROVE  WalkInv'
<1> DEFINE kind == client.kind  cursor == client.cursor
           r0 == Source(j, kind)  t == PageTables[r0]
           answer == Pages!Answer(PageConfig(j), kind, cursor)
           shown == Pages!Shown(kind, t, cursor.key)
           next == Pages!NextCursor(PageConfig(j), kind, t, cursor)
           phase == IF next = Pages!Start THEN "done" ELSE "asking"
<1>1. /\ answer.rows = shown /\ answer.next = next
      /\ answer.sources = [d \in Pages!Reads(kind) |-> PageConfig(j)[d]]
  BY DEF Pages!Answer, Source
<1>2. kind \in PageKinds /\ client.phase = "asking" /\ kind # "stream" /\ cursor.p \in Nat
  BY DEF Pages!Paged, PagesInv, PagesTypes, IsCursor
<1>3. answer.sources[Pages!Db(kind)] = r0
  BY <1>1, <1>2, KindsOfDatabases DEF Source
<1> HIDE DEF answer
<1>4. client' = [phase |-> phase, kind |-> kind, cursor |-> next, at |-> 0,
                 rows |-> client.rows \o shown,
                 sources |-> client.sources \cup {answer.sources}, since |-> client.since]
  BY <1>1 DEF PagesInv, PagesTypes, Pages!Took, answer
<1>5. /\ client'.phase = phase /\ client'.kind = kind /\ client'.cursor = next
      /\ client'.rows = client.rows \o shown
      /\ client'.sources = client.sources \cup {answer.sources}
  <2> HIDE DEF next, shown, phase, kind
  <2> QED
    BY <1>4
<1>6. WhereFrom' = WhereFrom \cup {r0}
  <2>1. Pages!Db(client.kind)' = Pages!Db(kind)
    BY <1>5 DEF Pages!Db
  <2> QED
    BY <1>3, <1>5, <2>1 DEF WhereFrom
<1>7. ReleasesOf(kind)' = ReleasesOf(kind) /\ r0 \in ReleasesOf(kind)
  BY <1>5 DEF ReleasesOf, Source, PageConfig, Pages!Config, Pages!Db
<1>8. IsFiniteSet(WhereFrom') /\ WhereFrom' \subseteq ReleasesOf(client'.kind)
  BY <1>5, <1>6, <1>7, FS_AddElement DEF WalkInv
<1>9. ASSUME WhereFrom' \subseteq {r0}
      PROVE  /\ next = Pages!Start => client'.rows = Walked(kind, t, WalkEnds(kind, t))
             /\ next # Pages!Start =>
                   \E k \in 0 .. AllRows(kind, t) :
                      /\ client'.rows = Walked(kind, t, k) /\ next.key = KeyAfter(kind, t, k)
                      /\ k = RowsBefore(next.p)
  <2>1. PICK m \in 0 .. AllRows(kind, t) : StandsAt(r0, m) /\ m = RowsBefore(cursor.p)
    BY <1>2, <1>6, <1>7, <1>9 DEF WalkInv, AskingIsOnTheWay
  <2>2. client.rows = Walked(kind, t, m) /\ cursor.key = KeyAfter(kind, t, m)
    BY <2>1 DEF StandsAt
  <2>3. Columns(Pages!Rows(kind, t))
    BY <1>2, <1>7, ListingsAreColumns
  <2>4. cursor.p >= 1 /\ (kind = "search" => cursor.p <= SearchPages)
    BY <1>2 DEF WalkInv, AskingIsOnTheWay
  <2>5. client'.rows = WithPage(kind, t, m, cursor.key)
    BY <1>5, <2>2 DEF WithPage
  <2> HIDE DEF kind, cursor, t
  <2>6. LET rows == WithPage(kind, t, m, cursor.key)
            to == Pages!NextCursor(PageConfig(j), kind, t, cursor)
        IN /\ to = Pages!Start => rows = Walked(kind, t, WalkEnds(kind, t))
           /\ to # Pages!Start =>
                 /\ to.p = cursor.p + 1 /\ (kind = "search" => to.p <= SearchPages)
                 /\ AfterPage(kind, t, m) \in 0 .. AllRows(kind, t)
                 /\ rows = Walked(kind, t, AfterPage(kind, t, m))
                 /\ to.key = KeyAfter(kind, t, AfterPage(kind, t, m))
                 /\ RowsBefore(to.p) = AfterPage(kind, t, m)
    BY <1>2, <2>1, <2>2, <2>3, <2>4, PagesWalk
  <2> QED
    BY <2>5, <2>6
<1>10. next # Pages!Start => next.p >= 1 /\ (kind = "search" => next.p <= SearchPages)
  <2>1. next # Pages!Start => next.p = cursor.p + 1 /\ (kind = "search" => cursor.p < SearchPages)
    BY DEF Pages!NextCursor
  <2>2. SearchPages \in Nat
    BY DEF PagesAreGiven, Pages!ApiPagesAssumption
  <2> HIDE DEF next, cursor
  <2> QED
    BY <1>2, <2>1, <2>2
<1>11. phase \in {"done", "asking"} /\ (phase = "asking" <=> next # Pages!Start)
  OBVIOUS
<1> HIDE DEF next, shown, phase, t, r0, kind
<1>12. AskingIsOnTheWay'
  <2> SUFFICES ASSUME phase = "asking"
               PROVE  /\ next.p >= 1 /\ (kind = "search" => next.p <= SearchPages)
                      /\ \A r \in ReleasesOf(kind) : WhereFrom' \subseteq {r} =>
                           \E m \in 0 .. AllRows(kind, PageTables[r]) :
                              /\ client'.rows = Walked(kind, PageTables[r], m)
                              /\ next.key = KeyAfter(kind, PageTables[r], m)
                              /\ m = RowsBefore(next.p)
    BY <1>5 DEF AskingIsOnTheWay, StandsAt
  <2>1. \A r \in ReleasesOf(kind) : WhereFrom' \subseteq {r} => r = r0
    BY <1>6
  <2> QED
    BY <1>9, <1>10, <1>11, <2>1 DEF t
<1>13. DoneIsTheEnd'
  <2> SUFFICES ASSUME phase = "done", NEW r \in ReleasesOf(kind), WhereFrom' = {r}
               PROVE  client'.rows = Walked(kind, PageTables[r], WalkEnds(kind, PageTables[r]))
    BY <1>5 DEF DoneIsTheEnd
  <2>1. r = r0
    BY <1>6
  <2> QED
    BY <1>9, <1>11, <2>1 DEF t
<1>14. StreamIsOnTheWay'
  BY <1>5, <1>11 DEF StreamIsOnTheWay
<1> QED
  BY <1>2, <1>5, <1>8, <1>11, <1>12, <1>13, <1>14 DEF WalkInv, kind

\* A page that is a copy is one that some configuration loaded.
LEMMA HitsAreLoads ==
    ASSUME PagesAreGiven, PagesInv, NEW i \in isolates, Pages!Hit(i)
    PROVE  /\ Pages!Paged
           /\ \E j \in DOMAIN PageDeployments :
                 client' = Pages!Took(Pages!Answer(PageConfig(j), client.kind, client.cursor))
<1>1. PICK e \in edge :
          /\ e.key = Pages!CacheKey(PageConfig(i), client.kind, client.cursor)
          /\ client' = Pages!Took(e.answer)
  BY DEF Pages!Hit, PageConfig
<1>2. PICK j \in DOMAIN PageDeployments :
          /\ e.key = Pages!CacheKey(PageConfig(j), e.kind, e.cursor)
          /\ e.answer = Pages!Answer(PageConfig(j), e.kind, e.cursor)
  BY DEF PagesInv, CopiesAreLoads
<1>3. client.kind \in PageKinds /\ e.kind \in PageKinds
  BY DEF PagesInv, PagesTypes, CopiesAreLoads
<1>4. /\ Pages!CacheKey(PageConfig(j), e.kind, e.cursor)[1] = e.kind
      /\ Pages!CacheKey(PageConfig(j), e.kind, e.cursor)[2] = e.cursor
  BY <1>3, KeysAreOfOnePage
<1>5. /\ Pages!CacheKey(PageConfig(i), client.kind, client.cursor)[1] = client.kind
      /\ Pages!CacheKey(PageConfig(i), client.kind, client.cursor)[2] = client.cursor
  BY <1>3, KeysAreOfOnePage
<1>6. e.kind = client.kind /\ e.cursor = client.cursor
  BY <1>1, <1>2, <1>4, <1>5
<1> QED
  BY <1>1, <1>2, <1>6 DEF Pages!Hit

\* A step that leaves the walk where it is.
LEMMA StandingStill ==
    ASSUME WalkInv, UNCHANGED <<client.kind, client.sources, client.rows>>,
           client'.phase \in {"refused", "failed"} \/ UNCHANGED client
    PROVE  WalkInv'
<1>1. client'.kind = client.kind /\ WhereFrom' = WhereFrom
  BY DEF WhereFrom
<1>2. CASE client'.phase \in {"refused", "failed"}
  BY <1>1, <1>2 DEF WalkInv, AskingIsOnTheWay, StreamIsOnTheWay, DoneIsTheEnd
<1>3. CASE UNCHANGED client
  <2>1. AskingIsOnTheWay'
    BY <1>1, <1>3 DEF WalkInv, AskingIsOnTheWay, StandsAt
  <2>2. StreamIsOnTheWay' /\ DoneIsTheEnd'
    BY <1>1, <1>3 DEF WalkInv, StreamIsOnTheWay, DoneIsTheEnd, StandsAt
  <2> QED
    BY <1>1, <1>3, <2>1, <2>2 DEF WalkInv
<1> QED
  BY <1>2, <1>3

LEMMA FailsStandStill ==
    ASSUME PagesInv, WalkInv, NEW phase \in {"refused", "failed"},
           client' = [client EXCEPT !.phase = phase]
    PROVE  WalkInv'
<1>1. client' = [phase |-> phase, kind |-> client.kind, cursor |-> client.cursor,
                 at |-> client.at, rows |-> client.rows, sources |-> client.sources,
                 since |-> client.since]
  BY DEF PagesInv, PagesTypes
<1> QED
  BY <1>1, StandingStill

LEMMA BeginWalks ==
    ASSUME PagesAreGiven, PagesInv, WalkInv, Pages!Begin
    PROVE  WalkInv'
<1>1. /\ client' = [client EXCEPT !.phase = "asking", !.since = isolates] /\ client.phase = "idle"
  BY DEF Pages!Begin
<1>2. client' = [phase |-> "asking", kind |-> client.kind, cursor |-> client.cursor,
                 at |-> client.at, rows |-> client.rows, sources |-> client.sources,
                 since |-> isolates]
  BY <1>1 DEF PagesInv, PagesTypes
<1>3. client.cursor = Pages!Start /\ client.sources = {} /\ client.rows = <<>>
  BY <1>1 DEF PagesInv, PagesFollowTheCursor, WalkInv
<1>4. client'.phase = "asking" /\ client'.kind = client.kind /\ client'.cursor = Pages!Start
      /\ client'.rows = <<>> /\ client'.sources = client.sources
  BY <1>2, <1>3
<1>5. WhereFrom' = WhereFrom
  BY <1>4 DEF WhereFrom
<1>6. Pages!Start.p = 1 /\ Pages!Start.key = <<>> /\ RowsBefore(1) = 0
  <2>1. PageRows \in Nat
    BY DEF PagesAreGiven, Pages!ApiPagesAssumption
  <2> QED
    BY <2>1 DEF Pages!Start, RowsBefore
<1>7. client.kind \in PageKinds /\ SearchPages >= 1
  BY DEF PagesAreGiven, Pages!ApiPagesAssumption, PagesInv, PagesTypes
<1>8. ASSUME NEW r \in ReleasesOf(client.kind)
      PROVE  0 \in 0 .. AllRows(client.kind, PageTables[r]) /\ StandsAt(r, 0)'
  <2>1. Columns(Pages!Rows(client.kind, PageTables[r]))
    BY <1>7, ListingsAreColumns
  <2>2. AllRows(client.kind, PageTables[r]) \in Nat
    BY <2>1, ListingsAreInPlace
  <2> QED
    BY <1>4, <1>6, <2>2, NothingIsWalked DEF StandsAt
<1>9. AskingIsOnTheWay'
  BY <1>4, <1>6, <1>7, <1>8 DEF AskingIsOnTheWay
<1> QED
  BY <1>4, <1>5, <1>9 DEF WalkInv, StreamIsOnTheWay, DoneIsTheEnd

LEMMA LeaveWalks ==
    ASSUME WalkInv, Pages!Leave
    PROVE  WalkInv'
<1>1. client' = Pages!Idle(client.kind)
  BY DEF Pages!Leave
<1>2. client'.phase = "idle" /\ client'.sources = {} /\ client'.rows = <<>>
  BY <1>1 DEF Pages!Idle
<1>3. WhereFrom' = {}
  BY <1>2 DEF WhereFrom
<1> QED
  BY <1>2, <1>3, FS_EmptySet DEF WalkInv, AskingIsOnTheWay, StreamIsOnTheWay, DoneIsTheEnd

LEMMA StreamsAreOfHoldings ==
    ASSUME NEW i
    PROVE  Source(i, "stream") = Pages!Config(i).holdings
<1>1. "stream" \notin Pages!OfDrops /\ "stream" \in Pages!OfHoldings
  BY DEF Pages!OfDrops, Pages!OfHoldings
<1>2. "stream" \notin Pages!OfCollections /\ "stream" \notin Pages!OfMoments
  BY DEF Pages!OfCollections, Pages!OfMoments
<1>3. Pages!Db("stream") = "holdings"
  BY <1>1, <1>2 DEF Pages!Db
<1> QED
  BY <1>3 DEF Source, PageConfig

\* The rows of an address that a streamed export counts.
LEMMA TotalIsAllRows ==
    ASSUME NEW i
    PROVE  Pages!Total(Pages!Config(i)) = AllRows("stream", PageTables[Source(i, "stream")])
<1>1. Pages!Rows("stream", PageTables[Source(i, "stream")]) = Pages!Tokens(PageTables[Source(i, "stream")])
  BY DEF Pages!Rows
<1>2. Source(i, "stream") = Pages!Config(i).holdings
  BY StreamsAreOfHoldings
<1> QED
  BY <1>1, <1>2, SizesOfPages DEF Pages!Total, AllRows

LEMMA OpenWalks ==
    ASSUME PagesAreGiven, PagesInv, WalkInv, NEW i \in isolates, Pages!Open(i)
    PROVE  WalkInv'
<1> DEFINE s == [d \in Pages!Reads("stream") |-> Pages!Config(i)[d]]
           r0 == Source(i, "stream")  t == PageTables[r0]
           N == AllRows("stream", t)
           phase == IF N = 0 THEN "done" ELSE "streaming"
<1>1. client.phase = "asking" /\ client.kind = "stream" /\ i \in DOMAIN PageDeployments
  BY ConfigsAreDeployments DEF Pages!Open, PagesInv
<1>2. \/ client' = [client EXCEPT !.phase = "failed"]
      \/ client' = [client EXCEPT !.phase = phase, !.at = i, !.sources = {s}]
  <2> HIDE DEF s
  <2>1. Pages!Total(Pages!Config(i)) = N
    BY TotalIsAllRows
  <2> HIDE DEF N
  <2> QED
    BY <2>1 DEF Pages!Open, s
<1>3. CASE client' = [client EXCEPT !.phase = "failed"]
  BY <1>3, FailsStandStill
<1>4. CASE client' = [client EXCEPT !.phase = phase, !.at = i, !.sources = {s}]
  <2>1. s[Pages!Db("stream")] = r0
    BY DEF Source, PageConfig, Pages!Db, Pages!Reads, Pages!OfDrops, Pages!OfHoldings,
           Pages!CardListings
  <2>2. phase \in {"done", "streaming"} /\ (phase = "done" <=> N = 0)
    OBVIOUS
  <2> HIDE DEF s, phase
  <2>3. client' = [phase |-> phase, kind |-> client.kind, cursor |-> client.cursor, at |-> i,
                   rows |-> client.rows, sources |-> {s}, since |-> client.since]
    BY <1>4 DEF PagesInv, PagesTypes
  <2>4. /\ client'.phase = phase /\ client'.kind = "stream" /\ client'.at = i
        /\ client'.sources = {s} /\ client'.rows = client.rows /\ client'.cursor = client.cursor
    BY <1>1, <2>3
  <2>5. WhereFrom' = {r0}
    BY <2>1, <2>4 DEF WhereFrom
  <2>6. r0 \in ReleasesOf("stream")
    BY <1>1 DEF ReleasesOf
  <2>7. client.cursor = Pages!Start /\ client.sources = {}
    BY <1>1 DEF WalkInv, PagesInv, PagesFollowTheCursor
  <2>8. WhereFrom = {}
    BY <2>7 DEF WhereFrom
  <2>9. PICK m \in 0 .. N : StandsAt(r0, m) /\ m = RowsBefore(client.cursor.p)
    BY <1>1, <2>6, <2>8 DEF WalkInv, AskingIsOnTheWay
  <2>10. m = 0 /\ N \in Nat
    <3>1. PageRows \in Nat
      BY DEF PagesAreGiven, Pages!ApiPagesAssumption
    <3>2. RowsBefore(Pages!Start.p) = 0
      BY <3>1 DEF Pages!Start, RowsBefore
    <3>3. Columns(Pages!Rows("stream", t))
      BY <1>1, <2>6, ListingsAreColumns DEF PagesInv, PagesTypes
    <3> HIDE DEF t
    <3> QED
      BY <2>7, <2>9, <3>2, <3>3, ListingsAreInPlace
  <2>11. client.rows = Walked("stream", t, 0) /\ client.cursor.key = KeyAfter("stream", t, 0)
    BY <1>1, <2>9, <2>10 DEF StandsAt
  <2> HIDE DEF N
  <2>12. StandsAt(r0, 0)'
    BY <2>4, <2>11 DEF StandsAt
  <2>13. StreamIsOnTheWay'
    BY <1>1, <2>2, <2>4, <2>5, <2>10, <2>12 DEF StreamIsOnTheWay, N
  <2>14. DoneIsTheEnd'
    <3>1. WalkEnds("stream", t) = N
      BY DEF WalkEnds, N
    <3> QED
      BY <2>2, <2>4, <2>5, <2>11, <3>1 DEF DoneIsTheEnd
  <2>15. IsFiniteSet(WhereFrom')
    BY <2>5, FS_Singleton
  <2> QED
    BY <2>2, <2>4, <2>5, <2>6, <2>13, <2>14, <2>15 DEF WalkInv, AskingIsOnTheWay
<1> QED
  BY <1>2, <1>3, <1>4

LEMMA PullOfRelease ==
    ASSUME PagesAreGiven, PagesInv, WalkInv, Pages!Pull, NEW r0, r0 = Source(client.at, "stream")
    PROVE  WalkInv'
<1> DEFINE t == PageTables[r0]
           N == AllRows("stream", t)
           key == client.cursor.key
           batch == Pages!Shown("stream", t, key)
           ends == Len(batch) < PageRows \/ Len(client.rows) + Len(batch) >= N
           phase == IF ends THEN "done" ELSE client.phase
<1>1. client.phase = "streaming" /\ client.kind = "stream" /\ WhereFrom = {r0}
      /\ client.at \in DOMAIN PageDeployments
  BY DEF Pages!Pull, WalkInv, StreamIsOnTheWay
<1>2. PICK m \in 0 .. N : m # N /\ StandsAt(r0, m)
  BY <1>1 DEF WalkInv, StreamIsOnTheWay
<1>3. Columns(Pages!Rows("stream", t)) /\ PageRows \in Nat \ {0}
  <2>1. r0 \in ReleasesOf("stream")
    BY <1>1 DEF ReleasesOf
  <2> QED
    BY <1>1, <2>1, ListingsAreColumns
    DEF PagesInv, PagesTypes, PagesAreGiven, Pages!ApiPagesAssumption
<1> DEFINE n == OnPage("stream", t, m)
<1>4. client.rows = Walked("stream", t, m) /\ key = KeyAfter("stream", t, m)
  BY <1>1, <1>2 DEF StandsAt
<1>5. N \in Nat /\ n \in 0 .. PageRows /\ m + n \in 0 .. N /\ n # 0
      /\ n = IF N - m < PageRows THEN N - m ELSE PageRows
  <2>1. N \in Nat
    BY <1>3, ListingsAreInPlace
  <2>2. n \in 0 .. PageRows /\ m + n \in 0 .. N
    BY <1>3, PagesAreTheNext
  <2>3. n = IF N - m < PageRows THEN N - m ELSE PageRows
    BY DEF OnPage
  <2> HIDE DEF n, N
  <2>4. m \in 0 .. N
    BY DEF N
  <2> QED
    BY <1>2, <1>3, <2>1, <2>2, <2>3, <2>4
<1>6. /\ Walked("stream", t, m) \o batch = Walked("stream", t, m + n)
      /\ Len(batch) = n /\ Len(Walked("stream", t, m)) = m /\ batch # <<>>
      /\ Pages!Last(batch) = KeyAfter("stream", t, m + n)
  <2> DEFINE page == Pages!Shown("stream", t, KeyAfter("stream", t, m))
  <2>1. /\ Walked("stream", t, m) \o page = Walked("stream", t, m + n)
        /\ Len(page) = n /\ Len(Walked("stream", t, m)) = m /\ (page = <<>> <=> n = 0)
        /\ n # 0 => Pages!Last(page) = KeyAfter("stream", t, m + n)
    BY <1>3, WalksGoOn
  <2>2. batch = page
    BY <1>4
  <2> HIDE DEF batch, page, n
  <2> QED
    BY <1>5, <2>1, <2>2
<1>7. client' = [client EXCEPT !.rows = @ \o batch, !.cursor.key = Pages!Last(batch), !.phase = phase]
  <2>1. Pages!Total(Pages!Config(client.at)) = N
    BY TotalIsAllRows
  <2>2. r0 = Pages!Config(client.at).holdings
    BY StreamsAreOfHoldings
  <2>3. batch = Pages!Shown("stream", PageTables[Pages!Config(client.at).holdings], key)
    BY <2>2
  <2> HIDE DEF batch, N
  <2> QED
    BY <1>6, <2>1, <2>3 DEF Pages!Pull
<1>8. ends <=> m + n = N
  <2> HIDE DEF batch, N, n, t
  <2>1. Len(client.rows) = m
    BY <1>4, <1>6
  <2>2. m \in 0 .. N
    BY DEF N
  <2> QED
    BY <1>2, <1>3, <1>5, <1>6, <2>1, <2>2
<1>9. phase \in {"done", "streaming"} /\ (phase = "done" <=> ends)
  BY <1>1
<1> HIDE DEF batch, N, n, t, ends, phase
<1>10. client'.rows = Walked("stream", t, m + n) /\ client'.phase = phase /\ client'.at = client.at
       /\ client'.sources = client.sources /\ client'.kind = "stream"
       /\ client'.cursor.key = KeyAfter("stream", t, m + n)
  <2> DEFINE last == Pages!Last(batch)  cursor == [client.cursor EXCEPT !.key = last]
             rows == client.rows \o batch
  <2>1. rows = Walked("stream", t, m + n) /\ last = KeyAfter("stream", t, m + n)
    BY <1>4, <1>6
  <2>2. client' = [client EXCEPT !.rows = rows, !.cursor = cursor, !.phase = phase]
    <3>1. client = [phase |-> client.phase, kind |-> client.kind, cursor |-> client.cursor,
                 at |-> client.at, rows |-> client.rows, sources |-> client.sources,
                 since |-> client.since]
      BY DEF PagesInv, PagesTypes
    <3> QED
      BY <1>7, <3>1
  <2>3. cursor.key = last
    BY DEF PagesInv, PagesTypes, IsCursor
  <2> HIDE DEF rows, cursor, last
  <2>4. client' = [phase |-> phase, kind |-> client.kind, cursor |-> cursor,
                   at |-> client.at, rows |-> rows, sources |-> client.sources,
                   since |-> client.since]
    BY <2>2 DEF PagesInv, PagesTypes
  <2> QED
    BY <1>1, <2>1, <2>3, <2>4
<1>11. WhereFrom' = WhereFrom
  BY <1>1, <1>10 DEF WhereFrom
<1>12. StandsAt(r0, m + n)'
  BY <1>10 DEF StandsAt, t
<1>13. StreamIsOnTheWay'
  <2> SUFFICES ASSUME phase = "streaming"
               PROVE  /\ WhereFrom' = {r0}
                      /\ \E k \in 0 .. N : k # N /\ StandsAt(r0, k)'
    BY <1>1, <1>10 DEF StreamIsOnTheWay, N, t
  <2>1. m + n # N
    BY <1>8, <1>9
  <2> QED
    BY <1>1, <1>5, <1>11, <1>12, <2>1
<1>14. DoneIsTheEnd'
  <2> SUFFICES ASSUME phase = "done"
               PROVE  client'.rows = Walked("stream", t, WalkEnds("stream", t))
    BY <1>1, <1>10, <1>11 DEF DoneIsTheEnd, t
  <2>1. WalkEnds("stream", t) = N
    BY DEF WalkEnds, N
  <2> QED
    BY <1>8, <1>9, <1>10, <2>1
<1> QED
  BY <1>1, <1>9, <1>10, <1>11, <1>13, <1>14 DEF WalkInv, AskingIsOnTheWay

LEMMA PullWalks ==
    ASSUME PagesAreGiven, PagesInv, WalkInv, Pages!Pull
    PROVE  WalkInv'
<1>1. \E r : r = Source(client.at, "stream")
  OBVIOUS
<1> QED
  BY <1>1, PullOfRelease

\* The newest configuration is not retired, and the cache holds so many copies.
PagesFit ==
    /\ configs \in isolates
    /\ IsFiniteSet(edge) /\ Cardinality(edge) <= MaxCopies

LEMMA PagesFitFirst ==
    ASSUME PagesAreGiven, Pages!Init
    PROVE  PagesFit
<1>1. MaxCopies \in Nat
  BY DEF PagesAreGiven, Pages!ApiPagesAssumption
<1> QED
  BY <1>1, FS_EmptySet DEF Pages!Init, PagesFit

LEMMA PagesStillFit ==
    ASSUME PagesAreGiven, PagesInv, PagesFit, [Pages!Next]_Pages!vars
    PROVE  PagesFit'
<1>1. MaxCopies \in Nat /\ configs \in Nat
  BY ConfigsAreDeployments DEF PagesInv, PagesAreGiven, Pages!ApiPagesAssumption
<1>2. \/ edge' = edge
      \/ \E e : edge' = edge \cup {e} /\ Cardinality(edge) < MaxCopies
      \/ \E e : edge' = edge \ {e}
  BY SizesOfPages DEF Pages!Next, Pages!Begin, Pages!Ask, Pages!Refuse, Pages!Hit, Pages!Load, Pages!Open,
     Pages!Pull, Pages!Leave, Pages!Evict, Pages!Publish, Pages!Deploy, Pages!Retire, Pages!vars
<1>3. \/ configs' = configs /\ isolates' = isolates
      \/ configs' = configs + 1 /\ isolates' = isolates \cup {configs + 1}
      \/ configs' = configs /\ \E i \in isolates : i < configs /\ isolates' = isolates \ {i}
  BY DEF Pages!Next, Pages!Begin, Pages!Ask, Pages!Refuse, Pages!Hit, Pages!Load, Pages!Open,
     Pages!Pull, Pages!Leave, Pages!Evict, Pages!Publish, Pages!Deploy, Pages!Retire, Pages!vars
<1>4. IsFiniteSet(edge') /\ Cardinality(edge') <= MaxCopies
  <2>0. IsFiniteSet(edge) /\ Cardinality(edge) \in Nat /\ Cardinality(edge) <= MaxCopies
    BY FS_CardinalityType DEF PagesFit
  <2>1. ASSUME NEW e, edge' = edge \cup {e}, Cardinality(edge) < MaxCopies
        PROVE  IsFiniteSet(edge') /\ Cardinality(edge') <= MaxCopies
    <3>1. /\ IsFiniteSet(edge \cup {e})
          /\ Cardinality(edge \cup {e}) = IF e \in edge THEN Cardinality(edge) ELSE Cardinality(edge) + 1
      BY <2>0, FS_AddElement
    <3> QED
      BY <1>1, <2>0, <2>1, <3>1
  <2>2. ASSUME NEW e, edge' = edge \ {e}
        PROVE  IsFiniteSet(edge') /\ Cardinality(edge') <= MaxCopies
    <3>1. /\ IsFiniteSet(edge \ {e})
          /\ Cardinality(edge \ {e}) = IF e \in edge THEN Cardinality(edge) - 1 ELSE Cardinality(edge)
      BY <2>0, FS_RemoveElement
    <3> QED
      BY <1>1, <2>0, <2>2, <3>1
  <2>3. CASE edge' = edge
    BY <2>0, <2>3
  <2> QED
    BY <1>2, <2>1, <2>2, <2>3
<1>5. configs' \in isolates'
  BY <1>1, <1>3 DEF PagesFit
<1> QED
  BY <1>4, <1>5 DEF PagesFit

LEMMA WalkStep ==
    ASSUME PagesAreGiven, PagesInv, WalkInv, [Pages!Next]_Pages!vars
    PROVE  WalkInv'
<1>1. CASE Pages!Begin
  BY <1>1, BeginWalks
<1>2. ASSUME NEW i \in isolates, Pages!Refuse(i)
      PROVE  WalkInv'
  <2>1. client' = [client EXCEPT !.phase = "refused"]
    BY <1>2 DEF Pages!Refuse
  <2> QED
    BY <2>1, FailsStandStill
<1>3. ASSUME NEW i \in isolates, Pages!Hit(i)
      PROVE  WalkInv'
  BY <1>3, HitsAreLoads, TookWalks
<1>4. ASSUME NEW i \in isolates, Pages!Load(i)
      PROVE  WalkInv'
  <2>1. /\ Pages!Paged
        /\ \/ client' = [client EXCEPT !.phase = "failed"]
           \/ client' = Pages!Took(Pages!Answer(PageConfig(i), client.kind, client.cursor))
    BY <1>4 DEF Pages!Load, PageConfig
  <2>2. i \in DOMAIN PageDeployments
    BY ConfigsAreDeployments DEF PagesInv
  <2>3. CASE client' = [client EXCEPT !.phase = "failed"]
    BY <2>3, FailsStandStill
  <2>4. CASE client' = Pages!Took(Pages!Answer(PageConfig(i), client.kind, client.cursor))
    BY <2>1, <2>2, <2>4, TookWalks
  <2> QED
    BY <2>1, <2>3, <2>4
<1>5. ASSUME NEW i \in isolates, Pages!Open(i)
      PROVE  WalkInv'
  BY <1>5, OpenWalks
<1>6. CASE Pages!Pull
  BY <1>6, PullWalks
<1>7. CASE Pages!Leave
  BY <1>7, LeaveWalks
<1>8. CASE Pages!Evict \/ Pages!Publish \/ Pages!Deploy \/ Pages!Retire \/ UNCHANGED Pages!vars
  <2>1. UNCHANGED client
    BY <1>8 DEF Pages!Evict, Pages!Publish, Pages!Deploy, Pages!Retire, Pages!vars
  <2> QED
    BY <2>1, StandingStill
<1> QED
  BY <1>1, <1>2, <1>3, <1>4, <1>5, <1>6, <1>7, <1>8 DEF Pages!Next, Pages!Ask

\* The order of the listings: followed to its end within one release a listing is whole.
LEMMA WalksAreWhole ==
    ASSUME PagesAreGiven, PagesInv, WalkInv
    PROVE  Pages!WalkIsWhole
<1> SUFFICES ASSUME client.phase = "done", NEW r \in WhereFrom, Cardinality(WhereFrom) = 1
             PROVE  LET whole == Pages!Listing(client.kind, PageTables[r])
                    IN client.rows = IF client.kind = "search" /\ Len(whole) > SearchPages * PageRows
                                     THEN SubSeq(whole, 1, SearchPages * PageRows) ELSE whole
  <2>1. Pages!Origins = WhereFrom
    BY DEF Pages!Origins, WhereFrom
  <2>2. Pages!Cardinality(WhereFrom) = Cardinality(WhereFrom)
    BY SizesOfPages
  <2> QED
    BY <2>1, <2>2 DEF Pages!WalkIsWhole
<1> DEFINE kind == client.kind  t == PageTables[r]  N == AllRows(kind, t)
           L == Pages!Listing(kind, t)  rows == Pages!Rows(kind, t)
           cap == SearchPages * PageRows
<1>1. WhereFrom = {r}
  <2>1. IsFiniteSet(WhereFrom)
    BY DEF WalkInv
  <2>2. \E x : WhereFrom = {x}
    BY <2>1, FS_Singleton
  <2> QED
    BY <2>2
<1>2. r \in ReleasesOf(kind)
  BY DEF WalkInv
<1>3. client.rows = Walked(kind, t, WalkEnds(kind, t))
  BY <1>1, <1>2 DEF WalkInv, DoneIsTheEnd
<1>4. Columns(rows)
  BY <1>2, ListingsAreColumns DEF PagesInv, PagesTypes
<1>5. N \in Nat /\ L \in [1 .. N -> rows]
  BY <1>4, ListingsAreInPlace
<1>6. cap \in Nat
  <2>1. SearchPages \in Nat /\ PageRows \in Nat
    BY DEF PagesAreGiven, Pages!ApiPagesAssumption
  <2> QED
    BY <2>1
<1>7. WalkEnds(kind, t) = IF kind = "search" /\ N > cap THEN cap ELSE N
  BY DEF WalkEnds
<1>8. \A k : Walked(kind, t, k) = [i \in 1 .. k |-> L[i]]
  BY DEF Walked
<1> HIDE DEF N, L, cap, rows, kind, t
<1>9. L \in Seq(rows) /\ Len(L) = N
  BY <1>5
<1>10. Walked(kind, t, N) = L
  BY <1>5, <1>8
<1>11. N > cap => Walked(kind, t, cap) = SubSeq(L, 1, cap)
  BY <1>5, <1>6, <1>8, <1>9
<1>12. client.rows = IF kind = "search" /\ Len(L) > cap THEN SubSeq(L, 1, cap) ELSE L
  BY <1>3, <1>7, <1>9, <1>10, <1>11
<1> QED
  BY <1>12 DEF kind, t, L, cap

LEMMA PagesAreTyped ==
    ASSUME PagesAreGiven, PagesInv, PagesFit
    PROVE  Pages!TypeOK
<1>1. configs \in DOMAIN PageDeployments
  BY ConfigsAreDeployments DEF PagesInv
<1>2. Pages!Cardinality(edge) <= MaxCopies
  BY SizesOfPages DEF PagesFit
<1>3. client.phase \in ClientPhases /\ client.kind \in PageKinds /\ isolates \subseteq 1 .. configs
  BY DEF PagesInv, PagesTypes
<1> QED
  BY <1>1, <1>2, <1>3 DEF Pages!TypeOK, PagesFit, ClientPhases

--------------------------------------------------------------------------------
(* The plan of the images.                                                   *)

PlanInv ==
    /\ plan.made \in BOOLEAN /\ job.attempt \in 1 .. MaxAttempts
    /\ plan.made => plan.entries = Images!Planned(refs) /\ ~Images!Conflicts(refs)

LEMMA PlanInit ==
    ASSUME Images!ImageArchiveAssumption, Images!Init
    PROVE  PlanInv
BY DEF Images!ImageArchiveAssumption, Images!Init, Images!Idle, PlanInv

LEMMA PlanStep ==
    ASSUME Images!ImageArchiveAssumption, ImagesInv, PlanInv, [Images!Next]_Images!vars
    PROVE  PlanInv'
<1>0. PICK L, S : job \in JobsOf(L, S)
  BY DEF ImagesInv, ImagesTypes
<1>1. MaxAttempts \in Nat \ {0} /\ job.attempt \in 1 .. MaxAttempts
  BY DEF Images!ImageArchiveAssumption, PlanInv
<1>2. \/ UNCHANGED <<refs, plan>>
      \/ /\ plan' = [made |-> TRUE, entries |-> Images!Planned(refs)] /\ ~Images!Conflicts(refs)
         /\ UNCHANGED <<refs, job>>
  BY DEF Images!Next, Images!Work, Images!BuildPlan, Images!Save, Images!LoadCode, Images!FetchImage,
     Images!ReadChunk, Images!CloseEntry, Images!Finish, Images!CleanUp, Images!Abort, Images!vars
<1> DEFINE Goes == \/ job'.attempt \in {job.attempt, 1}
                   \/ job.attempt < MaxAttempts /\ job'.attempt = job.attempt + 1
<1>4. Goes
  <2>1. CASE Images!FetchImage
    <3>1. \/ job' = [job EXCEPT !.at = "failing"]
          \/ job' = Images!Again
          \/ \E l : job' = [job EXCEPT !.at = "reading", !.length = l, !.got = 0, !.good = TRUE]
      <4>1. CASE aborted
        BY <2>1, <4>1 DEF Images!FetchImage, Images!Fail
      <4>2. CASE ~aborted
        <5>1. \/ job' = Images!Again
              \/ job' = [job EXCEPT !.at = "failing"]
              \/ \E l \in {Stored[Images!Entry.url], Stored[Images!Entry.url] + 1} :
                    job' = IF Images!Entry.bytes \notin {0, l} THEN [job EXCEPT !.at = "failing"]
                           ELSE [job EXCEPT !.at = "reading", !.length = l, !.got = 0, !.good = TRUE]
          BY <2>1, <4>2 DEF Images!FetchImage, Images!Fail
        <5> QED
          BY <5>1
      <4> QED
        BY <4>1, <4>2
    <3>2. ASSUME job' = [job EXCEPT !.at = "failing"]  PROVE Goes
      BY <1>0, <3>2 DEF JobsOf
    <3>3. ASSUME job' = Images!Again  PROVE Goes
      BY <1>0, <3>3 DEF JobsOf, Images!Again
    <3>4. ASSUME NEW l, job' = [job EXCEPT !.at = "reading", !.length = l, !.got = 0, !.good = TRUE]
          PROVE  Goes
      BY <1>0, <3>4 DEF JobsOf
    <3> HIDE DEF Goes
    <3> QED
      BY <3>1, <3>2, <3>3, <3>4
  <2>2. CASE UNCHANGED Images!vars \/ Images!Abort \/ Images!BuildPlan \/ Images!LoadCode
             \/ Images!Finish \/ Images!CleanUp
    <3>1. job' = job \/ \E s : job' = [job EXCEPT !.at = s]
      BY <2>2 DEF Images!BuildPlan, Images!LoadCode, Images!Finish, Images!CleanUp,
         Images!Abort, Images!Fail, Images!vars
    <3> QED
      BY <1>0, <3>1 DEF JobsOf
  <2>3. CASE \E kind \in {"memory", "file"} : Images!Save(kind)
    <3>1. \E s : job' = [job EXCEPT !.at = s]
      BY <2>3 DEF Images!Save
    <3> QED
      BY <1>0, <3>1 DEF JobsOf
  <2>4. CASE Images!ReadChunk
    <3>1. \/ \E s : job' = [job EXCEPT !.at = s]
          \/ \E g : job' = [job EXCEPT !.got = @ + 1, !.out = @ + 1, !.good = g]
      BY <2>4 DEF Images!ReadChunk, Images!Fail
    <3> QED
      BY <1>0, <3>1 DEF JobsOf
  <2>5. CASE Images!CloseEntry
    <3>1. \/ \E s : job' = [job EXCEPT !.at = s]
          \/ \E s, z : job' = [job EXCEPT !.at = s, !.index = @ + 1, !.attempt = 1, !.zip = z]
      BY <2>5 DEF Images!CloseEntry, Images!Fail
    <3> QED
      BY <1>0, <3>1 DEF JobsOf
  <2> HIDE DEF Goes
  <2> QED
    BY <2>1, <2>2, <2>3, <2>4, <2>5 DEF Images!Next, Images!Work
<1>5. job'.attempt \in 1 .. MaxAttempts
  BY <1>1, <1>4
<1> DEFINE whole == Images!Planned(refs)
           clash == Images!Conflicts(refs)
<1>6. \/ refs' = refs /\ plan' = plan
      \/ refs' = refs /\ plan' = [made |-> TRUE, entries |-> whole] /\ ~clash
  BY <1>2
<1>7. plan.made \in BOOLEAN /\ (plan.made => plan.entries = whole /\ ~clash)
  BY DEF PlanInv
<1>8. refs' = refs
  BY <1>6
<1>9. whole' = whole /\ clash' = clash
  BY <1>8
<1> HIDE DEF whole, clash
<1>10. plan'.made \in BOOLEAN
  <2>1. CASE plan' = plan
    BY <1>7, <2>1
  <2>2. CASE plan' = [made |-> TRUE, entries |-> whole]
    <3>1. plan'.made = TRUE
      BY <2>2
    <3> QED
      BY <3>1
  <2> QED
    BY <1>6, <2>1, <2>2
<1>11. plan'.made => plan'.entries = whole /\ ~clash
  BY <1>6, <1>7
<1>12. plan'.made => plan'.entries = whole' /\ ~clash'
  BY <1>9, <1>11
<1> QED
  BY <1>5, <1>10, <1>12 DEF PlanInv, whole, clash

\* A reference that says a length says the one that the plan expects.
LEMMA LengthsAreExpected ==
    ASSUME Images!ImageArchiveAssumption, NEW r \in References, ~Images!Conflicts(r),
           NEW x \in Images!Kept(r)
    PROVE  x.bytes \in {0, Images!Expected(r, x.url)}
<1> DEFINE Of == {y \in Images!Kept(r) : y.url = x.url}
           All == {y.bytes : y \in Of}
           Said == Images!Lengths(r, x.url)
           f == [y \in Of |-> y.bytes]
<1>1. IsFiniteSet(r) /\ \A y \in r : y.bytes \in Nat
  <2>1. \A q \in References : Images!IsFiniteSet(q) /\ \A y \in q : y.bytes \in Nat
    BY DEF Images!ImageArchiveAssumption
  <2> QED
    BY <2>1, SameSizes
<1>2. IsFiniteSet(Of)
  <2>1. Of \in SUBSET r
    BY DEF Images!Kept
  <2> HIDE DEF Of
  <2> QED
    BY <1>1, <2>1, FS_Subset
<1>3. f \in Surjection(Of, All)
  <2>1. f \in [Of -> All] /\ \A b \in All : \E y \in Of : f[y] = b
    OBVIOUS
  <2> HIDE DEF f, Of, All
  <2> QED
    BY <2>1, Fun_IsSurj
<1>4. IsFiniteSet(All)
  <2> HIDE DEF f, Of, All
  <2> QED
    BY <1>2, <1>3, FS_Surjection
<1>5. Said = All \ {0} /\ Said \subseteq Nat
  <2>1. Said = All \ {0}
    BY DEF Images!Lengths
  <2>2. \A y \in Of : y.bytes \in Nat
    BY <1>1 DEF Images!Kept
  <2> QED
    BY <2>1, <2>2
<1>6. IsFiniteSet(Said) /\ ~(Cardinality(Said) > 1)
  <2>1. IsFiniteSet(Said)
    <3> HIDE DEF Said, All
    <3> QED
      BY <1>4, <1>5, FS_RemoveElement
  <2>2. x.url \in Pinned
    BY DEF Images!Kept
  <2>3. ~(Images!Cardinality(Said) > 1)
    BY <2>2 DEF Images!Conflicts
  <2> QED
    BY <2>1, <2>3, SameSizes
<1>7. CASE x.bytes # 0
  <2>1. x.bytes \in Said
    BY <1>5, <1>7
  <2> HIDE DEF Said
  <2>2. Said = {x.bytes}
    <3>1. Cardinality(Said \ {x.bytes}) = Cardinality(Said) - 1 /\ IsFiniteSet(Said \ {x.bytes})
      BY <1>6, <2>1, FS_RemoveElement
    <3>2. Cardinality(Said) \in Nat /\ Cardinality(Said \ {x.bytes}) \in Nat
      BY <1>6, <3>1, FS_CardinalityType
    <3>3. Cardinality(Said \ {x.bytes}) = 0
      BY <1>6, <3>1, <3>2
    <3>4. Said \ {x.bytes} = {}
      BY <3>1, <3>3, FS_EmptySet
    <3> QED
      BY <2>1, <3>4
  <2>3. Images!Max({x.bytes}) = x.bytes
    BY <1>5, <2>1 DEF Images!Max
  <2>4. Images!Expected(r, x.url) = Images!Max(Said)
    BY <2>1 DEF Images!Expected, Said
  <2> QED
    BY <2>2, <2>3, <2>4
<1> QED
  BY <1>7

\* The images of a plan are each in its place.
LEMMA PlansAreInPlace ==
    ASSUME Images!ImageArchiveAssumption, NEW r
    PROVE  LET S == Images!Referenced(r)
               R == {p \in S \X S : p[1] < p[2]}
               plan_ == Images!Planned(r)
           IN /\ IsFiniteSet(S) /\ Orders(R, S) /\ Cardinality(S) \in Nat
              /\ DOMAIN plan_ = 1 .. Cardinality(S)
              /\ \A i \in 1 .. Cardinality(S) :
                    /\ plan_[i].url \in S /\ Place(R, S, plan_[i].url) = i - 1
                    /\ plan_[i].bytes = Images!Expected(r, plan_[i].url)
<1> DEFINE S == Images!Referenced(r)
           R == {p \in S \X S : p[1] < p[2]}
           url(i) == CHOOSE u \in S : Images!Cardinality({v \in S : v < u}) = i - 1
<1>1. IsFiniteSet(S) /\ S \subseteq Nat
  <2>1. S \in SUBSET Pinned
    BY DEF Images!Referenced
  <2>2. IsFiniteSet(Pinned) /\ Pinned \subseteq Nat
    BY SameSizes DEF Images!ImageArchiveAssumption
  <2> HIDE DEF S
  <2> QED
    BY <2>1, <2>2, FS_Subset
<1>2. Images!Planned(r) = [i \in 1 .. Cardinality(S) |->
                              [url |-> url(i), bytes |-> Images!Expected(r, url(i))]]
  BY SameSizes DEF Images!Planned
<1> HIDE DEF S
<1>3. Orders(R, S) /\ Cardinality(S) \in Nat
  <2>1. \A x \in S : x \in Nat
    BY <1>1
  <2>2. \A x, y \in S : <<x, y>> \in R <=> x < y
    OBVIOUS
  <2> HIDE DEF R
  <2> QED
    BY <1>1, <2>1, <2>2, FS_CardinalityType DEF Orders
<1>4. \A u \in S : Images!Cardinality({v \in S : v < u}) = Place(R, S, u)
  <2> TAKE u \in S
  <2>1. {v \in S : v < u} = Ahead(R, S, u)
    BY DEF Ahead
  <2> QED
    BY <2>1, SameSizes DEF Place
<1>5. ASSUME NEW i \in 1 .. Cardinality(S)
      PROVE  url(i) \in S /\ Place(R, S, url(i)) = i - 1
  <2>1. i - 1 \in Nat /\ i - 1 < Cardinality(S)
    BY <1>3
  <2>2. \E u \in S : Place(R, S, u) = i - 1
    <3> DEFINE n == i - 1
    <3>1. n \in Nat /\ n < Cardinality(S) /\ Orders(R, S) /\ IsFiniteSet(S)
      BY <1>1, <1>3, <2>1
    <3> HIDE DEF R, url, n
    <3>2. \E u \in S : Place(R, S, u) = n
      BY <3>1, PlacesAreTaken
    <3> QED
      BY <3>2 DEF n
  <2> DEFINE P(u) == Images!Cardinality({v \in S : v < u}) = i - 1
  <2>3. \E u \in S : P(u)
    BY <1>4, <2>2
  <2>4. url(i) \in S /\ P(url(i))
    <3> HIDE DEF P
    <3>1. (CHOOSE u \in S : P(u)) \in S /\ P(CHOOSE u \in S : P(u))
      BY <2>3
    <3> QED
      BY <3>1 DEF P
  <2> QED
    BY <1>4, <2>4
<1> HIDE DEF url
<1> QED
  BY <1>1, <1>2, <1>3, <1>5 DEF S

\* planPersonalImages: every public image of the archive once, and no other.
LEMMA PlansAreTheArchive ==
    ASSUME Images!ImageArchiveAssumption, ImagesInv, PlanInv
    PROVE  Images!PlanIsTheArchive
<1> SUFFICES ASSUME plan.made
             PROVE  /\ \A x \in Images!Kept(refs) : \E e \in Images!Range(plan.entries) :
                          e.url = x.url /\ x.bytes \in {0, e.bytes}
                    /\ \A i, j \in DOMAIN plan.entries :
                          plan.entries[i].url = plan.entries[j].url => i = j
                    /\ \A e \in Images!Range(plan.entries) :
                          \E x \in refs : x.url = e.url /\ e.url \in Pinned
  BY DEF Images!PlanIsTheArchive
<1> DEFINE S == Images!Referenced(refs)
           R == {p \in S \X S : p[1] < p[2]}
           N == Cardinality(S)
           entries == plan.entries
<1>1. entries = Images!Planned(refs) /\ ~Images!Conflicts(refs) /\ refs \in References
  BY DEF PlanInv, ImagesInv, ImagesTypes
<1>2. /\ IsFiniteSet(S) /\ Orders(R, S) /\ N \in Nat
      /\ DOMAIN entries = 1 .. N
      /\ \A i \in 1 .. N : /\ entries[i].url \in S /\ Place(R, S, entries[i].url) = i - 1
                           /\ entries[i].bytes = Images!Expected(refs, entries[i].url)
  BY <1>1, PlansAreInPlace
<1>3. Images!Range(entries) = {entries[i] : i \in 1 .. N}
  BY <1>2 DEF Images!Range
<1>4. \A u \in S : u \in Pinned /\ \E x \in refs : x.url = u
  BY DEF Images!Referenced
<1>5. \A x \in Images!Kept(refs) : x.url \in S
  BY DEF Images!Kept, Images!Referenced
<1> HIDE DEF S, R, N, entries
<1>6. ASSUME NEW x \in Images!Kept(refs)
      PROVE  \E e \in Images!Range(entries) : e.url = x.url /\ x.bytes \in {0, e.bytes}
  <2>1. x.url \in S /\ Place(R, S, x.url) \in Nat /\ Place(R, S, x.url) < N
    BY <1>2, <1>5, AheadIsFinite DEF N
  <2> DEFINE i == Place(R, S, x.url) + 1
  <2>2. i \in 1 .. N /\ i - 1 = Place(R, S, x.url)
    BY <1>2, <2>1
  <2> HIDE DEF i
  <2>3. entries[i].url \in S /\ Place(R, S, entries[i].url) = Place(R, S, x.url)
    BY <1>2, <2>2
  <2>4. entries[i].url = x.url
    <3> DEFINE u == entries[i].url  v == x.url
    <3>1. u \in S /\ v \in S /\ Place(R, S, u) = Place(R, S, v)
      BY <2>1, <2>3
    <3> HIDE DEF u, v
    <3>2. u = v \/ <<u, v>> \in R \/ <<v, u>> \in R
      BY <1>2, <3>1 DEF Orders
    <3>3. /\ <<u, v>> \in R => Place(R, S, u) < Place(R, S, v)
          /\ <<v, u>> \in R => Place(R, S, v) < Place(R, S, u)
      BY <1>2, <3>1, PlacesAreInOrder
    <3>4. Place(R, S, u) \in Nat
      BY <1>2, <3>1, AheadIsFinite
    <3>5. u = v
      BY <3>1, <3>2, <3>3, <3>4
    <3> QED
      BY <3>5 DEF u, v
  <2>5. x.bytes \in {0, Images!Expected(refs, x.url)}
    BY <1>1, LengthsAreExpected
  <2> QED
    BY <1>2, <1>3, <2>2, <2>4, <2>5
<1>7. ASSUME NEW i \in DOMAIN entries, NEW j \in DOMAIN entries, entries[i].url = entries[j].url
      PROVE  i = j
  BY <1>2, <1>7
<1>8. ASSUME NEW e \in Images!Range(entries)
      PROVE  \E x \in refs : x.url = e.url /\ e.url \in Pinned
  BY <1>2, <1>3, <1>4
<1> QED
  BY <1>6, <1>7, <1>8 DEF entries

LEMMA ImagesAreTyped ==
    ASSUME ImagesInv, PlanInv
    PROVE  Images!TypeOK
<1>0. PICK L, S : job \in JobsOf(L, S)
  BY DEF ImagesInv, ImagesTypes
<1>1. job.index \in 1 .. (Len(plan.entries) + 1)
  <2>1. job.index \in Nat \ {0} /\ job.index <= Len(plan.entries) + 1 /\ Len(plan.entries) \in Nat
    BY <1>0 DEF JobsOf, ImagesInv, ImagesTypes, ZipFollowsPlan
  <2> QED
    BY <2>1
<1>2. /\ refs \in References
      /\ job.at \in {"idle", "loading", "asking", "reading", "failing", "done", "error"}
      /\ file.state \in {"none", "open", "closed", "aborted"}
  BY <1>0 DEF JobsOf, ImagesInv, ImagesTypes, Destinations
<1> QED
  BY <1>1, <1>2 DEF Images!TypeOK, PlanInv

LEMMA ZipIsTyped ==
    ASSUME ZipInv
    PROVE  Zip!TypeOK
BY DEF ZipInv, ZipTypes, Calls, Compressors, Zip!TypeOK

--------------------------------------------------------------------------------
(* The personal archive.                                                     *)

ExportIsGiven == Export!PersonalExportAssumption /\ Export!SnapshotsAreIdentified

Got == {"holdings", "moments", "tagged", "capsules", "memberships", "owned", "profiles",
        "segments", "cards"}

\* What the records G name.
HeldOf(G) == {t.drop : t \in G["holdings"]}
OwnedOf(G) == {x.n : x \in G["owned"]}
IdsOf(G) ==
    {x.collection : x \in G["memberships"]} \cup OwnedOf(G)
        \cup UNION {x.collections : x \in G["moments"] \cup G["tagged"]}
NamedOf(G) == UNION {x.drops : x \in G["moments"] \cup G["tagged"]}
RestOf(G) == (HeldOf(G) \cup NamedOf(G) \cup {x.drop : x \in G["segments"]}) \ HeldOf(G)

\* What stage k is to ask for in all.
WholeOf(k, G) ==
    CASE k = 5 -> HeldOf(G)
      [] k = 7 -> IdsOf(G)
      [] k = 8 -> OwnedOf(G)
      [] k = 9 -> RestOf(G)
      [] OTHER -> {}

\* What is left of stage i at stage k.
Undone(i, k, left, G) == IF k < i THEN WholeOf(i, G) ELSE IF k = i THEN left ELSE {}

\* A listing, which stage i reads, at stage k.
SoFar(m, s, i, at, k, after) ==
    IF k < i THEN {}
    ELSE IF k = i /\ at = "asking" THEN {x \in Export!Listing(m, s) : x.n <= after}
    ELSE Export!Listing(m, s)

ListingsSoFar(at, k, m, after, G) ==
    /\ G["holdings"] = SoFar(m, "holdings", 1, at, k, after)
    /\ G["moments"] = SoFar(m, "moments", 2, at, k, after)
    /\ G["tagged"] = SoFar(m, "tagged", 3, at, k, after)
    /\ G["capsules"] = SoFar(m, "capsules", 4, at, k, after)
    /\ G["owned"] = SoFar(m, "owned", 6, at, k, after)

Segments(m, ids) == {x \in Export!Of(m, "collections").items : x.collection \in ids}
Cards(m, held, rest) ==
    {Export!CardOf(m, d) : d \in held} \cup {Export!DetailOf(m, d) : d \in rest}

BatchesSoFar(k, m, left, G) ==
    /\ G["memberships"] = Export!Members(m, HeldOf(G) \ Undone(5, k, left, G))
    /\ G["profiles"] = IdsOf(G) \ Undone(7, k, left, G)
    /\ G["segments"] = Segments(m, OwnedOf(G) \ Undone(8, k, left, G))
    /\ G["cards"] = Cards(m, HeldOf(G), RestOf(G) \ Undone(9, k, left, G))

Collected(at, k, m, after, left, G) ==
    /\ ListingsSoFar(at, k, m, after, G)
    /\ BatchesSoFar(k, m, left, G)
    /\ left \subseteq WholeOf(k, G) /\ (at # "asking" => left = {})

Records(m) == \A s \in Export!Paging : \A x \in Export!Listing(m, s) : x.n \in Nat \ {0}

LEMMA CardsAreNamed ==
    ASSUME NEW m, NEW held, NEW rest
    PROVE  {x.n : x \in Cards(m, held, rest)} = held \cup rest
<1>1. \A d : Export!CardOf(m, d).n = d /\ Export!DetailOf(m, d).n = d
  BY DEF Export!CardOf, Export!DetailOf
<1> QED
  BY <1>1 DEF Cards

\* The next stage.
LEMMA Entered ==
    ASSUME NEW k \in 0 .. 8, NEW m, NEW after, NEW left, NEW G, Records(m),
           Collected("entering", k, m, after, left, G),
           NEW at, at = "asking" \/ (at = "entering" /\ WholeOf(k + 1, G) = {} /\ k + 1 \notin {1, 2, 3, 4, 6})
    PROVE  Collected(at, k + 1, m, 0, WholeOf(k + 1, G), G)
<1> DEFINE w == WholeOf(k + 1, G)
<1>1. left = {}
  BY DEF Collected
<1>2. \A i \in 5 .. 9 : Undone(i, k + 1, w, G) = Undone(i, k, left, G)
  BY <1>1 DEF Undone
<1>3. BatchesSoFar(k + 1, m, w, G)
  <2> HIDE DEF w
  <2>1. BatchesSoFar(k, m, left, G)
    BY DEF Collected
  <2>2. /\ Undone(5, k + 1, w, G) = Undone(5, k, left, G)
        /\ Undone(7, k + 1, w, G) = Undone(7, k, left, G)
        /\ Undone(8, k + 1, w, G) = Undone(8, k, left, G)
        /\ Undone(9, k + 1, w, G) = Undone(9, k, left, G)
    BY <1>2
  <2> QED
    BY <2>1, <2>2, Zenon DEF BatchesSoFar
<1>4. ASSUME NEW s \in Export!Paging, NEW i \in {1, 2, 3, 4, 6}
      PROVE  SoFar(m, s, i, at, k + 1, 0) = SoFar(m, s, i, "entering", k, after)
  <2>1. {x \in Export!Listing(m, s) : x.n <= 0} = {}
    <3>1. \A x \in Export!Listing(m, s) : x.n \in Nat \ {0}
      BY DEF Records
    <3> QED
      BY <3>1
  <2>2. CASE k + 1 < i
    BY <2>2 DEF SoFar
  <2>3. CASE k + 1 = i
    <3>1. at = "asking"
      BY <2>3
    <3> QED
      BY <2>1, <2>3, <3>1 DEF SoFar
  <2>4. CASE k + 1 > i
    BY <2>4 DEF SoFar
  <2> QED
    BY <2>2, <2>3, <2>4
<1>5. ListingsSoFar(at, k + 1, m, 0, G)
  <2>1. {"holdings", "moments", "tagged", "capsules", "owned"} \subseteq Export!Paging
    BY DEF Export!Paging
  <2> QED
    BY <1>4, <2>1 DEF Collected, ListingsSoFar
<1> QED
  BY <1>3, <1>5 DEF Collected

\* The kth stage.
StageOf(k) ==
    CASE k = 1 -> "holdings" [] k = 2 -> "moments" [] k = 3 -> "tagged" [] k = 4 -> "capsules"
      [] k = 5 -> "memberships" [] k = 6 -> "owned" [] k = 7 -> "profiles" [] k = 8 -> "segments"
      [] k = 9 -> "drops"

\* What a batched stage that has not begun has got.
LEMMA NotBegun ==
    ASSUME NEW k \in {1, 2, 3, 4, 6}, NEW m, NEW left, NEW G
    PROVE  /\ k < 5 => Export!Members(m, HeldOf(G) \ Undone(5, k, left, G)) = {}
           /\ k > 5 => HeldOf(G) \ Undone(5, k, left, G) = HeldOf(G)
           /\ IdsOf(G) \ Undone(7, k, left, G) = {}
           /\ Segments(m, OwnedOf(G) \ Undone(8, k, left, G)) = {}
           /\ RestOf(G) \ Undone(9, k, left, G) = {}
<1>1. /\ k < 5 => HeldOf(G) \ Undone(5, k, left, G) = {}
      /\ k > 5 => HeldOf(G) \ Undone(5, k, left, G) = HeldOf(G)
  BY DEF Undone, WholeOf
<1>2. IdsOf(G) \ Undone(7, k, left, G) = {}
  BY DEF Undone, WholeOf
<1>3. OwnedOf(G) \ Undone(8, k, left, G) = {}
  BY DEF Undone, WholeOf
<1>4. RestOf(G) \ Undone(9, k, left, G) = {}
  BY DEF Undone, WholeOf
<1> QED
  BY <1>1, <1>2, <1>3, <1>4 DEF Export!Members, Segments

\* A page of a listing is added, and it is the last or there are later ones.
PageTurned(k, m, s, G, H, page) ==
    /\ \A x \in Got \ {s, "cards"} : H[x] = G[x]
    /\ H[s] = G[s] \cup page
    /\ H["cards"] = IF k = 1 THEN G["cards"] \cup {Export!CardOf(m, x.drop) : x \in page}
                    ELSE G["cards"]
GoneOn(at, m, s, G, page, last) ==
    \/ at = "asking" /\ G[s] \cup page = {x \in Export!Listing(m, s) : x.n <= last}
    \/ at = "entering" /\ G[s] \cup page = Export!Listing(m, s)

LEMMA Turned ==
    ASSUME NEW k \in {1, 2, 3, 4, 6}, NEW m, NEW after, NEW left, NEW G, NEW H, NEW page,
           NEW at, NEW last, NEW s, s = StageOf(k),
           Collected("asking", k, m, after, left, G),
           PageTurned(k, m, s, G, H, page), GoneOn(at, m, s, G, page, last)
    PROVE  Collected(at, k, m, last, left, H)
<1>0. /\ \A x \in Got \ {s, "cards"} : H[x] = G[x]
      /\ H[s] = G[s] \cup page
      /\ H["cards"] = IF k = 1 THEN G["cards"] \cup {Export!CardOf(m, x.drop) : x \in page}
                      ELSE G["cards"]
  BY DEF PageTurned
<1>1. left = {}
  BY DEF Collected, WholeOf
<1>2. H[s] = SoFar(m, s, k, at, k, last)
  BY <1>0 DEF SoFar, GoneOn
<1>3. ListingsSoFar(at, k, m, last, H)
  <2> DEFINE L == [i \in {1, 2, 3, 4, 6} |-> StageOf(i)]
  <2>1. \A i \in {1, 2, 3, 4, 6} \ {k} : \A l :
           SoFar(m, l, i, at, k, last) = SoFar(m, l, i, "asking", k, after)
    BY DEF SoFar
  <2>2. \A i \in {1, 2, 3, 4, 6} \ {k} :
           StageOf(i) \in Got \ {s, "cards"} /\ H[StageOf(i)] = G[StageOf(i)]
    <3>1. \A i \in {1, 2, 3, 4, 6} : StageOf(i) \in Got \ {"cards"}
      BY DEF StageOf, Got
    <3>2. \A i \in {1, 2, 3, 4, 6} \ {k} : StageOf(i) # s
      BY DEF StageOf
    <3> QED
      BY <1>0, <3>1, <3>2
  <2>3. \A i \in {1, 2, 3, 4, 6} : G[StageOf(i)] = SoFar(m, StageOf(i), i, "asking", k, after)
    <3>1. ListingsSoFar("asking", k, m, after, G)
      BY DEF Collected
    <3>2. /\ StageOf(1) = "holdings" /\ StageOf(2) = "moments" /\ StageOf(3) = "tagged"
          /\ StageOf(4) = "capsules" /\ StageOf(6) = "owned"
      BY DEF StageOf
    <3> QED
      BY <3>1, <3>2 DEF ListingsSoFar
  <2>4. \A i \in {1, 2, 3, 4, 6} : H[StageOf(i)] = SoFar(m, StageOf(i), i, at, k, last)
    <3> TAKE i \in {1, 2, 3, 4, 6}
    <3>1. CASE i = k
      BY <1>2, <3>1
    <3>2. CASE i # k
      <4>1. i \in {1, 2, 3, 4, 6} \ {k}
        BY <3>2
      <4> QED
        BY <2>1, <2>2, <2>3, <4>1
    <3> QED
      BY <3>1, <3>2
  <2> QED
    BY <2>4 DEF ListingsSoFar, StageOf
<1>4. /\ H["memberships"] = G["memberships"] /\ H["profiles"] = G["profiles"]
      /\ H["segments"] = G["segments"]
  <2>1. s \in {"holdings", "moments", "tagged", "capsules", "owned"}
    BY DEF StageOf
  <2> QED
    BY <1>0, <2>1 DEF Got
<1>5. HeldOf(H) = IF k = 1 THEN HeldOf(G) \cup {x.drop : x \in page} ELSE HeldOf(G)
  <2>1. CASE k = 1
    <3>1. H["holdings"] = G["holdings"] \cup page
      BY <1>0, <2>1 DEF StageOf
    <3> QED
      BY <2>1, <3>1 DEF HeldOf
  <2>2. CASE k # 1
    <3>1. H["holdings"] = G["holdings"]
      <4>1. s \in {"moments", "tagged", "capsules", "owned"}
        BY <2>2 DEF StageOf
      <4> QED
        BY <1>0, <4>1 DEF Got
    <3> QED
      BY <2>2, <3>1 DEF HeldOf
  <2> QED
    BY <2>1, <2>2
<1>n. \A F : /\ k < 5 => Export!Members(m, HeldOf(F) \ Undone(5, k, left, F)) = {}
             /\ k > 5 => HeldOf(F) \ Undone(5, k, left, F) = HeldOf(F)
             /\ IdsOf(F) \ Undone(7, k, left, F) = {}
             /\ Segments(m, OwnedOf(F) \ Undone(8, k, left, F)) = {}
             /\ RestOf(F) \ Undone(9, k, left, F) = {}
  BY NotBegun
<1>6. H["memberships"] = Export!Members(m, HeldOf(H) \ Undone(5, k, left, H))
  <2>1. G["memberships"] = Export!Members(m, HeldOf(G) \ Undone(5, k, left, G))
    BY DEF Collected, BatchesSoFar
  <2>2. CASE k < 5
    BY <1>4, <2>1, <2>2, <1>n
  <2>3. CASE k > 5
    <3>1. HeldOf(H) = HeldOf(G)
      BY <1>5, <2>3
    <3> QED
      BY <1>4, <2>1, <2>3, <3>1, <1>n
  <2> QED
    BY <2>2, <2>3
<1>7. H["profiles"] = IdsOf(H) \ Undone(7, k, left, H)
  <2>1. G["profiles"] = IdsOf(G) \ Undone(7, k, left, G)
    BY DEF Collected, BatchesSoFar
  <2> QED
    BY <1>4, <2>1, <1>n
<1>8. H["segments"] = Segments(m, OwnedOf(H) \ Undone(8, k, left, H))
  <2>1. G["segments"] = Segments(m, OwnedOf(G) \ Undone(8, k, left, G))
    BY DEF Collected, BatchesSoFar
  <2> QED
    BY <1>4, <2>1, <1>n
<1>9. H["cards"] = Cards(m, HeldOf(H), RestOf(H) \ Undone(9, k, left, H))
  <2>1. G["cards"] = Cards(m, HeldOf(G), RestOf(G) \ Undone(9, k, left, G))
    BY DEF Collected, BatchesSoFar
  <2>2. /\ G["cards"] = {Export!CardOf(m, d) : d \in HeldOf(G)}
        /\ Cards(m, HeldOf(H), RestOf(H) \ Undone(9, k, left, H)) = {Export!CardOf(m, d) : d \in HeldOf(H)}
    BY <2>1, <1>n DEF Cards
  <2>3. CASE k = 1
    <3> DEFINE c(d) == Export!CardOf(m, d)
               A == HeldOf(G)  B == HeldOf(H)
    <3>1. H["cards"] = {c(d) : d \in A} \cup {c(x.drop) : x \in page}
      BY <1>0, <2>2, <2>3
    <3>2. B = A \cup {x.drop : x \in page}
      BY <1>5, <2>3
    <3> HIDE DEF c, A, B
    <3>3. {c(d) : d \in B} = {c(d) : d \in A} \cup {c(x.drop) : x \in page}
      BY <3>2
    <3>4. H["cards"] = {c(d) : d \in B}
      BY <3>1, <3>3
    <3> QED
      BY <2>2, <3>4 DEF c, B
  <2>4. CASE k # 1
    BY <1>0, <1>5, <2>2, <2>4
  <2> QED
    BY <2>3, <2>4
<1>10. BatchesSoFar(k, m, left, H)
  BY <1>6, <1>7, <1>8, <1>9 DEF BatchesSoFar
<1> QED
  BY <1>1, <1>3, <1>10 DEF Collected

\* What a batch of stage k brings.
BatchOf(k, m, asked) ==
    CASE k = 5 -> Export!Members(m, asked)
      [] k = 7 -> asked
      [] k = 8 -> Segments(m, asked)
      [] k = 9 -> {Export!DetailOf(m, d) : d \in asked}
FieldOf(k) == IF k = 9 THEN "cards" ELSE StageOf(k)

BatchAdded(k, m, G, H, asked) ==
    /\ \A x \in Got \ {FieldOf(k)} : H[x] = G[x]
    /\ H[FieldOf(k)] = G[FieldOf(k)] \cup BatchOf(k, m, asked)

LEMMA Batched ==
    ASSUME NEW k \in {5, 7, 8, 9}, NEW m, NEW after, NEW left, NEW G, NEW H, NEW asked \in SUBSET left,
           NEW at, at = (IF left \ asked = {} THEN "entering" ELSE "asking"),
           Collected("asking", k, m, after, left, G),
           BatchAdded(k, m, G, H, asked)
    PROVE  Collected(at, k, m, after, left \ asked, H)
<1> DEFINE rest == left \ asked
<1>0. /\ \A x \in Got \ {FieldOf(k)} : H[x] = G[x]
      /\ H[FieldOf(k)] = G[FieldOf(k)] \cup BatchOf(k, m, asked)
  BY DEF BatchAdded
<1>1. left \subseteq WholeOf(k, G) /\ ListingsSoFar("asking", k, m, after, G) /\ BatchesSoFar(k, m, left, G)
  BY DEF Collected
<1>2. /\ FieldOf(k) \in {"memberships", "profiles", "segments", "cards"}
      /\ k = 5 <=> FieldOf(k) = "memberships"
      /\ k = 7 <=> FieldOf(k) = "profiles"
      /\ k = 8 <=> FieldOf(k) = "segments"
      /\ k = 9 <=> FieldOf(k) = "cards"
  <2>1. /\ FieldOf(5) = "memberships" /\ FieldOf(7) = "profiles" /\ FieldOf(8) = "segments"
        /\ FieldOf(9) = "cards"
    BY DEF FieldOf, StageOf
  <2> QED
    BY <2>1
<1>3. /\ H["holdings"] = G["holdings"] /\ H["moments"] = G["moments"] /\ H["tagged"] = G["tagged"]
      /\ H["capsules"] = G["capsules"] /\ H["owned"] = G["owned"]
  BY <1>0, <1>2 DEF Got
<1>4. ListingsSoFar(at, k, m, after, H)
  BY <1>1, <1>3 DEF ListingsSoFar, SoFar
<1>5. /\ k # 5 => H["memberships"] = G["memberships"]
      /\ k # 7 => H["profiles"] = G["profiles"]
      /\ k # 8 => H["segments"] = G["segments"]
      /\ k # 9 => H["cards"] = G["cards"]
  BY <1>0, <1>2 DEF Got
<1>6. /\ HeldOf(H) = HeldOf(G) /\ OwnedOf(H) = OwnedOf(G) /\ NamedOf(H) = NamedOf(G)
      /\ k # 5 => IdsOf(H) = IdsOf(G)
      /\ k # 8 => RestOf(H) = RestOf(G)
  BY <1>3, <1>5 DEF HeldOf, OwnedOf, NamedOf, IdsOf, RestOf
<1>7. WholeOf(k, H) = WholeOf(k, G)
  BY <1>6 DEF WholeOf
<1>8. /\ G["memberships"] = Export!Members(m, HeldOf(G) \ Undone(5, k, left, G))
      /\ G["profiles"] = IdsOf(G) \ Undone(7, k, left, G)
      /\ G["segments"] = Segments(m, OwnedOf(G) \ Undone(8, k, left, G))
      /\ G["cards"] = Cards(m, HeldOf(G), RestOf(G) \ Undone(9, k, left, G))
  BY <1>1 DEF BatchesSoFar
<1>9. \A whole : left \subseteq whole => whole \ rest = (whole \ left) \cup asked
  OBVIOUS
<1> HIDE DEF rest
<1>10. H["memberships"] = Export!Members(m, HeldOf(H) \ Undone(5, k, rest, H))
  <2>1. CASE k = 5
    <3>1. H["memberships"] = Export!Members(m, HeldOf(G) \ left) \cup Export!Members(m, asked)
      BY <1>0, <1>2, <1>8, <2>1 DEF Undone, BatchOf
    <3>2. HeldOf(G) \ rest = (HeldOf(G) \ left) \cup asked
      BY <1>1, <1>9, <2>1 DEF WholeOf
    <3>3. H["memberships"] = Export!Members(m, HeldOf(G) \ rest)
      BY <3>1, <3>2 DEF Export!Members
    <3> QED
      BY <1>6, <2>1, <3>3 DEF Undone
  <2>2. CASE k # 5
    <3>1. H["memberships"] = G["memberships"] /\ k > 5
      BY <1>5, <2>2
    <3>2. Undone(5, k, left, G) = {} /\ Undone(5, k, rest, H) = {}
      BY <3>1 DEF Undone
    <3> QED
      BY <1>6, <1>8, <3>1, <3>2
  <2> QED
    BY <2>1, <2>2
<1>11. H["profiles"] = IdsOf(H) \ Undone(7, k, rest, H)
  <2>1. CASE k = 7
    <3>1. H["profiles"] = (IdsOf(G) \ left) \cup asked
      BY <1>0, <1>2, <1>8, <2>1 DEF Undone, BatchOf
    <3>2. IdsOf(G) \ rest = (IdsOf(G) \ left) \cup asked
      BY <1>1, <1>9, <2>1 DEF WholeOf
    <3> QED
      BY <1>6, <2>1, <3>1, <3>2 DEF Undone
  <2>2. CASE k > 7
    <3>1. IdsOf(H) = IdsOf(G) /\ H["profiles"] = G["profiles"]
      BY <1>5, <1>6, <2>2
    <3> QED
      BY <1>8, <2>2, <3>1 DEF Undone
  <2>3. CASE k < 7
    <3>1. H["profiles"] = G["profiles"]
      BY <1>5, <2>3
    <3>2. \A F : IdsOf(F) \ (IdsOf(F)) = {}
      OBVIOUS
    <3> QED
      BY <1>8, <2>3, <3>1, <3>2 DEF Undone, WholeOf
  <2> QED
    BY <2>1, <2>2, <2>3
<1>12. H["segments"] = Segments(m, OwnedOf(H) \ Undone(8, k, rest, H))
  <2>1. CASE k = 8
    <3>1. H["segments"] = Segments(m, OwnedOf(G) \ left) \cup Segments(m, asked)
      BY <1>0, <1>2, <1>8, <2>1 DEF Undone, BatchOf
    <3>2. OwnedOf(G) \ rest = (OwnedOf(G) \ left) \cup asked
      BY <1>1, <1>9, <2>1 DEF WholeOf
    <3>3. H["segments"] = Segments(m, OwnedOf(G) \ rest)
      BY <3>1, <3>2 DEF Segments
    <3> QED
      BY <1>6, <2>1, <3>3 DEF Undone
  <2>2. CASE k # 8
    BY <1>5, <1>6, <1>8, <2>2 DEF Undone, WholeOf
  <2> QED
    BY <2>1, <2>2
<1>13. H["cards"] = Cards(m, HeldOf(H), RestOf(H) \ Undone(9, k, rest, H))
  <2>1. CASE k = 9
    <3>1. H["cards"] = Cards(m, HeldOf(G), RestOf(G) \ left) \cup {Export!DetailOf(m, d) : d \in asked}
      BY <1>0, <1>2, <1>8, <2>1 DEF Undone, BatchOf
    <3>2. RestOf(G) \ rest = (RestOf(G) \ left) \cup asked
      BY <1>1, <1>9, <2>1 DEF WholeOf
    <3>3. H["cards"] = Cards(m, HeldOf(G), RestOf(G) \ rest)
      BY <3>1, <3>2 DEF Cards
    <3> QED
      BY <1>6, <2>1, <3>3 DEF Undone
  <2>2. CASE k # 9
    <3>1. \A F : RestOf(F) \ RestOf(F) = {}
      OBVIOUS
    <3>2. G["cards"] = Cards(m, HeldOf(G), {})
      BY <1>8, <2>2, <3>1 DEF Undone, WholeOf
    <3> QED
      BY <1>5, <1>6, <2>2, <3>1, <3>2 DEF Undone, WholeOf
  <2> QED
    BY <2>1, <2>2
<1>14. BatchesSoFar(k, m, rest, H)
  BY <1>10, <1>11, <1>12, <1>13 DEF BatchesSoFar
<1>15. rest \subseteq WholeOf(k, H) /\ (at # "asking" => rest = {})
  BY <1>1, <1>7 DEF rest
<1> QED
  BY <1>4, <1>14, <1>15 DEF Collected, rest

LEMMA SizesOfExports ==
    ASSUME NEW S
    PROVE  Export!Cardinality(S) = Cardinality(S) /\ (Export!IsFiniteSet(S) <=> IsFiniteSet(S))
BY DEF Export!Cardinality, Cardinality, Export!IsFiniteSet, IsFiniteSet

\* An order on a finite set has a first and a last place.
LEMMA PlacesAreBounded ==
    ASSUME NEW S, IsFiniteSet(S), S # {}, NEW R, Orders(R, S)
    PROVE  /\ \E x \in S : Ahead(R, S, x) = {}
           /\ \E x \in S : \A y \in S : <<x, y>> \notin R
<1> DEFINE N == Cardinality(S)
<1>1. N \in Nat /\ N # 0
  BY FS_CardinalityType, FS_EmptySet
<1>2. \A n \in Nat : n < N => \E x \in S : Place(R, S, x) = n
  BY PlacesAreTaken
<1>3. \E x \in S : Ahead(R, S, x) = {}
  <2>1. PICK x \in S : Place(R, S, x) = 0
    BY <1>1, <1>2
  <2>2. IsFiniteSet(Ahead(R, S, x)) /\ Cardinality(Ahead(R, S, x)) = 0
    BY <2>1, AheadIsFinite DEF Place
  <2> QED
    BY <2>2, FS_EmptySet
<1>4. \E x \in S : \A y \in S : <<x, y>> \notin R
  <2>1. N - 1 \in Nat /\ N - 1 < N
    BY <1>1
  <2>2. PICK x \in S : Place(R, S, x) = N - 1
    BY <1>2, <2>1
  <2>3. \A y \in S : Place(R, S, y) \in Nat /\ Place(R, S, y) < N
    BY AheadIsFinite
  <2>4. \A y \in S : <<x, y>> \in R => Place(R, S, x) < Place(R, S, y)
    BY PlacesAreInOrder
  <2> QED
    BY <1>1, <2>2, <2>3, <2>4
<1> QED
  BY <1>3, <1>4

\* A finite set of numbers has a least and a greatest one.
LEMMA NumbersAreBounded ==
    ASSUME NEW S, IsFiniteSet(S), S \subseteq Nat, S # {}
    PROVE  /\ \E x \in S : {y \in S : y < x} = {}
           /\ \E x \in S : \A y \in S : y <= x
<1> DEFINE R == {p \in S \X S : p[1] < p[2]}
<1>1. Orders(R, S)
  <2>1. \A x \in S : x \in Nat
    OBVIOUS
  <2>2. \A x, y \in S : <<x, y>> \in R <=> x < y
    OBVIOUS
  <2> HIDE DEF R
  <2> QED
    BY <2>1, <2>2 DEF Orders
<1>2. \A x \in S : Ahead(R, S, x) = {y \in S : y < x}
  BY DEF Ahead
<1>3. \A x, y \in S : <<x, y>> \in R <=> x < y
  OBVIOUS
<1> HIDE DEF R
<1>4. /\ \E x \in S : Ahead(R, S, x) = {}
      /\ \E x \in S : \A y \in S : <<x, y>> \notin R
  BY <1>1, PlacesAreBounded
<1>5. \A x, y \in S : ~(x < y) => y <= x
  <2>1. \A x \in S : x \in Nat
    OBVIOUS
  <2> QED
    BY <2>1
<1> QED
  BY <1>2, <1>3, <1>4, <1>5

\* The lowest of some numbers are the ones up to the greatest of them.
LEMMA LowestGoOn ==
    ASSUME NEW S, IsFiniteSet(S), S \subseteq Nat, NEW n \in Nat \ {0}
    PROVE  LET low  == Export!LowestOf(S, n)
               last == Export!Max(low)
           IN S # {} => last \in S /\ low = {x \in S : x <= last}
<1> SUFFICES ASSUME S # {}
             PROVE  /\ Export!Max(Export!LowestOf(S, n)) \in S
                    /\ Export!LowestOf(S, n) = {x \in S : x <= Export!Max(Export!LowestOf(S, n))}
  OBVIOUS
<1> DEFINE low == Export!LowestOf(S, n)
           last == Export!Max(low)
           below(x) == {y \in S : y < x}
<1>1. \A x \in S : IsFiniteSet(below(x)) /\ Cardinality(below(x)) \in Nat
  <2> TAKE x \in S
  <2>1. below(x) \in SUBSET S
    OBVIOUS
  <2> HIDE DEF below
  <2> QED
    BY <2>1, FS_Subset, FS_CardinalityType
<1>2. low = {x \in S : Cardinality(below(x)) < n}
  BY SizesOfExports DEF Export!LowestOf
<1>3. \A x, z \in S : x < z => Cardinality(below(x)) <= Cardinality(below(z))
  <2> TAKE x, z \in S
  <2> HAVE x < z
  <2>1. x \in Nat /\ z \in Nat /\ \A y \in S : y \in Nat
    OBVIOUS
  <2>2. below(x) \in SUBSET below(z)
    <3>1. \A y \in below(x) : y \in S /\ y < z
      BY <2>1
    <3> QED
      BY <3>1
  <2> HIDE DEF below
  <2> QED
    BY <1>1, <2>2, FS_Subset
<1> HIDE DEF below
<1>4. \A x, z \in S : z \in low /\ x < z => x \in low
  BY <1>1, <1>2, <1>3
<1>5. low # {} /\ low \in SUBSET S
  <2>1. PICK x \in S : {y \in S : y < x} = {}
    BY NumbersAreBounded
  <2>2. Cardinality(below(x)) = 0
    BY <2>1, FS_EmptySet DEF below
  <2> QED
    BY <1>2, <2>2
<1> HIDE DEF low
<1>6. IsFiniteSet(low) /\ low \subseteq Nat
  BY <1>5, FS_Subset
<1>7. \E x \in low : \A y \in low : y <= x
  BY <1>5, <1>6, NumbersAreBounded
<1>8. last \in low /\ \A y \in low : y <= last
  <2>1. \E x \in low : \A y \in low : x >= y
    BY <1>6, <1>7
  <2>2. last \in low /\ \A y \in low : last >= y
    BY <2>1 DEF Export!Max
  <2> HIDE DEF last
  <2> QED
    BY <1>6, <2>2
<1> HIDE DEF last
<1>9. low = {x \in S : x <= last}
  <2>1. last \in Nat /\ last \in S /\ \A x \in S : x \in Nat
    BY <1>5, <1>8
  <2>2. ASSUME NEW x \in S, x <= last
        PROVE  x \in low
    <3>1. x = last \/ x < last
      BY <2>1, <2>2
    <3> QED
      BY <1>4, <1>8, <2>1, <3>1
  <2> QED
    BY <1>5, <1>8, <2>2
<1> QED
  BY <1>5, <1>8, <1>9 DEF low, last

\* Paged: the records up to the cursor of the next page, or all of them.
PastOf(L, after) == {x \in L : x.n > after}
PageOf(L, after) ==
    {x \in PastOf(L, after) : x.n \in Export!LowestOf({y.n : y \in PastOf(L, after)}, ExportPage)}

LEMMA PagesOfRecords ==
    ASSUME NEW L, IsFiniteSet(L), \A x \in L : x.n \in Nat \ {0}, NEW after \in Nat,
           ExportPage \in Nat \ {0}
    PROVE  LET page == PageOf(L, after)
               last == Export!Max({x.n : x \in page})
               got  == {x \in L : x.n <= after} \cup page
           IN /\ page # PastOf(L, after) => last \in Nat /\ got = {x \in L : x.n <= last}
              /\ page = PastOf(L, after) => got = L
<1> DEFINE past == PastOf(L, after)
           S == {y.n : y \in past}
           page == PageOf(L, after)
           last == Export!Max({x.n : x \in page})
           low == Export!LowestOf(S, ExportPage)
<1>1. past \in SUBSET L /\ \A x \in L : x \in past <=> x.n > after
  BY DEF PastOf
<1>2. page = {x \in past : x.n \in low}
  BY DEF PageOf
<1>3. IsFiniteSet(past)
  <2> HIDE DEF past
  <2> QED
    BY <1>1, FS_Subset
<1>4. IsFiniteSet(S) /\ S \subseteq Nat
  <2> DEFINE f == [y \in past |-> y.n]
  <2>1. f \in [past -> S] /\ \A b \in S : \E y \in past : f[y] = b
    OBVIOUS
  <2>2. S \subseteq Nat
    BY <1>1
  <2> HIDE DEF f, S, past
  <2>3. f \in Surjection(past, S)
    BY <2>1, Fun_IsSurj
  <2> QED
    BY <1>3, <2>2, <2>3, FS_Surjection
<1>5. low \subseteq S
  BY DEF Export!LowestOf
<1>6. {x.n : x \in page} = low
  BY <1>2, <1>5
<1>7. S = {} <=> past = {}
  OBVIOUS
<1>8. \A x \in past : x.n \in S
  OBVIOUS
<1>9. \A n \in S : \E x \in past : x.n = n
  OBVIOUS
<1>10. last = Export!Max(low)
  BY <1>6
<1> HIDE DEF past, S, page, last
<1>11. S # {} => last \in S /\ low = {x \in S : x <= last}
  BY <1>4, <1>10, LowestGoOn
<1> HIDE DEF low
<1>12. page # past => last \in Nat /\ {x \in L : x.n <= after} \cup page = {x \in L : x.n <= last}
  <2> HAVE page # past
  <2>1. past # {}
    BY <1>2
  <2>2. last \in S /\ last \in Nat /\ low = {x \in S : x <= last}
    BY <1>4, <1>7, <1>11, <2>1
  <2>3. last > after
    BY <1>1, <1>9, <2>2
  <2>4. \A x \in L : x.n \in Nat /\ (x \in page <=> x.n > after /\ x.n <= last)
    <3> TAKE x \in L
    <3>1. x.n \in Nat /\ (x \in past <=> x.n > after)
      BY <1>1
    <3>2. x \in past => (x \in page <=> x.n <= last)
      BY <1>2, <1>8, <2>2
    <3> QED
      BY <1>2, <3>1, <3>2
  <2>5. page \subseteq L
    BY <1>1, <1>2
  <2> QED
    BY <2>2, <2>3, <2>4, <2>5
<1>13. page = past => {x \in L : x.n <= after} \cup page = L
  <2>1. \A x \in L : x.n \in Nat
    OBVIOUS
  <2> QED
    BY <1>1, <2>1
<1> QED
  BY <1>12, <1>13 DEF past, page, last

\* The shape of the collector's record.
Shaped(j) ==
    /\ j = [at |-> j.at, stage |-> j.stage, manifest |-> j.manifest, after |-> j.after,
            left |-> j.left, retries |-> j.retries, limited |-> j.limited, got |-> j.got,
            since |-> j.since]
    /\ j.got = [s \in Got |-> j.got[s]]

LEMMA StagesAreNine ==
    /\ Export!Len(Export!Stages) = 9 /\ DOMAIN Export!Stages = 1 .. 9
    /\ \A k \in 1 .. 9 : Export!Stages[k] = StageOf(k)
<1>1. Len(Export!Stages) = 9 /\ DOMAIN Export!Stages = 1 .. 9
  BY DEF Export!Stages
<1>2. \A k \in 1 .. 9 : Export!Stages[k] = StageOf(k)
  BY DEF Export!Stages, StageOf
<1>3. Export!Len(Export!Stages) = Len(Export!Stages)
  BY DEF Export!Len
<1> QED
  BY <1>1, <1>2, <1>3

JobOf(at, k, m, after, left, retries, limited, G, since) ==
    [at |-> at, stage |-> k, manifest |-> m, after |-> after, left |-> left,
     retries |-> retries, limited |-> limited, got |-> G, since |-> since]

LEMMA FieldsOf ==
    ASSUME NEW at, NEW k, NEW m, NEW after, NEW left, NEW retries, NEW limited, NEW G, NEW since,
           G = [x \in Got |-> G[x]], NEW j,
           j = JobOf(at, k, m, after, left, retries, limited, G, since)
    PROVE  /\ Shaped(j)
           /\ j.retries = retries /\ j.limited = limited /\ j.since = since /\ j.at = at
           /\ j.stage = k /\ j.manifest = m /\ j.after = after /\ j.left = left /\ j.got = G
<1>1. /\ j.retries = retries /\ j.limited = limited /\ j.since = since /\ j.at = at
      /\ j.stage = k /\ j.manifest = m /\ j.after = after /\ j.left = left /\ j.got = G
  BY DEF JobOf
<1> QED
  BY <1>1 DEF Shaped, JobOf

GotOf(G, s, g, cards) == [[G EXCEPT ![s] = g] EXCEPT !["cards"] = cards]

LEMMA ExceptsTurned ==
    ASSUME NEW j, Shaped(j), NEW s \in Got, NEW g, NEW cards, NEW j1,
           j1 = [j EXCEPT !.got[s] = g, !.retries = 0, !.got["cards"] = cards]
    PROVE  j1 = JobOf(j.at, j.stage, j.manifest, j.after, j.left, 0, j.limited,
                      GotOf(j.got, s, g, cards), j.since)
BY DEF Shaped, JobOf, GotOf

\* What a page changes of the record j.
TurnedTo(j, s, g, cards, j1) ==
    /\ Shaped(j1) /\ j1.retries = 0 /\ j1.limited = j.limited /\ j1.since = j.since
    /\ j1.at = j.at /\ j1.stage = j.stage /\ j1.manifest = j.manifest
    /\ j1.after = j.after /\ j1.left = j.left
    /\ j1.got["cards"] = cards /\ (s # "cards" => j1.got[s] = g)
    /\ \A x \in Got \ {s, "cards"} : j1.got[x] = j.got[x]

\* What a batch changes of it.
BatchedTo(j, s, g, left, at, j1) ==
    /\ Shaped(j1) /\ j1.retries = 0 /\ j1.limited = j.limited /\ j1.since = j.since
    /\ j1.at = at /\ j1.stage = j.stage /\ j1.manifest = j.manifest
    /\ j1.after = j.after /\ j1.left = left /\ j1.got[s] = g
    /\ \A x \in Got \ {s} : j1.got[x] = j.got[x]

LEMMA FieldsTurned ==
    ASSUME NEW j, Shaped(j), NEW s \in Got, NEW g, NEW cards, NEW j1,
           j1 = JobOf(j.at, j.stage, j.manifest, j.after, j.left, 0, j.limited,
                      GotOf(j.got, s, g, cards), j.since)
    PROVE  TurnedTo(j, s, g, cards, j1)
<1> DEFINE h == GotOf(j.got, s, g, cards)
<1>1. j.got = [x \in Got |-> j.got[x]]
  BY DEF Shaped
<1>2. /\ h = [x \in Got |-> h[x]] /\ h["cards"] = cards /\ (s # "cards" => h[s] = g)
      /\ \A x \in Got \ {s, "cards"} : h[x] = j.got[x]
  BY <1>1 DEF Got, GotOf
<1> HIDE DEF h
<1>3. /\ Shaped(j1) /\ j1.retries = 0 /\ j1.limited = j.limited /\ j1.since = j.since
      /\ j1.at = j.at /\ j1.stage = j.stage /\ j1.manifest = j.manifest
      /\ j1.after = j.after /\ j1.left = j.left /\ j1.got = h
  BY <1>2, FieldsOf DEF h
<1> QED
  BY <1>2, <1>3 DEF TurnedTo

LEMMA ExceptsBatched ==
    ASSUME NEW j, Shaped(j), NEW s \in Got, NEW g, NEW left, NEW at, NEW j1,
           j1 = [[j EXCEPT !.left = left, !.retries = 0, !.at = at] EXCEPT !.got[s] = g]
    PROVE  j1 = JobOf(at, j.stage, j.manifest, j.after, left, 0, j.limited,
                      [j.got EXCEPT ![s] = g], j.since)
BY DEF Shaped, JobOf

LEMMA FieldsBatched ==
    ASSUME NEW j, Shaped(j), NEW s \in Got, NEW g, NEW left, NEW at, NEW j1,
           j1 = JobOf(at, j.stage, j.manifest, j.after, left, 0, j.limited,
                      [j.got EXCEPT ![s] = g], j.since)
    PROVE  BatchedTo(j, s, g, left, at, j1)
<1> DEFINE h == [j.got EXCEPT ![s] = g]
<1>1. j.got = [x \in Got |-> j.got[x]]
  BY DEF Shaped
<1>2. /\ h = [x \in Got |-> h[x]] /\ h[s] = g
      /\ \A x \in Got \ {s} : h[x] = j.got[x]
  BY <1>1 DEF Got
<1> HIDE DEF h
<1>3. /\ Shaped(j1) /\ j1.retries = 0 /\ j1.limited = j.limited /\ j1.since = j.since
      /\ j1.at = at /\ j1.stage = j.stage /\ j1.manifest = j.manifest
      /\ j1.after = j.after /\ j1.left = left /\ j1.got = h
  BY <1>2, FieldsOf DEF h
<1> QED
  BY <1>2, <1>3 DEF BatchedTo

Going == {"idle", "asking", "entering", "done"}

ExportTypes ==
    /\ Shaped(job) /\ job.at \in Going \cup {"failed", "limited", "stopped"}
    /\ job.stage \in 0 .. 9 /\ job.retries \in 0 .. ExportRetries /\ job.after \in Nat
    /\ job.at \in {"idle", "done"} => job.stage = (IF job.at = "idle" THEN 0 ELSE 9)
    /\ \E i \in DOMAIN ExportDeployments : job.manifest = Export!Config(i)
    /\ configs \in DOMAIN ExportDeployments /\ isolates \subseteq 1 .. configs
    /\ configs \in isolates

\* While nothing is deployed after a collector began, one configuration answers it.
OneAnswers ==
    /\ job.since \subseteq 1 .. configs
    /\ job.at # "idle" /\ job.since = {configs} =>
          /\ isolates = {configs}
          /\ job.stage > 0 \/ job.at = "entering" => job.manifest = Export!Config(configs)
          /\ job.at # "failed"

Collects ==
    job.at \in Going =>
        Collected(job.at, job.stage, job.manifest, job.after, job.left, job.got)

ExportInv == ExportTypes /\ OneAnswers /\ Collects

\* The catalog and the holdings of a configuration are of one snapshot.
CatalogsFollowHoldings ==
    \A i \in DOMAIN ExportDeployments :
        Export!Config(i).catalog.snapshot = Export!Config(i).holdings.snapshot

\* Every Collection that the records of the address name has a public profile.
ProfilesArePublic ==
    \A i \in DOMAIN ExportDeployments :
        LET c == Export!Config(i)
            held == {t.drop : t \in Export!Listing(c, "holdings")}
        IN {x.collection : x \in Export!Members(c, held)}
              \cup {x.n : x \in Export!Listing(c, "owned")}
              \cup UNION {x.collections : x \in Export!Listing(c, "moments")
                                                  \cup Export!Listing(c, "tagged")}
           \subseteq Export!Of(c, "collections").public

ExportIsServed == ExportIsGiven /\ CatalogsFollowHoldings /\ ProfilesArePublic

LEMMA ConfigsAreServed ==
    ASSUME ExportIsGiven
    PROVE  /\ Len(ExportDeployments) \in Nat \ {0} /\ DOMAIN ExportDeployments = 1 .. Len(ExportDeployments)
           /\ ExportPage \in Nat \ {0} /\ ExportRetries \in Nat
           /\ \A n : n \in DOMAIN ExportDeployments => 1 .. n \subseteq DOMAIN ExportDeployments
           /\ \A i \in DOMAIN ExportDeployments : \A s \in Export!Paging :
                 /\ IsFiniteSet(Export!Listing(Export!Config(i), s))
                 /\ \A x \in Export!Listing(Export!Config(i), s) : x.n \in Nat \ {0}
           /\ \A i \in DOMAIN ExportDeployments : Records(Export!Config(i))
<1>1. ExportDeployments \in Seq(Range(ExportDeployments)) \ {<<>>}
  BY DEF ExportIsGiven, Export!PersonalExportAssumption, Export!Range, Range
<1>2. /\ Len(ExportDeployments) \in Nat \ {0} /\ DOMAIN ExportDeployments = 1 .. Len(ExportDeployments)
  BY <1>1, EmptySeq, LenProperties
<1>3. \A i \in DOMAIN ExportDeployments : \A s \in Export!Paging :
                 /\ IsFiniteSet(Export!Listing(Export!Config(i), s))
                 /\ \A x \in Export!Listing(Export!Config(i), s) : x.n \in Nat \ {0}
  BY SizesOfExports DEF ExportIsGiven, Export!PersonalExportAssumption
<1>4. ExportPage \in Nat \ {0} /\ ExportRetries \in Nat
  BY DEF ExportIsGiven, Export!PersonalExportAssumption
<1> QED
  BY <1>2, <1>3, <1>4 DEF Records

LEMMA AnswersAgree ==
    ASSUME ExportIsServed, NEW i \in DOMAIN ExportDeployments, NEW j \in DOMAIN ExportDeployments,
           NEW k \in 1 .. 9, Export!Matches(Export!Config(i), Export!Config(j), StageOf(k))
    PROVE  LET c == Export!Config(i)
               m == Export!Config(j)
           IN /\ k \in {1, 2, 3, 4, 6} => Export!Listing(c, StageOf(k)) = Export!Listing(m, StageOf(k))
              /\ k = 1 => \A d : Export!CardOf(c, d) = Export!CardOf(m, d)
              /\ k \in {5, 7, 8} => Export!Of(c, "collections") = Export!Of(m, "collections")
              /\ k = 9 => \A d : Export!DetailOf(c, d) = Export!DetailOf(m, d)
<1> DEFINE c == Export!Config(i)
           m == Export!Config(j)
<1>1. \A d \in {"catalog", "holdings"} : c[d].snapshot = m[d].snapshot => c[d] = m[d]
  BY DEF ExportIsServed, ExportIsGiven, Export!SnapshotsAreIdentified
<1>2. m.catalog.snapshot = m.holdings.snapshot
  BY DEF ExportIsServed, CatalogsFollowHoldings
<1>3. (c.catalog.snapshot = m.catalog.snapshot => c.catalog = m.catalog)
      /\ (c.holdings.snapshot = m.holdings.snapshot => c.holdings = m.holdings)
  BY <1>1
<1> HIDE DEF c, m
<1>m. Export!Matches(c, m, StageOf(k))
  BY DEF c, m
<1>4. CASE k = 1
  <2>1. StageOf(k) = "holdings"
    BY <1>4 DEF StageOf
  <2>2. c.holdings = m.holdings /\ c.catalog = m.catalog /\ c.collections = m.collections
    BY <1>3, <1>m, <2>1 DEF Export!Matches
  <2>3. \A d : Export!CardOf(c, d) = Export!CardOf(m, d)
    BY <2>2 DEF Export!CardOf, Export!Of
  <2>4. Export!Listing(c, StageOf(k)) = Export!Listing(m, StageOf(k))
    BY <2>1, <2>2 DEF Export!Listing, Export!Of
  <2> QED
    BY <1>4, <2>3, <2>4 DEF c, m
<1>5. CASE k \in {2, 3, 4}
  <2>1. StageOf(k) \in {"moments", "tagged", "capsules"}
    BY <1>5 DEF StageOf
  <2>2. c.moments = m.moments
    BY <1>m, <2>1 DEF Export!Matches
  <2>3. Export!Listing(c, StageOf(k)) = Export!Listing(m, StageOf(k))
    BY <2>1, <2>2 DEF Export!Listing, Export!Of
  <2> QED
    BY <1>5, <2>3 DEF c, m
<1>6. CASE k \in {5, 6, 7, 8}
  <2>1. StageOf(k) \in {"memberships", "owned", "profiles", "segments"} /\ (k = 6 => StageOf(k) = "owned")
    <3>1. /\ StageOf(5) = "memberships" /\ StageOf(6) = "owned" /\ StageOf(7) = "profiles"
          /\ StageOf(8) = "segments"
      BY DEF StageOf
    <3> QED
      BY <1>6, <3>1
  <2>2. c.collections = m.collections
    BY <1>m, <2>1 DEF Export!Matches
  <2>3. k = 6 => Export!Listing(c, StageOf(k)) = Export!Listing(m, StageOf(k))
    BY <2>1, <2>2 DEF Export!Listing, Export!Of
  <2>4. Export!Of(c, "collections") = Export!Of(m, "collections")
    BY <2>2 DEF Export!Of
  <2> QED
    BY <1>6, <2>3, <2>4 DEF c, m
<1>7. CASE k = 9
  <2>1. StageOf(k) = "drops"
    BY <1>7 DEF StageOf
  <2>2. c.catalog = m.catalog
    BY <1>2, <1>3, <1>m, <2>1 DEF Export!Matches, c, m
  <2>3. \A d : Export!DetailOf(c, d) = Export!DetailOf(m, d)
    BY <2>2 DEF Export!DetailOf, Export!Of
  <2> QED
    BY <1>7, <2>3 DEF c, m
<1> QED
  BY <1>4, <1>5, <1>6, <1>7

\* A collector that is held to the manifest of the configuration that answers fits.
LEMMA OwnAnswersMatch ==
    ASSUME ExportIsServed, NEW i \in DOMAIN ExportDeployments, NEW k \in 1 .. 9
    PROVE  Export!Matches(Export!Config(i), Export!Config(i), StageOf(k))
<1>1. Export!Config(i).catalog.snapshot = Export!Config(i).holdings.snapshot
  BY DEF ExportIsServed, CatalogsFollowHoldings
<1>2. StageOf(k) \in {"holdings", "moments", "tagged", "capsules", "memberships", "owned",
                      "profiles", "segments", "drops"}
  BY DEF StageOf
<1> QED
  BY <1>1, <1>2 DEF Export!Matches

\* Nothing is collected with the manifest.
LEMMA NothingYet ==
    ASSUME NEW at, NEW m, NEW after, NEW left, NEW G, Collected(at, 0, m, after, left, G),
           NEW at1, NEW m1
    PROVE  Collected(at1, 0, m1, after, left, G)
<1>1. left = {}
  BY DEF Collected, WholeOf
<1>2. ListingsSoFar(at1, 0, m1, after, G)
  BY DEF Collected, ListingsSoFar, SoFar
<1>3. HeldOf(G) = {}
  BY DEF Collected, ListingsSoFar, SoFar, HeldOf
<1>4. \A i \in 5 .. 9 : Undone(i, 0, left, G) = WholeOf(i, G)
  BY DEF Undone
<1>5. /\ HeldOf(G) \ Undone(5, 0, left, G) = {} /\ IdsOf(G) \ Undone(7, 0, left, G) = {}
      /\ OwnedOf(G) \ Undone(8, 0, left, G) = {} /\ RestOf(G) \ Undone(9, 0, left, G) = {}
  BY <1>4 DEF WholeOf
<1>6. \A x : /\ Export!Members(x, {}) = {} /\ Segments(x, {}) = {} /\ Cards(x, {}, {}) = {}
  BY DEF Export!Members, Segments, Cards
<1>7. BatchesSoFar(0, m, left, G)
  BY DEF Collected
<1>8. BatchesSoFar(0, m1, left, G)
  BY <1>3, <1>5, <1>6, <1>7 DEF BatchesSoFar
<1> QED
  BY <1>1, <1>2, <1>8 DEF Collected

\* What a step of the collector alone has to keep.
LEMMA CollectorMoves ==
    ASSUME ExportInv, UNCHANGED <<configs, isolates>>, job.at # "idle",
           Shaped(job'), job'.since = job.since,
           job'.at \in {"asking", "entering", "done", "failed", "limited", "stopped"},
           job'.stage \in 0 .. 9, job'.retries \in 0 .. ExportRetries, job'.after \in Nat,
           job'.at = "done" => job'.stage = 9,
           \E i \in DOMAIN ExportDeployments : job'.manifest = Export!Config(i),
           job.since = {configs} =>
              /\ job'.stage > 0 \/ job'.at = "entering" => job'.manifest = Export!Config(configs)
              /\ job'.at # "failed"
    PROVE  ExportTypes' /\ OneAnswers'
<1>1. ExportTypes'
  BY DEF ExportInv, ExportTypes, Going
<1>2. OneAnswers'
  BY DEF ExportInv, OneAnswers
<1> QED
  BY <1>1, <1>2

LEMMA BeginCollects ==
    ASSUME ExportIsGiven, ExportInv, Export!Begin
    PROVE  ExportInv'
<1>1. Shaped(job) /\ job.at = "idle" /\ job.stage = 0 /\ UNCHANGED <<configs, isolates>>
  BY DEF ExportInv, ExportTypes, Export!Begin
<1>2. job' = JobOf("asking", job.stage, job.manifest, job.after, job.left, job.retries, job.limited,
                   job.got, isolates)
  BY <1>1 DEF Export!Begin, Shaped, JobOf
<1>3. job.got = [x \in Got |-> job.got[x]]
  BY <1>1 DEF Shaped
<1>4. /\ Shaped(job') /\ job'.at = "asking" /\ job'.stage = 0 /\ job'.manifest = job.manifest
      /\ job'.after = job.after /\ job'.left = job.left /\ job'.retries = job.retries
      /\ job'.got = job.got /\ job'.since = isolates
  BY <1>1, <1>2, <1>3, FieldsOf
<1>5. ExportTypes'
  BY <1>1, <1>4 DEF ExportInv, ExportTypes, Going
<1>6. OneAnswers'
  BY <1>1, <1>4 DEF ExportInv, ExportTypes, OneAnswers
<1>7. Collected("idle", 0, job.manifest, job.after, job.left, job.got)
  BY <1>1 DEF ExportInv, Collects, Going
<1>8. Collected("asking", 0, job.manifest, job.after, job.left, job.got)
  BY <1>7, NothingYet
<1>9. Collects'
  BY <1>4, <1>8 DEF Collects
<1> QED
  BY <1>5, <1>6, <1>9 DEF ExportInv

LEMMA DeployCollects ==
    ASSUME ExportIsGiven, ExportInv, Export!Deploy \/ Export!Retire \/ UNCHANGED Export!vars
    PROVE  ExportInv'
<1>1. job' = job
  BY DEF Export!Deploy, Export!Retire, Export!vars
<1>2. Collects'
  BY <1>1 DEF ExportInv, Collects
<1>3. /\ configs \in DOMAIN ExportDeployments /\ isolates \subseteq 1 .. configs /\ configs \in isolates
      /\ DOMAIN ExportDeployments = 1 .. Len(ExportDeployments) /\ Len(ExportDeployments) \in Nat
      /\ job.since \subseteq 1 .. configs
  BY ConfigsAreServed DEF ExportInv, ExportTypes, OneAnswers
<1>4. CASE Export!Deploy
  <2>1. configs < Len(ExportDeployments) /\ configs' = configs + 1 /\ isolates' = isolates \cup {configs + 1}
    BY <1>4, <1>3 DEF Export!Deploy
  <2>2. configs' \in DOMAIN ExportDeployments /\ isolates' \subseteq 1 .. configs' /\ configs' \in isolates'
    <3>1. configs' \in 1 .. Len(ExportDeployments)
      BY <1>3, <2>1
    <3>2. 1 .. configs \subseteq 1 .. configs' /\ configs + 1 \in 1 .. configs'
      BY <1>3, <2>1
    <3> QED
      BY <1>3, <2>1, <3>1, <3>2
  <2>3. job.since \subseteq 1 .. configs' /\ job.since # {configs'}
    BY <1>3, <2>1
  <2>4. ExportTypes'
    BY <1>1, <2>2 DEF ExportInv, ExportTypes
  <2>5. OneAnswers'
    BY <1>1, <2>3 DEF OneAnswers
  <2> QED
    BY <1>2, <2>4, <2>5 DEF ExportInv
<1>5. CASE Export!Retire
  <2>1. configs' = configs /\ isolates' \subseteq isolates /\ configs \in isolates'
    BY <1>5, <1>3 DEF Export!Retire
  <2>2. ExportTypes'
    BY <1>1, <1>3, <2>1 DEF ExportInv, ExportTypes
  <2>3. isolates = {configs} => isolates' = {configs}
    BY <2>1
  <2>4. OneAnswers'
    BY <1>1, <2>1, <2>3 DEF ExportInv, OneAnswers
  <2> QED
    BY <1>2, <2>2, <2>4 DEF ExportInv
<1>6. CASE UNCHANGED Export!vars
  BY <1>6 DEF Export!vars, ExportInv, ExportTypes, OneAnswers, Collects
<1> QED
  BY <1>4, <1>5, <1>6

LEMMA StopCollects ==
    ASSUME ExportIsGiven, ExportInv, Export!Limit \/ Export!GiveUp
    PROVE  ExportInv'
<1>1. Shaped(job) /\ job.at \in {"asking", "entering"} /\ UNCHANGED <<configs, isolates>>
  BY DEF ExportInv, ExportTypes, Export!Limit, Export!GiveUp
<1>2. \E at, r, l :
         /\ job' = JobOf(at, job.stage, job.manifest, job.after, job.left, r, l, job.got, job.since)
         /\ \/ at \in {"limited", "stopped"} /\ r = job.retries
            \/ at = job.at /\ r = job.retries + 1 /\ job.retries < ExportRetries
  <2>1. CASE Export!GiveUp
    BY <1>1, <2>1 DEF Export!GiveUp, Shaped, JobOf
  <2>2. CASE Export!Limit /\ job.stage > 0 /\ job.retries < ExportRetries
    BY <1>1, <2>2 DEF Export!Limit, Shaped, JobOf
  <2>3. CASE Export!Limit /\ ~(job.stage > 0 /\ job.retries < ExportRetries)
    BY <1>1, <2>3 DEF Export!Limit, Shaped, JobOf
  <2> QED
    BY <2>1, <2>2, <2>3
<1>3. PICK at, r, l :
         /\ job' = JobOf(at, job.stage, job.manifest, job.after, job.left, r, l, job.got, job.since)
         /\ \/ at \in {"limited", "stopped"} /\ r = job.retries
            \/ at = job.at /\ r = job.retries + 1 /\ job.retries < ExportRetries
  BY <1>2
<1>4. job.got = [x \in Got |-> job.got[x]]
  BY <1>1 DEF Shaped
<1>5. /\ Shaped(job') /\ job'.at = at /\ job'.stage = job.stage /\ job'.manifest = job.manifest
      /\ job'.after = job.after /\ job'.left = job.left /\ job'.retries = r
      /\ job'.got = job.got /\ job'.since = job.since
  BY <1>3, <1>4, FieldsOf
<1>6. r \in 0 .. ExportRetries
  BY <1>3, ConfigsAreServed DEF ExportInv, ExportTypes
<1>7. job.since = {configs} => (job.stage > 0 \/ job.at = "entering" => job.manifest = Export!Config(configs))
  BY <1>1 DEF ExportInv, OneAnswers
<1>8. ExportTypes' /\ OneAnswers'
  BY <1>1, <1>3, <1>5, <1>6, <1>7, CollectorMoves DEF ExportInv, ExportTypes
<1>9. Collects'
  BY <1>1, <1>3, <1>5 DEF ExportInv, Collects, Going
<1> QED
  BY <1>8, <1>9 DEF ExportInv

LEMMA NamesAreThoseOf ==
    /\ Export!HeldDrops = HeldOf(job.got) /\ Export!CollectionIds = IdsOf(job.got)
    /\ Export!ReferencedDrops = HeldOf(job.got) \cup NamedOf(job.got)
                                  \cup {x.drop : x \in job.got["segments"]}
BY DEF Export!HeldDrops, HeldOf, Export!CollectionIds, IdsOf, OwnedOf, Export!ReferencedDrops,
   Export!DropsOf, NamedOf

\* Left is what a stage is to ask for in all, and a listing asks for nothing by name.
LEMMA LeftIsWhole ==
    ASSUME NEW k \in 0 .. 8, NEW m, NEW after, NEW left,
           Collected("entering", k, m, after, left, job.got)
    PROVE  /\ Export!Left(StageOf(k + 1)) = WholeOf(k + 1, job.got)
           /\ Export!Batched(StageOf(k + 1)) <=> k + 1 \notin {1, 2, 3, 4, 6}
<1> DEFINE G == job.got
           n == k + 1
<1>0. n \in 1 .. 9 /\ n = k + 1
  OBVIOUS
<1> HIDE DEF n
<1>1. /\ StageOf(1) = "holdings" /\ StageOf(2) = "moments" /\ StageOf(3) = "tagged"
      /\ StageOf(4) = "capsules" /\ StageOf(5) = "memberships" /\ StageOf(6) = "owned"
      /\ StageOf(7) = "profiles" /\ StageOf(8) = "segments" /\ StageOf(9) = "drops"
  BY DEF StageOf
<1>2. Export!Batched(StageOf(n)) <=> n \notin {1, 2, 3, 4, 6}
  BY <1>0, <1>1 DEF Export!Batched, Export!Paging
<1>3. CASE n \in {1, 2, 3, 4, 6}
  <2>1. Export!Left(StageOf(n)) = {}
    BY <1>1, <1>3 DEF Export!Left
  <2> QED
    BY <1>0, <1>2, <1>3, <2>1 DEF WholeOf, n
<1>4. CASE n = 5
  BY <1>0, <1>1, <1>2, <1>4, NamesAreThoseOf DEF Export!Left, WholeOf, n
<1>5. CASE n = 7
  BY <1>0, <1>1, <1>2, <1>5, NamesAreThoseOf DEF Export!Left, WholeOf, n
<1>6. CASE n = 8
  BY <1>0, <1>1, <1>2, <1>6 DEF Export!Left, WholeOf, OwnedOf, n
<1>7. CASE n = 9
  <2>1. G["cards"] = Cards(m, HeldOf(G), RestOf(G) \ Undone(9, k, left, G))
    BY DEF Collected, BatchesSoFar
  <2>2. Undone(9, k, left, G) = RestOf(G)
    BY <1>0, <1>7 DEF Undone, WholeOf
  <2>3. {x.n : x \in G["cards"]} = HeldOf(G)
    <3>1. {x.n : x \in G["cards"]} = HeldOf(G) \cup (RestOf(G) \ RestOf(G))
      BY <2>1, <2>2, CardsAreNamed
    <3> QED
      BY <3>1
  <2>4. Export!Left("drops") = Export!ReferencedDrops \ HeldOf(G)
    BY <2>3 DEF Export!Left
  <2>5. Export!Left("drops") = RestOf(G)
    BY <2>4, NamesAreThoseOf DEF RestOf
  <2> QED
    BY <1>0, <1>1, <1>2, <1>7, <2>5 DEF WholeOf, n
<1> QED
  BY <1>0, <1>3, <1>4, <1>5, <1>6, <1>7

LEMMA EnterCollects ==
    ASSUME ExportIsGiven, ExportInv, Export!Enter
    PROVE  ExportInv'
<1> DEFINE k == job.stage
           m == job.manifest
           G == job.got
           w == WholeOf(k + 1, G)
<1>1. /\ Shaped(job) /\ job.at = "entering" /\ UNCHANGED <<configs, isolates>> /\ k \in 0 .. 9
      /\ job.retries \in 0 .. ExportRetries /\ job.after \in Nat
      /\ \E i \in DOMAIN ExportDeployments : m = Export!Config(i)
  BY DEF ExportInv, ExportTypes, Export!Enter
<1>2. Collected("entering", k, m, job.after, job.left, G)
  BY <1>1 DEF ExportInv, Collects, Going
<1>3. job.since = {configs} => m = Export!Config(configs)
  BY <1>1 DEF ExportInv, OneAnswers
<1>4. G = [x \in Got |-> G[x]]
  BY <1>1 DEF Shaped
<1>5. CASE k = 9
  <2>1. job' = JobOf("done", k, m, job.after, job.left, job.retries, job.limited, G, job.since)
    BY <1>1, <1>5, StagesAreNine DEF Export!Enter, Shaped, JobOf
  <2>2. /\ Shaped(job') /\ job'.at = "done" /\ job'.stage = 9 /\ job'.manifest = m
        /\ job'.after = job.after /\ job'.left = job.left /\ job'.retries = job.retries
        /\ job'.got = G /\ job'.since = job.since
    BY <1>4, <1>5, <2>1, FieldsOf
  <2>3. ExportTypes' /\ OneAnswers'
    BY <1>1, <1>3, <2>2, CollectorMoves
  <2>4. Collected("done", k, m, job.after, job.left, G)
    BY <1>2 DEF Collected, ListingsSoFar, SoFar
  <2>5. Collects'
    BY <1>5, <2>2, <2>4 DEF Collects
  <2> QED
    BY <2>3, <2>5 DEF ExportInv
<1>6. CASE k \in 0 .. 8
  <2> DEFINE at == IF Export!Batched(StageOf(k + 1)) /\ w = {} THEN "entering" ELSE "asking"
  <2>1. /\ Export!Left(StageOf(k + 1)) = w
        /\ Export!Batched(StageOf(k + 1)) <=> k + 1 \notin {1, 2, 3, 4, 6}
    BY <1>2, <1>6, LeftIsWhole
  <2>2. Export!Stages[k + 1] = StageOf(k + 1) /\ k # Export!Len(Export!Stages)
    BY <1>6, StagesAreNine
  <2>3. job' = LET next == StageOf(k + 1)
               IN [job EXCEPT !.stage = @ + 1, !.after = 0, !.left = Export!Left(next),
                              !.retries = 0,
                              !.at = IF Export!Batched(next) /\ Export!Left(next) = {} THEN "entering"
                                     ELSE "asking"]
    BY <2>2 DEF Export!Enter
  <2>4. job' = [job EXCEPT !.stage = @ + 1, !.after = 0, !.left = w, !.retries = 0, !.at = at]
    BY <2>1, <2>3
  <2>a. at = "asking" \/ (at = "entering" /\ w = {} /\ k + 1 \notin {1, 2, 3, 4, 6})
    BY <2>1
  <2> HIDE DEF at, w
  <2>5. job' = JobOf(at, k + 1, m, 0, w, 0, job.limited, G, job.since)
    BY <1>1, <2>4 DEF Shaped, JobOf
  <2>6. /\ Shaped(job') /\ job'.at = at /\ job'.stage = k + 1 /\ job'.manifest = m
        /\ job'.after = 0 /\ job'.left = w /\ job'.retries = 0
        /\ job'.got = G /\ job'.since = job.since
    BY <1>4, <2>5, FieldsOf
  <2>7. k + 1 \in 0 .. 9 /\ 0 \in 0 .. ExportRetries
    BY <1>6, ConfigsAreServed
  <2>8. at \in {"asking", "entering"}
    BY <2>a
  <2>9. ExportTypes' /\ OneAnswers'
    BY <1>1, <1>3, <2>6, <2>7, <2>8, CollectorMoves
  <2>10. Records(m)
    BY <1>1, ConfigsAreServed
  <2>11. Collected(at, k + 1, m, 0, w, G)
    BY <1>2, <1>6, <2>a, <2>10, Entered DEF w
  <2>12. Collects'
    BY <2>6, <2>11 DEF Collects
  <2> QED
    BY <2>9, <2>12 DEF ExportInv
<1> QED
  BY <1>1, <1>5, <1>6

LEMMA AnswererIsKnown ==
    ASSUME ExportIsServed, ExportInv, NEW i \in isolates, Export!Answer(i)
    PROVE  /\ ExportIsGiven /\ i \in DOMAIN ExportDeployments /\ (job.since = {configs} => i = configs)
           /\ Shaped(job) /\ job.at = "asking" /\ UNCHANGED <<configs, isolates>>
           /\ job.stage \in 0 .. 9 /\ job.retries \in 0 .. ExportRetries /\ job.after \in Nat
           /\ \E j \in DOMAIN ExportDeployments : job.manifest = Export!Config(j)
           /\ job.since = {configs} /\ job.stage > 0 => job.manifest = Export!Config(configs)
           /\ Collected("asking", job.stage, job.manifest, job.after, job.left, job.got)
           /\ configs \in DOMAIN ExportDeployments
<1>0. ExportIsGiven
  BY DEF ExportIsServed
<1>1. configs \in DOMAIN ExportDeployments /\ i \in 1 .. configs
  BY DEF ExportInv, ExportTypes
<1>2. i \in DOMAIN ExportDeployments
  BY <1>0, <1>1, ConfigsAreServed
<1>3. job.at = "asking" /\ UNCHANGED <<configs, isolates>>
  BY DEF Export!Answer
<1>4. /\ job.since = {configs} => isolates = {configs}
      /\ job.since = {configs} /\ job.stage > 0 => job.manifest = Export!Config(configs)
  BY <1>3 DEF ExportInv, OneAnswers
<1>5. Collected("asking", job.stage, job.manifest, job.after, job.left, job.got)
  BY <1>3 DEF ExportInv, Collects, Going
<1> QED
  BY <1>0, <1>1, <1>2, <1>3, <1>4, <1>5 DEF ExportInv, ExportTypes

LEMMA ManifestCollects ==
    ASSUME ExportIsServed, ExportInv, NEW i \in isolates, Export!Answer(i), job.stage = 0
    PROVE  ExportInv'
<1> DEFINE c == Export!Config(i)
           G == job.got
<1>1. /\ Shaped(job) /\ job.at = "asking" /\ UNCHANGED <<configs, isolates>>
      /\ job.retries \in 0 .. ExportRetries /\ job.after \in Nat
      /\ i \in DOMAIN ExportDeployments /\ (job.since = {configs} => i = configs)
      /\ Collected("asking", 0, job.manifest, job.after, job.left, G)
  BY AnswererIsKnown
<1>2. job' = JobOf("entering", 0, c, job.after, job.left, job.retries, job.limited, G, job.since)
  BY <1>1 DEF Export!Answer, Shaped, JobOf
<1>3. G = [x \in Got |-> G[x]]
  BY <1>1 DEF Shaped
<1>4. /\ Shaped(job') /\ job'.at = "entering" /\ job'.stage = 0 /\ job'.manifest = c
      /\ job'.after = job.after /\ job'.left = job.left /\ job'.retries = job.retries
      /\ job'.got = G /\ job'.since = job.since
  BY <1>2, <1>3, FieldsOf
<1>5. job.since = {configs} => c = Export!Config(configs)
  BY <1>1
<1>6. ExportTypes' /\ OneAnswers'
  BY <1>1, <1>4, <1>5, CollectorMoves
<1>7. Collected("entering", 0, c, job.after, job.left, G)
  BY <1>1, NothingYet
<1>8. Collects'
  BY <1>4, <1>7 DEF Collects
<1> QED
  BY <1>6, <1>8 DEF ExportInv

\* An answer of another release ends the archive, and only then.
LEMMA MismatchCollects ==
    ASSUME ExportIsServed, ExportInv, NEW i \in isolates, Export!Answer(i), job.stage > 0,
           ~Export!Matches(Export!Config(i), job.manifest, Export!Stage)
    PROVE  ExportInv'
<1>1. /\ Shaped(job) /\ job.at = "asking" /\ UNCHANGED <<configs, isolates>>
      /\ job.stage \in 0 .. 9 /\ job.retries \in 0 .. ExportRetries /\ job.after \in Nat
      /\ i \in DOMAIN ExportDeployments /\ (job.since = {configs} => i = configs)
      /\ \E j \in DOMAIN ExportDeployments : job.manifest = Export!Config(j)
      /\ job.since = {configs} => job.manifest = Export!Config(configs)
  BY AnswererIsKnown
<1>2. job' = JobOf("failed", job.stage, job.manifest, job.after, job.left, job.retries, job.limited,
                   job.got, job.since)
  BY <1>1 DEF Export!Answer, Shaped, JobOf
<1>3. job.got = [x \in Got |-> job.got[x]]
  BY <1>1 DEF Shaped
<1>4. /\ Shaped(job') /\ job'.at = "failed" /\ job'.stage = job.stage /\ job'.manifest = job.manifest
      /\ job'.after = job.after /\ job'.left = job.left /\ job'.retries = job.retries
      /\ job'.got = job.got /\ job'.since = job.since
  BY <1>2, <1>3, FieldsOf
<1>5. Export!Stage = StageOf(job.stage)
  BY <1>1, StagesAreNine DEF Export!Stage
<1>6. job.since # {configs}
  <2>1. SUFFICES ASSUME job.since = {configs} PROVE FALSE
    OBVIOUS
  <2>2. job.manifest = Export!Config(i) /\ job.stage \in 1 .. 9
    BY <1>1, <2>1
  <2> QED
    BY <1>1, <1>5, <2>2, OwnAnswersMatch
<1>7. ExportTypes' /\ OneAnswers'
  BY <1>1, <1>4, <1>6, CollectorMoves
<1>8. Collects'
  BY <1>4 DEF Collects, Going
<1> QED
  BY <1>7, <1>8 DEF ExportInv

LEMMA PageCollects ==
    ASSUME ExportIsServed, ExportInv, NEW i \in isolates, Export!Answer(i), job.stage > 0,
           Export!Matches(Export!Config(i), job.manifest, Export!Stage), ~Export!Batched(Export!Stage)
    PROVE  ExportInv'
<1> DEFINE c == Export!Config(i)
           m == job.manifest
           k == job.stage
           s == StageOf(k)
           G == job.got
           L == Export!Listing(m, s)
           after == job.after
           page == PageOf(L, after)
           past == PastOf(L, after)
           got == G[s] \cup page
           last == Export!Max({x.n : x \in page})
           cards == IF k = 1 THEN G["cards"] \cup {Export!CardOf(m, x.drop) : x \in page}
                    ELSE G["cards"]
           next == [job EXCEPT !.got[s] = got, !.retries = 0, !.got["cards"] = cards]
<1>1. /\ Shaped(job) /\ job.at = "asking" /\ UNCHANGED <<configs, isolates>>
      /\ k \in 1 .. 9 /\ job.retries \in 0 .. ExportRetries /\ after \in Nat
      /\ i \in DOMAIN ExportDeployments
      /\ \E j \in DOMAIN ExportDeployments : m = Export!Config(j)
      /\ job.since = {configs} => m = Export!Config(configs)
      /\ Collected("asking", k, m, after, job.left, G)
  BY AnswererIsKnown
<1>2. Export!Stage = s
  BY <1>1, StagesAreNine DEF Export!Stage
<1>3. k \in {1, 2, 3, 4, 6} /\ s \in Export!Paging /\ s \in Got \ {"cards"} /\ (k = 1 <=> s = "holdings")
  <2>1. /\ StageOf(1) = "holdings" /\ StageOf(2) = "moments" /\ StageOf(3) = "tagged"
        /\ StageOf(4) = "capsules" /\ StageOf(5) = "memberships" /\ StageOf(6) = "owned"
        /\ StageOf(7) = "profiles" /\ StageOf(8) = "segments" /\ StageOf(9) = "drops"
    BY DEF StageOf
  <2>2. s \in Export!Paging
    BY <1>2 DEF Export!Batched
  <2> QED
    BY <1>1, <2>1, <2>2 DEF Export!Paging, Got
<1>4. /\ Export!Listing(c, s) = L
      /\ k = 1 => \A d : Export!CardOf(c, d) = Export!CardOf(m, d)
  BY <1>1, <1>2, <1>3, AnswersAgree
<1>5. IsFiniteSet(L) /\ (\A x \in L : x.n \in Nat \ {0}) /\ ExportPage \in Nat \ {0}
      /\ 0 \in 0 .. ExportRetries
  BY <1>1, <1>3, ConfigsAreServed DEF ExportIsServed
<1>6. G[s] = {x \in L : x.n <= after}
  <2>1. ListingsSoFar("asking", k, m, after, G)
    BY <1>1 DEF Collected
  <2>2. G[s] = SoFar(m, s, k, "asking", k, after)
    <3>1. /\ StageOf(1) = "holdings" /\ StageOf(2) = "moments" /\ StageOf(3) = "tagged"
          /\ StageOf(4) = "capsules" /\ StageOf(6) = "owned"
      BY DEF StageOf
    <3>2. \A n \in {1, 2, 3, 4, 6} : G[StageOf(n)] = SoFar(m, StageOf(n), n, "asking", k, after)
      <4> HIDE DEF G, k, m, after
      <4> QED
        BY <2>1, <3>1 DEF ListingsSoFar
    <3> QED
      BY <1>3, <3>2
  <2>3. SoFar(m, s, k, "asking", k, after) = {x \in Export!Listing(m, s) : x.n <= after}
    <3>1. ~(k < k)
      BY <1>1
    <3> HIDE DEF s, k
    <3> QED
      BY <3>1 DEF SoFar
  <2> QED
    BY <2>2, <2>3
<1>7. /\ page # past => last \in Nat /\ got = {x \in L : x.n <= last}
      /\ page = past => got = L
  <2> DEFINE upto == {x \in L : x.n <= after}
             some == {x \in L : x.n <= last}
  <2>1. /\ page # past => last \in Nat /\ upto \cup page = some
        /\ page = past => upto \cup page = L
    <3> HIDE DEF L, after
    <3> QED
      BY <1>1, <1>5, PagesOfRecords
  <2>2. got = upto \cup page
    BY <1>6
  <2> HIDE DEF upto, page, past, last, got
  <2>3. /\ page # past => last \in Nat /\ got = some
        /\ page = past => got = L
    BY <2>1, <2>2
  <2> QED
    BY <2>3
<1>8. Export!Counts(m)[s] = Export!Cardinality(L)
  BY <1>3 DEF Export!Counts
<1>9. job' = IF page # past THEN [next EXCEPT !.after = last]
             ELSE IF Export!Cardinality(got) = Export!Counts(m)[s] THEN [next EXCEPT !.at = "entering"]
             ELSE [job EXCEPT !.at = "failed"]
  <2>1. job' = Export!Paged(c)
    BY <1>1, <1>2 DEF Export!Answer
  <2>2. past = {x \in Export!Listing(c, Export!Stage) : x.n > job.after}
    BY <1>2, <1>4 DEF PastOf
  <2>3. page = {x \in past : x.n \in Export!LowestOf({y.n : y \in past}, ExportPage)}
    BY DEF PageOf
  <2>4. cards = IF Export!Stage = "holdings"
                THEN job.got["cards"] \cup {Export!CardOf(c, x.drop) : x \in page} ELSE job.got["cards"]
    <3>1. CASE k = 1
      <4>1. {Export!CardOf(c, x.drop) : x \in page} = {Export!CardOf(m, x.drop) : x \in page}
        BY <1>4, <3>1
      <4> QED
        BY <1>2, <1>3, <3>1, <4>1
    <3>2. CASE k # 1
      BY <1>2, <1>3, <3>2
    <3> QED
      BY <3>1, <3>2
  <2> HIDE DEF past, page, cards
  <2> QED
    BY <1>2, <2>1, <2>2, <2>3, <2>4 DEF Export!Paged
<1> HIDE DEF page, past, got, last, cards, next
<1>10. next = JobOf(job.at, k, m, after, job.left, 0, job.limited, GotOf(G, s, got, cards), job.since)
  <2>1. s \in Got /\ Shaped(job)
    BY <1>1, <1>3
  <2> HIDE DEF s
  <2>2. ASSUME NEW x, x = [job EXCEPT !.got[s] = got, !.retries = 0, !.got["cards"] = cards]
        PROVE  x = JobOf(job.at, job.stage, job.manifest, job.after, job.left, 0, job.limited,
                         GotOf(job.got, s, got, cards), job.since)
    BY <2>1, <2>2, ExceptsTurned
  <2> QED
    BY <2>2 DEF next
<1>11. /\ Shaped(next) /\ next.retries = 0 /\ next.since = job.since
       /\ next.at = "asking" /\ next.stage = k /\ next.manifest = m
       /\ next.after = after /\ next.left = job.left
       /\ next.got["cards"] = cards /\ next.got[s] = got
       /\ \A x \in Got \ {s, "cards"} : next.got[x] = G[x]
  <2>1. s \in Got /\ Shaped(job) /\ s # "cards" /\ job.at = "asking"
    BY <1>1, <1>3
  <2> HIDE DEF s
  <2>2. next = JobOf(job.at, job.stage, job.manifest, job.after, job.left, 0, job.limited,
                     GotOf(job.got, s, got, cards), job.since)
    BY <1>10
  <2>3. TurnedTo(job, s, got, cards, next)
    BY <2>1, <2>2, FieldsTurned
  <2> QED
    BY <2>1, <2>3 DEF TurnedTo
<1>12. next.got = [x \in Got |-> next.got[x]]
  BY <1>11 DEF Shaped
<1>13. \E at, to :
          /\ job' = JobOf(at, k, m, to, job.left, 0, next.limited, next.got, job.since)
          /\ to \in Nat
          /\ \/ at = "asking" /\ got = {x \in L : x.n <= to}
             \/ at = "entering" /\ got = L
  <2>1. CASE page # past
    <3>1. job' = [next EXCEPT !.after = last]
      BY <1>9, <2>1
    <3>2. job' = JobOf("asking", k, m, last, job.left, 0, next.limited, next.got, job.since)
      BY <1>11, <3>1 DEF Shaped, JobOf
    <3> QED
      BY <1>7, <2>1, <3>2
  <2>2. CASE page = past
    <3>1. job' = [next EXCEPT !.at = "entering"]
      BY <1>7, <1>8, <1>9, <2>2
    <3>2. job' = JobOf("entering", k, m, after, job.left, 0, next.limited, next.got, job.since)
      BY <1>11, <3>1 DEF Shaped, JobOf
    <3> QED
      BY <1>1, <1>7, <2>2, <3>2
  <2> QED
    BY <2>1, <2>2
<1>14. PICK at, to :
          /\ job' = JobOf(at, k, m, to, job.left, 0, next.limited, next.got, job.since)
          /\ to \in Nat
          /\ \/ at = "asking" /\ got = {x \in L : x.n <= to}
             \/ at = "entering" /\ got = L
  BY <1>13
<1>15. /\ Shaped(job') /\ job'.at = at /\ job'.stage = k /\ job'.manifest = m
       /\ job'.after = to /\ job'.left = job.left /\ job'.retries = 0
       /\ job'.got = next.got /\ job'.since = job.since
  BY <1>12, <1>14, FieldsOf
<1>16. ExportTypes' /\ OneAnswers'
  BY <1>1, <1>5, <1>14, <1>15, CollectorMoves
<1>17. Collected(at, k, m, to, job.left, next.got)
  <2> DEFINE H == next.got
  <2>1. PageTurned(k, m, s, G, H, page)
    BY <1>11 DEF got, cards, PageTurned
  <2>2. GoneOn(at, m, s, G, page, to)
    BY <1>14 DEF got, GoneOn
  <2> HIDE DEF H, G, m
  <2>3. Collected("asking", k, m, after, job.left, G)
    BY <1>1
  <2>4. k \in {1, 2, 3, 4, 6} /\ s = StageOf(k)
    BY <1>3
  <2>5. Collected(at, k, m, to, job.left, H)
    <3> HIDE DEF s, k, after
    <3> QED
      BY <2>1, <2>2, <2>3, <2>4, Turned
  <2> QED
    BY <2>5 DEF H
<1>18. Collects'
  BY <1>15, <1>17 DEF Collects
<1> QED
  BY <1>16, <1>18 DEF ExportInv

\* The Collections that the collector has met are public.
LEMMA MetArePublic ==
    ASSUME ExportIsServed, NEW j \in DOMAIN ExportDeployments, NEW after, NEW left, NEW G,
           Collected("asking", 7, Export!Config(j), after, left, G)
    PROVE  IdsOf(G) \subseteq Export!Of(Export!Config(j), "collections").public
<1> DEFINE m == Export!Config(j)
           held == {t.drop : t \in Export!Listing(m, "holdings")}
<1>1. /\ G["holdings"] = Export!Listing(m, "holdings") /\ G["moments"] = Export!Listing(m, "moments")
      /\ G["tagged"] = Export!Listing(m, "tagged") /\ G["owned"] = Export!Listing(m, "owned")
  BY DEF Collected, ListingsSoFar, SoFar
<1>2. G["memberships"] = Export!Members(m, HeldOf(G))
  <2>1. G["memberships"] = Export!Members(m, HeldOf(G) \ Undone(5, 7, left, G))
    BY DEF Collected, BatchesSoFar
  <2>2. HeldOf(G) \ Undone(5, 7, left, G) = HeldOf(G)
    BY DEF Undone
  <2> QED
    BY <2>1, <2>2
<1>3. HeldOf(G) = held
  BY <1>1 DEF HeldOf
<1>4. {x.collection : x \in Export!Members(m, held)}
              \cup {x.n : x \in Export!Listing(m, "owned")}
              \cup UNION {x.collections : x \in Export!Listing(m, "moments")
                                                  \cup Export!Listing(m, "tagged")}
           \subseteq Export!Of(m, "collections").public
  BY DEF ExportIsServed, ProfilesArePublic
<1>5. IdsOf(G) = {x.collection : x \in Export!Members(m, held)}
              \cup {x.n : x \in Export!Listing(m, "owned")}
              \cup UNION {x.collections : x \in Export!Listing(m, "moments")
                                                  \cup Export!Listing(m, "tagged")}
  BY <1>1, <1>2, <1>3 DEF IdsOf, OwnedOf
<1> QED
  BY <1>4, <1>5

LEMMA BatchCollects ==
    ASSUME ExportIsServed, ExportInv, NEW i \in isolates, Export!Answer(i), job.stage > 0,
           Export!Matches(Export!Config(i), job.manifest, Export!Stage), Export!Batched(Export!Stage)
    PROVE  ExportInv'
<1> DEFINE c == Export!Config(i)
           m == job.manifest
           k == job.stage
           s == StageOf(k)
           G == job.got
           size == IF Export!Stage = "segments" THEN 1 ELSE ExportPage
           asked == Export!LowestOf(job.left, size)
           left == job.left \ asked
           at == IF left = {} THEN "entering" ELSE "asking"
           at0 == IF left = {} THEN "entering" ELSE job.at
           f == FieldOf(k)
           got == G[f] \cup BatchOf(k, m, asked)
           next == [job EXCEPT !.left = left, !.retries = 0, !.at = at0]
<1>1. /\ Shaped(job) /\ job.at = "asking" /\ UNCHANGED <<configs, isolates>>
      /\ k \in 1 .. 9 /\ job.retries \in 0 .. ExportRetries /\ job.after \in Nat
      /\ i \in DOMAIN ExportDeployments
      /\ \E j \in DOMAIN ExportDeployments : m = Export!Config(j)
      /\ job.since = {configs} => m = Export!Config(configs)
      /\ Collected("asking", k, m, job.after, job.left, G)
  BY AnswererIsKnown
<1>2. Export!Stage = s
  BY <1>1, StagesAreNine DEF Export!Stage
<1>3. /\ k \in {5, 7, 8, 9} /\ f \in Got
      /\ k = 5 => s = "memberships"
      /\ k = 7 => s = "profiles"
      /\ k = 8 => s = "segments"
      /\ k = 9 => s = "drops"
      /\ f = (IF k = 9 THEN "cards" ELSE s)
  <2>1. /\ StageOf(1) = "holdings" /\ StageOf(2) = "moments" /\ StageOf(3) = "tagged"
        /\ StageOf(4) = "capsules" /\ StageOf(5) = "memberships" /\ StageOf(6) = "owned"
        /\ StageOf(7) = "profiles" /\ StageOf(8) = "segments" /\ StageOf(9) = "drops"
    BY DEF StageOf
  <2>2. s \notin Export!Paging
    BY <1>2 DEF Export!Batched
  <2>3. k \in {5, 7, 8, 9}
    BY <1>1, <2>1, <2>2 DEF Export!Paging
  <2>4. f = (IF k = 9 THEN "cards" ELSE s)
    BY DEF FieldOf
  <2>5. f \in Got
    <3>1. {"memberships", "profiles", "segments", "cards"} \subseteq Got
      BY DEF Got
    <3> QED
      BY <2>1, <2>3, <2>4, <3>1
  <2> QED
    BY <2>1, <2>3, <2>4, <2>5
<1>4. /\ k \in {5, 7, 8} => Export!Of(c, "collections") = Export!Of(m, "collections")
      /\ k = 9 => \A d : Export!DetailOf(c, d) = Export!DetailOf(m, d)
  BY <1>1, <1>2, AnswersAgree
<1>5. asked \subseteq job.left /\ job.left \subseteq WholeOf(k, G)
  BY <1>1 DEF Export!LowestOf, Collected
<1>6. k = 7 => asked \subseteq Export!Of(c, "collections").public
  <2> HAVE k = 7
  <2>1. PICK j \in DOMAIN ExportDeployments : m = Export!Config(j)
    BY <1>1
  <2>2. IdsOf(G) \subseteq Export!Of(m, "collections").public
    BY <1>1, <2>1, MetArePublic
  <2>3. WholeOf(k, G) = IdsOf(G)
    BY DEF WholeOf
  <2> QED
    BY <1>4, <1>5, <2>2, <2>3
<1>7. job' = [next EXCEPT !.got[f] = got]
  <2>1. job' = Export!BatchOf(c)
    BY <1>1, <1>2 DEF Export!Answer
  <2>a. next.got = G
    BY <1>1 DEF Shaped
  <2>2. CASE k = 5
    <3>1. job' = [next EXCEPT !.got["memberships"] = G["memberships"] \cup Export!Members(c, asked)]
      BY <1>1, <1>2, <1>3, <2>1, <2>2, <2>a DEF Export!BatchOf
    <3>2. Export!Members(c, asked) = BatchOf(k, m, asked) /\ f = "memberships"
      BY <1>3, <1>4, <2>2 DEF Export!Members, BatchOf
    <3> QED
      BY <3>1, <3>2
  <2>3. CASE k = 7
    <3>1. job' = [next EXCEPT !.got["profiles"] = G["profiles"] \cup asked]
      BY <1>1, <1>2, <1>3, <1>6, <2>1, <2>3, <2>a DEF Export!BatchOf
    <3>2. asked = BatchOf(k, m, asked) /\ f = "profiles"
      BY <1>3, <2>3 DEF BatchOf
    <3> QED
      BY <3>1, <3>2
  <2>4. CASE k = 8
    <3>1. job' = [next EXCEPT !.got["segments"] =
                     G["segments"] \cup {x \in Export!Of(c, "collections").items : x.collection \in asked}]
      BY <1>1, <1>2, <1>3, <2>1, <2>4, <2>a DEF Export!BatchOf
    <3>2. {x \in Export!Of(c, "collections").items : x.collection \in asked} = BatchOf(k, m, asked)
          /\ f = "segments"
      BY <1>3, <1>4, <2>4 DEF BatchOf, Segments
    <3> QED
      BY <3>1, <3>2
  <2>5. CASE k = 9
    <3>1. job' = [next EXCEPT !.got["cards"] = G["cards"] \cup {Export!DetailOf(c, d) : d \in asked}]
      BY <1>1, <1>2, <1>3, <2>1, <2>5, <2>a DEF Export!BatchOf
    <3>2. {Export!DetailOf(c, d) : d \in asked} = BatchOf(k, m, asked) /\ f = "cards"
      BY <1>3, <1>4, <2>5 DEF BatchOf
    <3> QED
      BY <3>1, <3>2
  <2> QED
    BY <1>3, <2>2, <2>3, <2>4, <2>5
<1> HIDE DEF asked, left, got, f, next
<1>8. job' = JobOf(at, k, m, job.after, left, 0, job.limited, [G EXCEPT ![f] = got], job.since)
  <2>1. next = [job EXCEPT !.left = left, !.retries = 0, !.at = at]
    BY <1>1 DEF next
  <2>2. job' = [[job EXCEPT !.left = left, !.retries = 0, !.at = at] EXCEPT !.got[f] = got]
    BY <1>7, <2>1
  <2>3. f \in Got /\ Shaped(job)
    BY <1>1, <1>3
  <2> HIDE DEF at
  <2>4. job' = JobOf(at, job.stage, job.manifest, job.after, left, 0, job.limited,
                     [job.got EXCEPT ![f] = got], job.since)
    BY <2>2, <2>3, ExceptsBatched
  <2> QED
    BY <2>4
<1>9. BatchedTo(job, f, got, left, at, job')
  <2>1. f \in Got /\ Shaped(job)
    BY <1>1, <1>3
  <2> HIDE DEF at
  <2>2. job' = JobOf(at, job.stage, job.manifest, job.after, left, 0, job.limited,
                     [job.got EXCEPT ![f] = got], job.since)
    BY <1>8
  <2> QED
    BY <2>1, <2>2, FieldsBatched
<1>10. /\ Shaped(job') /\ job'.retries = 0 /\ job'.since = job.since
       /\ job'.at = at /\ job'.stage = k /\ job'.manifest = m
       /\ job'.after = job.after /\ job'.left = left
  BY <1>9 DEF BatchedTo
<1>11. 0 \in 0 .. ExportRetries /\ at \in {"entering", "asking"}
  BY ConfigsAreServed DEF ExportIsServed
<1>12. ExportTypes' /\ OneAnswers'
  BY <1>1, <1>10, <1>11, CollectorMoves
<1>13. Collected(at, k, m, job.after, left, job'.got)
  <2> DEFINE H == job'.got
  <2>1. BatchAdded(k, m, G, H, asked)
    BY <1>9 DEF BatchedTo, BatchAdded, got, f
  <2>2. k \in {5, 7, 8, 9} /\ asked \in SUBSET job.left
    BY <1>3, <1>5
  <2>3. Collected("asking", k, m, job.after, job.left, G)
    BY <1>1
  <2>4. at = IF job.left \ asked = {} THEN "entering" ELSE "asking"
    BY DEF left
  <2> HIDE DEF H, k, m, G, at
  <2>5. Collected(at, k, m, job.after, job.left \ asked, H)
    BY <2>1, <2>2, <2>3, <2>4, Batched
  <2> QED
    BY <2>5 DEF H, left
<1>14. Collects'
  BY <1>10, <1>13 DEF Collects
<1> QED
  BY <1>12, <1>14 DEF ExportInv

LEMMA ExportInit ==
    ASSUME ExportIsGiven, Export!Init
    PROVE  ExportInv
<1> DEFINE G == [s \in Got |-> {}]
           m == Export!Config(1)
<1>1. job = JobOf("idle", 0, m, 0, {}, 0, 0, G, {})
  BY DEF Export!Init, Export!Nothing, JobOf, Got
<1>2. G = [s \in Got |-> G[s]]
  OBVIOUS
<1> HIDE DEF G, m
<1>3. /\ Shaped(job) /\ job.at = "idle" /\ job.stage = 0 /\ job.manifest = m /\ job.after = 0
      /\ job.left = {} /\ job.retries = 0 /\ job.got = G /\ job.since = {}
  BY <1>1, <1>2, FieldsOf
<1>4. configs = 1 /\ isolates = {1} /\ 1 \in DOMAIN ExportDeployments /\ 0 \in 0 .. ExportRetries
  BY ConfigsAreServed DEF Export!Init
<1>5. ExportTypes
  BY <1>3, <1>4 DEF ExportTypes, Going, m
<1>6. OneAnswers
  BY <1>3 DEF OneAnswers
<1>7. \A s \in Got : G[s] = {}
  BY DEF G
<1>8. /\ G["holdings"] = {} /\ G["moments"] = {} /\ G["tagged"] = {} /\ G["capsules"] = {}
      /\ G["owned"] = {} /\ G["memberships"] = {} /\ G["profiles"] = {} /\ G["segments"] = {}
      /\ G["cards"] = {}
  BY <1>7 DEF Got
<1>9. ListingsSoFar("idle", 0, m, 0, G)
  BY <1>8 DEF ListingsSoFar, SoFar
<1>10. HeldOf(G) = {} /\ OwnedOf(G) = {} /\ IdsOf(G) = {} /\ RestOf(G) = {}
  BY <1>8 DEF HeldOf, OwnedOf, IdsOf, RestOf, NamedOf
<1>11. BatchesSoFar(0, m, {}, G)
  BY <1>8, <1>10 DEF BatchesSoFar, Export!Members, Segments, Cards
<1>12. Collected("idle", 0, m, 0, {}, G)
  BY <1>9, <1>11 DEF Collected
<1>13. Collects
  BY <1>3, <1>12 DEF Collects
<1> QED
  BY <1>5, <1>6, <1>13 DEF ExportInv

LEMMA ExportStep ==
    ASSUME ExportIsServed, ExportInv, [Export!Next]_Export!vars
    PROVE  ExportInv'
<1>0. ExportIsGiven
  BY DEF ExportIsServed
<1>1. ASSUME NEW i \in isolates, Export!Answer(i)
      PROVE  ExportInv'
  <2>1. job.stage \in 0 .. 9
    BY DEF ExportInv, ExportTypes
  <2>2. CASE job.stage = 0
    BY <1>1, <2>2, ManifestCollects
  <2>3. CASE job.stage > 0
    <3>1. CASE ~Export!Matches(Export!Config(i), job.manifest, Export!Stage)
      BY <1>1, <2>3, <3>1, MismatchCollects
    <3>2. CASE Export!Matches(Export!Config(i), job.manifest, Export!Stage) /\ Export!Batched(Export!Stage)
      BY <1>1, <2>3, <3>2, BatchCollects
    <3>3. CASE Export!Matches(Export!Config(i), job.manifest, Export!Stage) /\ ~Export!Batched(Export!Stage)
      BY <1>1, <2>3, <3>3, PageCollects
    <3> QED
      BY <3>1, <3>2, <3>3
  <2> QED
    BY <2>1, <2>2, <2>3
<1>2. CASE Export!Begin
  BY <1>0, <1>2, BeginCollects
<1>3. CASE Export!Enter
  BY <1>0, <1>3, EnterCollects
<1>4. CASE Export!Limit \/ Export!GiveUp
  BY <1>0, <1>4, StopCollects
<1>5. CASE Export!Deploy \/ Export!Retire \/ UNCHANGED Export!vars
  BY <1>0, <1>5, DeployCollects
<1> QED
  BY <1>1, <1>2, <1>3, <1>4, <1>5 DEF Export!Next, Export!Collect

\* collectPersonalArchive: a complete archive is what its manifest names, and closed.
LEMMA ArchivesAreWhole ==
    ASSUME ExportInv
    PROVE  Export!ArchiveIsTheManifest /\ Export!ArchiveIsClosed
<1> SUFFICES ASSUME job.at = "done"
             PROVE  Export!ArchiveIsTheManifest /\ Export!ArchiveIsClosed
  BY DEF Export!ArchiveIsTheManifest, Export!ArchiveIsClosed
<1> DEFINE m == job.manifest
           G == job.got
           held == HeldOf(G)
           rest == RestOf(G)
<1>1. job.stage = 9 /\ Collected("done", 9, m, job.after, job.left, G)
  BY DEF ExportInv, ExportTypes, Collects, Going
<1>2. job.left = {}
  BY <1>1 DEF Collected
<1>3. /\ G["holdings"] = Export!Listing(m, "holdings") /\ G["moments"] = Export!Listing(m, "moments")
      /\ G["tagged"] = Export!Listing(m, "tagged") /\ G["capsules"] = Export!Listing(m, "capsules")
      /\ G["owned"] = Export!Listing(m, "owned")
  BY <1>1 DEF Collected, ListingsSoFar, SoFar
<1>4. \A i \in 5 .. 9 : Undone(i, 9, job.left, G) = {}
  BY <1>2 DEF Undone
<1>5. /\ G["memberships"] = Export!Members(m, held)
      /\ G["profiles"] = IdsOf(G)
      /\ G["segments"] = Segments(m, OwnedOf(G))
      /\ G["cards"] = Cards(m, held, rest)
  <2>1. BatchesSoFar(9, m, job.left, G)
    BY <1>1 DEF Collected
  <2>2. held \ {} = held /\ IdsOf(G) \ {} = IdsOf(G) /\ OwnedOf(G) \ {} = OwnedOf(G) /\ rest \ {} = rest
    OBVIOUS
  <2>3. /\ Undone(5, 9, job.left, G) = {} /\ Undone(7, 9, job.left, G) = {}
        /\ Undone(8, 9, job.left, G) = {} /\ Undone(9, 9, job.left, G) = {}
    BY <1>4
  <2> HIDE DEF held, rest, G, m
  <2> QED
    BY <2>1, <2>2, <2>3 DEF BatchesSoFar, held, rest
<1>6. held \cap rest = {}
  BY DEF RestOf
<1>7. \A d : Export!CardOf(m, d).n = d /\ Export!DetailOf(m, d).n = d
  BY DEF Export!CardOf, Export!DetailOf
<1>8. Export!HeldDrops = held /\ Export!CollectionIds = IdsOf(G)
  BY NamesAreThoseOf
<1>9. \A x \in G["cards"] :
         x = IF x.n \in held THEN Export!CardOf(m, x.n) ELSE Export!DetailOf(m, x.n)
  <2> TAKE x \in G["cards"]
  <2> HIDE DEF held, rest, G, m
  <2>1. \/ \E d \in held : x = Export!CardOf(m, d)
        \/ \E d \in rest : x = Export!DetailOf(m, d)
    BY <1>5 DEF Cards
  <2> QED
    BY <1>6, <1>7, <2>1
<1>10. Export!ArchiveIsTheManifest
  <2>1. \A s \in Export!Paging : G[s] = Export!Listing(m, s)
    BY <1>3 DEF Export!Paging
  <2> QED
    BY <1>5, <1>8, <1>9, <2>1 DEF Export!ArchiveIsTheManifest
<1>11. {x.n : x \in G["cards"]} = held \cup rest
  BY <1>5, CardsAreNamed
<1>12. held \cup rest = held \cup NamedOf(G) \cup {x.drop : x \in G["segments"]}
  BY DEF RestOf
<1>13. NamedOf(G) = Export!DropsOf(Export!Listing(m, "moments") \cup Export!Listing(m, "tagged"))
  BY <1>3 DEF NamedOf, Export!DropsOf
<1>14. G["segments"] = {y \in Export!Of(m, "collections").items :
                          \E o \in Export!Listing(m, "owned") : o.n = y.collection}
  BY <1>3, <1>5 DEF Segments, OwnedOf
<1>15. \A x, y \in G["cards"] : x.n = y.n => x = y
  <2> HIDE DEF held, G, m
  <2> QED
    BY <1>9
<1>16. Export!ArchiveIsClosed
  BY <1>5, <1>8, <1>11, <1>12, <1>13, <1>14, <1>15 DEF Export!ArchiveIsClosed
<1> QED
  BY <1>10, <1>16

\* docs/personal-site-export.md: while one configuration answers, the archive does not fail.
LEMMA UnmovedDoNotFail ==
    ASSUME ExportInv
    PROVE  Export!UnmovedExportCompletes
BY DEF ExportInv, OneAnswers, Export!UnmovedExportCompletes

LEMMA ExportIsTyped ==
    ASSUME ExportInv
    PROVE  Export!TypeOK
<1>1. ExportTypes
  BY DEF ExportInv
<1>2. job.manifest \in Export!Range(ExportDeployments)
  BY <1>1 DEF ExportTypes, Export!Config, Export!Range
<1>3. job.stage \in 0 .. Export!Len(Export!Stages)
  BY <1>1, StagesAreNine DEF ExportTypes
<1>4. job.at \in {"idle", "asking", "entering", "done", "failed", "limited", "stopped"}
  BY <1>1 DEF ExportTypes, Going
<1> QED
  BY <1>1, <1>2, <1>3, <1>4 DEF ExportTypes, Export!TypeOK

WholesHold ==
    /\ which = "pages" => WalkInv /\ PagesFit
    /\ which = "export" => ExportInv
    /\ which = "images" => PlanInv

LEMMA WholesAreKept ==
    ASSUME PartsAreGiven, ExportIsServed
    PROVE  MCInit /\ [][MCNext]_MCVars => []WholesHold
<1>1. MCInit => WholesHold
  BY WalkInit, PagesFitFirst, ExportInit, PlanInit
     DEF MCInit, WholesHold, PartsAreGiven, ExportIsServed
<1>2. ASSUME PartsHold, WholesHold, [MCNext]_MCVars
      PROVE  WholesHold'
  <2> USE DEF InRelease, InPages, InExport, InZip, InImages
  <2>1. which' = which
    BY <1>2 DEF MCNext, MCVars
  <2>2. ASSUME which = "pages"
        PROVE  [Pages!Next]_Pages!vars
    BY <1>2, <2>2 DEF MCNext, MCVars, Pages!vars
  <2>3. ASSUME which = "export"
        PROVE  [Export!Next]_Export!vars
    BY <1>2, <2>3 DEF MCNext, MCVars, Export!vars
  <2>4. ASSUME which = "images"
        PROVE  [Images!Next]_Images!vars
    BY <1>2, <2>4 DEF MCNext, MCVars, imagesVars, Images!vars
  <2>5. which = "pages" => WalkInv' /\ PagesFit'
    BY <1>2, <2>2, WalkStep, PagesStillFit DEF PartsHold, WholesHold, PartsAreGiven
  <2>6. which = "export" => ExportInv'
    BY <1>2, <2>3, ExportStep DEF WholesHold
  <2>7. which = "images" => PlanInv'
    BY <1>2, <2>4, PlanStep DEF PartsHold, WholesHold, PartsAreGiven
  <2> QED
    BY <2>1, <2>5, <2>6, <2>7 DEF WholesHold
<1> QED
  BY <1>1, <1>2, PartsAreKept, PTL

\* The order of the Worker's listings, collectPersonalArchive and planPersonalImages: for
\* any listings, releases, page sizes and references, a walk within one release is the
\* listing, a complete personal archive is what its manifest names and is closed, it fails
\* only for a change of configuration, and the plan of its images is every public image
\* once, where each configuration's catalog is of the snapshot of its holdings and every
\* Collection that a record names is public.
THEOREM WalksAndArchivesAreWhole ==
    ASSUME ReadsAssumption, PartsAreGiven, ExportIsServed
    PROVE  MCInit /\ [][MCNext]_MCVars => []WalkIsWhole
<1>1. ASSUME IInv, PartsHold, WholesHold
      PROVE  WalkIsWhole
  <2>1. TypeOK
    BY <1>1 DEF IInv
  <2>2. ASSUME which = "pages"
        PROVE  Pages!TypeOK /\ Pages!WalkIsWhole
    BY <1>1, <2>2, PagesAreTyped, WalksAreWhole DEF PartsHold, WholesHold, PartsAreGiven
  <2>3. ASSUME which = "export"
        PROVE  /\ Export!TypeOK /\ Export!UnmovedExportCompletes
               /\ Export!ArchiveIsTheManifest /\ Export!ArchiveIsClosed
    BY <1>1, <2>3, ExportIsTyped, UnmovedDoNotFail, ArchivesAreWhole DEF WholesHold
  <2>4. ASSUME which = "zip"
        PROVE  Zip!TypeOK
    BY <1>1, <2>4, ZipIsTyped DEF PartsHold
  <2>5. ASSUME which = "images"
        PROVE  Images!TypeOK /\ Images!PlanIsTheArchive
    BY <1>1, <2>5, ImagesAreTyped, PlansAreTheArchive DEF PartsHold, WholesHold, PartsAreGiven
  <2> QED
    BY <2>1, <2>2, <2>3, <2>4, <2>5 DEF WalkIsWhole, PartsAreTyped, UnmovedExportCompletes
<1> QED
  BY <1>1, Invariance, ReleasesAreRead, PartsAreKept, WholesAreKept, PTL

================================================================================
