------------------------------ MODULE ApiPages ------------------------------
(***************************************************************************)
(* The listings of the Worker: a reader follows the cursor of a listing    *)
(* from page to page while new configurations are deployed and isolates of *)
(* the one before still answer, from the edge cache or from the databases. *)
(*                                                                         *)
(* A release of a database is its snapshot and its id; a new release may   *)
(* keep the snapshot.  A row is the tuple of the columns its listing is    *)
(* ordered by.                                                             *)
(***************************************************************************)
EXTENDS Naturals, FiniteSets, SequencesExt

CONSTANTS
    Deployments, \* the configurations in the order they are deployed
    Tables,      \* the contents of each release
    Owner,       \* the address, Drop, Collection and moment author asked for
    Drop,
    Collection,
    Kinds,       \* the listings the reader may follow
    Limit,       \* rows of a page, and of a batch of a streamed export
    MaxPage,     \* the page number a cursor may name, 10,000
    SearchPages, \* pages of a search, 10
    MaxExport,   \* records of a streamed export
    MaxEntries   \* bound: entries in the cache, which may evict any

VARIABLES
    deployed,    \* how many configurations have been deployed
    fleet,       \* those of which an isolate still answers
    ready,       \* the releases whose database is published
    cache,       \* the edge cache
    reader       \* the client

vars == <<deployed, fleet, ready, cache, reader>>

Databases == {"catalog", "holdings", "collections", "moments"}

Config(i) == Deployments[i]

----------------------------------------------------------------------------
(* The rows of each listing, of the tables t of its database.              *)

Drops(t, column) ==
    {<<d[column], d.id>> : d \in {e \in t.drops : ~e.private}}

Tokens(t) == {<<k.poap, k.uid>> : k \in {l \in t.tokens : l.owner = Owner}}

Collectors(t) == {<<k.poap, k.uid, k.owner>> : k \in {l \in t.tokens : l.drop = Drop}}

(* A browse without words leaves out what is not to be listed as recent.   *)
Collections(t) == {<<c.updated, c.id>> : c \in {e \in t.collections : e.listed}}

OwnedCollections(t) == {<<c.updated, c.id>> : c \in {e \in t.collections : e.owner = Owner}}

Items(t) == {<<n.id>> : n \in {e \in t.items : e.collection = Collection}}

ArtistDrops(t) ==
    {<<a.artist, a.drop>> : a \in {e \in t.artistDrops : e.collection = Collection}}

Approved(t) == {s \in t.suggestions : s.collection = Collection /\ s.approved}
Suggestions(t) == {<<s.id>> : s \in Approved(t)}

(* The union of three relations, each of them cut at the cursor.           *)
DropStats(t) ==
    {<<n.drop>> : n \in {e \in t.items : e.collection = Collection}}
        \cup {<<a.drop>> : a \in {e \in t.artistDrops : e.collection = Collection}}
        \cup {<<s.drop>> : s \in Approved(t)}

DropMoments(t) == {<<m.created, m.id>> : m \in {e \in t.moments : e.public /\ e.drop = Drop}}
Authored(t) == {<<m.created, m.id>> : m \in {e \in t.moments : e.public /\ e.author = Owner}}
Tagged(t) == {<<m.created, m.id>> : m \in {e \in t.moments : e.public /\ Owner \in e.tags}}
Capsules(t) == {<<c.created, c.id>> : c \in {e \in t.capsules : e.public /\ e.owner = Owner}}

Rows(kind, t) ==
    CASE kind \in {"recent", "oldest", "search"} -> Drops(t, "start")
      [] kind = "popular"                -> Drops(t, "tokens")
      [] kind \in {"owner", "holdings", "stream"} -> Tokens(t)
      [] kind = "collectors"             -> Collectors(t)
      [] kind = "collections"            -> Collections(t)
      [] kind = "owned"                  -> OwnedCollections(t)
      [] kind = "items"                  -> Items(t)
      [] kind = "artist_drops"           -> ArtistDrops(t)
      [] kind = "suggestions"            -> Suggestions(t)
      [] kind = "drop_stats"             -> DropStats(t)
      [] kind = "moments"                -> DropMoments(t)
      [] kind = "authored"               -> Authored(t)
      [] kind = "tagged"                 -> Tagged(t)
      [] kind = "capsules"               -> Capsules(t)

Ascending == {"oldest", "items", "artist_drops", "suggestions", "drop_stats"}

OfDrops == {"recent", "oldest", "popular", "search"}
OfHoldings == {"owner", "holdings", "collectors", "stream"}
OfCollections == {"collections", "owned", "items", "artist_drops", "suggestions", "drop_stats"}
OfMoments == {"moments", "authored", "tagged", "capsules"}

Db(kind) ==
    CASE kind \in OfDrops       -> "catalog"
      [] kind \in OfHoldings    -> "holdings"
      [] kind \in OfCollections -> "collections"
      [] kind \in OfMoments     -> "moments"

ApiPagesAssumption ==
    /\ Deployments \in Seq(Range(Deployments)) \ {<<>>}
    /\ Limit \in Nat \ {0} /\ MaxPage \in Nat /\ SearchPages \in Nat \ {0}
    /\ MaxEntries \in Nat
    /\ \A i \in DOMAIN Deployments : DOMAIN Deployments[i] = Databases \cup {"api"}
    /\ Kinds \subseteq OfDrops \cup OfHoldings \cup OfCollections \cup OfMoments
    \* The columns of a listing, at most three, hold numbers.
    /\ \A i \in DOMAIN Deployments : \A kind \in Kinds :
          LET rows == Rows(kind, Tables[Deployments[i][Db(kind)]])
          IN IsFiniteSet(rows) /\ \E w \in 1..3 : rows \subseteq [1..w -> Nat]

----------------------------------------------------------------------------
(* Pages.                                                                  *)

(* Row values compare column by column.                                    *)
Less(a, b) ==
    \E n \in DOMAIN a : a[n] < b[n] /\ \A m \in 1..(n - 1) : a[m] = b[m]

\* Mutant: the first column alone is compared with the cursor.
AfterFirstColumn(kind, a, b) == IF kind \in Ascending THEN b[1] < a[1] ELSE a[1] < b[1]

Before(kind, a, b) == IF kind \in Ascending THEN Less(a, b) ELSE Less(b, a)
After(kind, a, b) == Before(kind, b, a)

(* The first n of the rows, in their order: the ith has i - 1 before it.   *)
First(kind, rows, n) ==
    [i \in 1..n |-> CHOOSE r \in rows : Cardinality({q \in rows : Before(kind, q, r)}) = i - 1]

Listing(kind, t) == First(kind, Rows(kind, t), Cardinality(Rows(kind, t)))

Start == [p |-> 1, key |-> <<>>, s |-> 0, f |-> <<>>]

(* One row more than the page tells whether there is a next one.           *)
Past(kind, t, key) == {r \in Rows(kind, t) : key = <<>> \/ After(kind, r, key)}

Shown(kind, t, key) ==
    LET past == Past(kind, t, key)
    IN First(kind, past, IF Cardinality(past) < Limit THEN Cardinality(past) ELSE Limit)

(* The filter of a cursor: the exports of moments also name their release. *)
Filter(c, kind) ==
    <<kind, IF kind \in {"authored", "tagged", "capsules"} THEN c.moments.id ELSE 0>>

NextCursor(c, kind, t, cursor) ==
    LET shown == Shown(kind, t, cursor.key)
    IN IF Cardinality(Past(kind, t, cursor.key)) > Limit
          /\ (kind = "search" => cursor.p < SearchPages)
       THEN [p |-> cursor.p + 1, key |-> Last(shown), s |-> c[Db(kind)].snapshot,
             f |-> Filter(c, kind)]
       ELSE Start

\* Mutant: the snapshot of a cursor is not compared.
FitsAnySnapshot(c, kind, cursor) ==
    \/ cursor = Start
    \/ cursor.f = Filter(c, kind) /\ (cursor.p <= MaxPage \/ kind \in {"owner", "holdings"})

(* The cursors of an owner and of its holdings have no page number.        *)
CursorFits(c, kind, cursor) ==
    \/ cursor = Start
    \/ /\ cursor.s = c[Db(kind)].snapshot /\ cursor.f = Filter(c, kind)
       /\ (cursor.p <= MaxPage \/ kind \in {"owner", "holdings"})

(* The listings of the Drops of a Collection as cards with their artwork.  *)
CardListings == {"items", "artist_drops", "suggestions"}

(* The parts of the configuration that shape an answer.  Presentation      *)
(* comes from the catalog, then from the cards of the Collections, then    *)
(* from the holdings; the artwork of a card is shown if its key is one of  *)
(* the archive or of the Collections.                                      *)
Reads(kind) ==
    CASE kind \in OfDrops    -> {"catalog"}
      [] kind \in OfHoldings -> {"catalog", "holdings", "collections"}
      [] kind \in CardListings -> {"catalog", "collections"}
      [] kind \in {"collections", "owned", "drop_stats"}   -> {"collections"}
      [] kind \in OfMoments  -> {"moments"}

Answer(c, kind, cursor) ==
    LET t == Tables[c[Db(kind)]]
    IN [rows |-> Shown(kind, t, cursor.key), next |-> NextCursor(c, kind, t, cursor),
        sources |-> [d \in Reads(kind) |-> c[d]]]

(* assertSnapshotId, assertCollectionsReadiness, assertMomentsReadiness.   *)
Ready(c, kind) == {c[d] : d \in Reads(kind)} \subseteq ready

----------------------------------------------------------------------------
(* The cache.                                                              *)

\* Mutant: the pages of an owner are named by the holdings alone.
KeyOfOneSnapshot(c, kind, cursor) ==
    <<kind, cursor, c.api, c[Db(kind)].snapshot, c[Db(kind)].id>>

KeyOfDrops(c) == <<c.catalog.snapshot>>
KeyOfHoldings(c) == <<c.holdings.snapshot, c.catalog.snapshot, c.collections.id>>
KeyOfCollections(c) == <<c.collections.snapshot, c.collections.id>>
KeyOfMoments(c) == <<c.moments.snapshot, c.moments.id>>

CacheKey(c, kind, cursor) ==
    <<kind, cursor, c.api>> \o
    (CASE kind \in OfDrops       -> KeyOfDrops(c)
       [] kind \in OfHoldings    -> KeyOfHoldings(c)
       [] kind \in OfCollections -> KeyOfCollections(c)
       [] kind \in OfMoments     -> KeyOfMoments(c))

(* A release is told by what the keys hold of it: the snapshots of the     *)
(* catalog and the holdings have an identifier each, COLLECTIONS_RELEASE_ID *)
(* changes "whenever that binding or its published contents change", the   *)
(* Moments have both, and otherwise API_CACHE_VERSION is raised.           *)
ReleasesAreIdentified ==
    \A i, j \in DOMAIN Deployments :
        LET c == Config(i)
            k == Config(j)
        IN c.api = k.api =>
              /\ c.catalog.snapshot = k.catalog.snapshot => c.catalog = k.catalog
              /\ c.holdings.snapshot = k.holdings.snapshot => c.holdings = k.holdings
              /\ c.collections.id = k.collections.id => c.collections = k.collections
              /\ KeyOfMoments(c) = KeyOfMoments(k) => c.moments = k.moments

Idle(kind) ==
    [phase |-> "idle", kind |-> kind, cursor |-> Start, at |-> 0, rows |-> <<>>,
         sources |-> {},
     since |-> {}]

Init ==
    /\ deployed = 1 /\ fleet = {1}
    /\ ready = {Config(1)[d] : d \in Databases}
    /\ cache = {} /\ \E kind \in Kinds : reader = Idle(kind)

----------------------------------------------------------------------------
(* The reader.                                                             *)

(* Its readers follow one listing: two listings have no key in common.     *)
Begin ==
    /\ reader.phase = "idle"
    /\ reader' = [reader EXCEPT !.phase = "asking", !.since = fleet]
    /\ UNCHANGED <<deployed, fleet, ready, cache>>

(* The answer of a page, and the next one the reader asks for.             *)
Took(answer) ==
    [reader EXCEPT !.rows = @ \o answer.rows, !.sources = @ \cup {answer.sources},
                   !.cursor = answer.next, !.at = 0,
                   !.phase = IF answer.next = Start THEN "done" ELSE "asking"]

Paged == reader.phase = "asking" /\ reader.kind # "stream"

Refuse(i) ==
    /\ Paged /\ ~CursorFits(Config(i), reader.kind, reader.cursor)
    /\ reader' = [reader EXCEPT !.phase = "refused"]
    /\ UNCHANGED <<deployed, fleet, ready, cache>>

Hit(i) ==
    /\ Paged /\ CursorFits(Config(i), reader.kind, reader.cursor)
    /\ \E e \in cache :
        /\ e.key = CacheKey(Config(i), reader.kind, reader.cursor)
        /\ reader' = Took(e.answer)
    /\ UNCHANGED <<deployed, fleet, ready, cache>>

(* A miss: the copy may reach the cache or fail to.  A 503 is not cached.  *)
Load(i) ==
    /\ Paged /\ CursorFits(Config(i), reader.kind, reader.cursor)
    /\ LET c == Config(i)
           answer == Answer(c, reader.kind, reader.cursor)
           entry == [key |-> CacheKey(c, reader.kind, reader.cursor), answer |-> answer,
                     kind |-> reader.kind, cursor |-> reader.cursor]
       IN IF Ready(c, reader.kind)
          THEN /\ reader' = Took(answer)
               /\ \/ UNCHANGED cache
                  \/ Cardinality(cache) < MaxEntries /\ cache' = cache \cup {entry}
          ELSE reader' = [reader EXCEPT !.phase = "failed"] /\ UNCHANGED cache
    /\ UNCHANGED <<deployed, fleet, ready>>

Evict ==
    /\ \E e \in cache : cache' = cache \ {e}
    /\ UNCHANGED <<deployed, fleet, ready, reader>>

----------------------------------------------------------------------------
(* The streamed export of an address: one isolate, batch after batch.      *)

Total(c) == Cardinality(Tokens(Tables[c.holdings]))

Open(i) ==
    /\ reader.phase = "asking" /\ reader.kind = "stream"
    /\ LET c == Config(i)
       IN reader' = IF c.holdings \notin ready \/ Total(c) > MaxExport
                    THEN [reader EXCEPT !.phase = "failed"]
                    ELSE [reader EXCEPT !.phase = IF Total(c) = 0 THEN "done" ELSE "streaming",
                                        !.at = i, !.sources = {[d \in Reads("stream") |-> c[d]]}]
    /\ UNCHANGED <<deployed, fleet, ready, cache>>

Pull ==
    /\ reader.phase = "streaming"
    /\ LET c == Config(reader.at)
           batch == Shown("stream", Tables[c.holdings], reader.cursor.key)
           ends == Len(batch) < Limit \/ Len(reader.rows) + Len(batch) >= Total(c)
       IN reader' = IF batch = <<>> THEN [reader EXCEPT !.phase = "done"]
                    ELSE [reader EXCEPT !.rows = @ \o batch, !.cursor.key = Last(batch),
                                        !.phase = IF ends THEN "done" ELSE @]
    /\ UNCHANGED <<deployed, fleet, ready, cache>>

----------------------------------------------------------------------------
(* The operator publishes the databases of the next configuration, deploys *)
(* it, and its isolates replace those of the one before.                   *)

Publish ==
    /\ deployed < Len(Deployments)
    /\ \E d \in Databases :
        /\ Config(deployed + 1)[d] \notin ready
        /\ ready' = ready \cup {Config(deployed + 1)[d]}
    /\ UNCHANGED <<deployed, fleet, cache, reader>>

Deploy ==
    /\ deployed < Len(Deployments)
    /\ deployed' = deployed + 1 /\ fleet' = fleet \cup {deployed + 1}
    /\ UNCHANGED <<ready, cache, reader>>

Retire ==
    /\ \E i \in fleet : i < deployed /\ fleet' = fleet \ {i}
    /\ UNCHANGED <<deployed, ready, cache, reader>>

(* A reader that has its answer asks anew.                                 *)
Leave ==
    /\ reader.phase \in {"done", "refused", "failed"}
    /\ reader' = Idle(reader.kind)
    /\ UNCHANGED <<deployed, fleet, ready, cache>>

Ask == \E i \in fleet : Refuse(i) \/ Hit(i) \/ Load(i) \/ Open(i)

Next == Begin \/ Ask \/ Pull \/ Leave
        \/ Evict \/ Publish \/ Deploy \/ Retire

Spec == Init /\ [][Next]_vars
FairSpec == Spec /\ WF_vars(Ask) /\ WF_vars(Pull)

----------------------------------------------------------------------------
TypeOK ==
    /\ deployed \in DOMAIN Deployments /\ fleet \subseteq 1..deployed /\ fleet # {}
    /\ Cardinality(cache) <= MaxEntries
    /\ reader.phase \in {"idle", "asking", "streaming", "done", "refused", "failed"}
    /\ reader.kind \in Kinds

(* The releases of the database of a listing that the pages came from.     *)
Origins == {s[Db(reader.kind)] : s \in reader.sources}

(* All the pages a reader puts together are of one snapshot, whatever was  *)
(* deployed between them.                                                  *)
WalkIsOneSnapshot == Cardinality({r.snapshot : r \in Origins}) <= 1

(* A listing followed to its end within one release is that listing: every *)
(* row once and in order, ties and the last page included.  A search ends  *)
(* after its last page.                                                    *)
WalkIsWhole ==
    reader.phase = "done" =>
        \A r \in Origins : Cardinality(Origins) = 1 =>
            LET whole == Listing(reader.kind, Tables[r])
            IN reader.rows = IF reader.kind = "search" /\ Len(whole) > SearchPages * Limit
                             THEN SubSeq(whole, 1, SearchPages * Limit) ELSE whole

(* "Cache keys must include the active snapshot ID plus every normalized   *)
(* input that changes the response".  What the cache would answer under a  *)
(* configuration is, in all its parts, what its databases would, with one  *)
(* exception, for which the sentence is not true of the code: the cards of *)
(* a Collection may show the artwork of the catalog of another             *)
(* configuration that has been deployed, but nothing else of it.           *)
CachedIsLoaded ==
    \A e \in cache : \A i \in fleet :
        e.key = CacheKey(Config(i), e.kind, e.cursor) =>
            LET loaded == Answer(Config(i), e.kind, e.cursor)
            IN IF e.kind \notin CardListings THEN e.answer = loaded
               ELSE \E j \in 1..deployed :
                       e.answer = [loaded EXCEPT !.sources["catalog"] = Config(j).catalog]

(* "Clients should follow the returned nextPath unchanged until it becomes *)
(* null": the cursor of an answer is refused only if more than one         *)
(* configuration has answered since the reader began, or its page number   *)
(* has reached the cap.                                                    *)
CursorsAreAccepted ==
    reader.phase = "refused" => reader.since # {deployed} \/ reader.cursor.p > MaxPage

=============================================================================
