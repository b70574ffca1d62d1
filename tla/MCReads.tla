------------------------------ MODULE MCReads ------------------------------
(***************************************************************************)
(* Reads, with                                                             *)
(*   release: two builds that differ in one Moment and have equally many.  *)
(*   pages: rows that tie in their first column, a listing whose last page *)
(*     is full; releases of other Collections and Moments, then of other   *)
(*     holdings and another catalog under the same cache version.          *)
(*   export: an address with held, owned, authored and tagged records that *)
(*     name Drops the catalog lacks.                                       *)
(*   zip: a site of two files, written by a dedicated worker.              *)
(*   images: references with and without a length, two of one image, one   *)
(*     to an image that is not public.                                     *)
(***************************************************************************)
EXTENDS Reads, TLC

CONSTANTS b1, b2

\* The builds of PublicReads.
SomeMoments == 1 .. 3
TwoProjections == (b1 :> {1, 2}) @@ (b2 :> {1, 3})

\* Contents s of a snapshot, under its nth identifier.
Of(s, n) == [snapshot |-> s, id |-> n]

FirstTables == [
    drops |-> {[id |-> 1, start |-> 2, tokens |-> 1, private |-> FALSE],
               [id |-> 2, start |-> 2, tokens |-> 1, private |-> FALSE],
               [id |-> 3, start |-> 1, tokens |-> 1, private |-> FALSE],
               [id |-> 4, start |-> 1, tokens |-> 2, private |-> TRUE]},
    tokens |-> {[owner |-> 1, poap |-> 5, uid |-> 1, drop |-> 1],
                [owner |-> 1, poap |-> 5, uid |-> 2, drop |-> 1],
                [owner |-> 1, poap |-> 4, uid |-> 3, drop |-> 2],
                [owner |-> 2, poap |-> 5, uid |-> 1, drop |-> 1],
                [owner |-> 3, poap |-> 5, uid |-> 1, drop |-> 1]},
    collections |-> {[id |-> 1, updated |-> 3, owner |-> 1, listed |-> TRUE],
                     [id |-> 2, updated |-> 3, owner |-> 1, listed |-> TRUE],
                     [id |-> 3, updated |-> 3, owner |-> 1, listed |-> FALSE]},
    items |-> {[id |-> 1, drop |-> 2, collection |-> 1], [id |-> 2, drop |-> 1, collection |-> 1],
               [id |-> 3, drop |-> 4, collection |-> 1], [id |-> 4, drop |-> 4, collection |-> 2]},
    artistDrops |-> {[artist |-> 1, drop |-> 2, collection |-> 1],
                     [artist |-> 1, drop |-> 3, collection |-> 1],
                     [artist |-> 2, drop |-> 2, collection |-> 1]},
    suggestions |-> {[id |-> 1, drop |-> 1, collection |-> 1, approved |-> TRUE],
                     [id |-> 2, drop |-> 5, collection |-> 1, approved |-> TRUE],
                     [id |-> 3, drop |-> 6, collection |-> 1, approved |-> FALSE]},
    moments |-> {[id |-> 1, created |-> 2, author |-> 1, tags |-> {1}, drop |-> 1, public |-> TRUE],
                 [id |-> 2, created |-> 2, author |-> 1, tags |-> {1}, drop |-> 1, public |-> TRUE],
                 [id |-> 3, created |-> 1, author |-> 1, tags |-> {2}, drop |-> 1, public |-> FALSE]},
    capsules |-> {[id |-> 1, created |-> 1, owner |-> 1, public |-> TRUE],
                  [id |-> 2, created |-> 1, owner |-> 1, public |-> TRUE]}]

\* What a later release lacks of it: the newest row of every listing.
LaterTables == [t \in DOMAIN FirstTables |->
    IF t = "tokens" THEN {r \in FirstTables[t] : r.uid # 2}
    ELSE IF t = "artistDrops" THEN {r \in FirstTables[t] : r.artist # 2}
    ELSE {r \in FirstTables[t] : r.id # 2}]

SomeTables == [r \in {Of(1, 1), Of(1, 2), Of(2, 2)} |->
    IF r = Of(1, 1) THEN FirstTables ELSE LaterTables]

Config(catalog, holdings, collections, moments, api) ==
    [catalog |-> catalog, holdings |-> holdings, collections |-> collections,
     moments |-> moments, api |-> api]
SomeDeployments ==
    <<Config(Of(1, 1), Of(1, 1), Of(1, 1), Of(1, 1), 1),
      Config(Of(1, 1), Of(1, 1), Of(1, 2), Of(1, 2), 1),
      Config(Of(2, 2), Of(2, 2), Of(1, 2), Of(1, 2), 1)>>

Token(n, drop, detailed) == [n |-> n, drop |-> drop, detailed |-> detailed]
ArchiveTables == [
    catalog |-> [r \in {Of(1, 1), Of(2, 1)} |-> IF r = Of(1, 1) THEN {1, 2, 3} ELSE {1, 2, 4}],
    holdings |-> [r \in {Of(1, 1), Of(2, 1)} |->
        IF r = Of(1, 1)
          THEN {Token(1, 1, FALSE), Token(2, 5, TRUE), Token(3, 1, FALSE)}
          ELSE {Token(1, 1, FALSE), Token(4, 4, FALSE)}],
    collections |-> [r \in {Of(1, 1), Of(1, 2), Of(2, 1)} |->
        [cards |-> IF r = Of(1, 1) THEN {5} ELSE {}, public |-> {1, 2}, owned |-> {[n |-> 2]},
         items |-> {[collection |-> 1, drop |-> 1], [collection |-> 2, drop |-> 4]}
                      \cup (IF r = Of(2, 1) THEN {[collection |-> 2, drop |-> 6]} ELSE {})]],
    moments |-> [r \in {Of(1, 1), Of(1, 2), Of(2, 1)} |->
        [authored |-> {[n |-> 1, drops |-> {2}, collections |-> {1}]}
                   \cup (IF r = Of(1, 1) THEN {[n |-> 2, drops |-> {3}, collections |-> {}]} ELSE {}),
         tagged |-> {[n |-> 1, drops |-> {2}, collections |-> {1}]},
         capsules |-> IF r = Of(2, 1) THEN {} ELSE {[n |-> 1]}]]]

Snapshots(catalog, holdings, collections, moments) ==
    [catalog |-> catalog, holdings |-> holdings, collections |-> collections,
     moments |-> moments]
\* A release of the same Collections, then of everything.
MovingArchive ==
    <<Snapshots(Of(1, 1), Of(1, 1), Of(1, 1), Of(1, 1)),
      Snapshots(Of(1, 1), Of(1, 1), Of(1, 2), Of(1, 1)),
      Snapshots(Of(2, 1), Of(2, 1), Of(1, 2), Of(1, 2))>>
\* As wrangler.jsonc has it: holdings that were refreshed after the catalog.
RefreshedHoldings == <<Snapshots(Of(1, 1), Of(2, 1), Of(1, 1), Of(1, 1))>>

Image(u, b, o) == [url |-> u, bytes |-> b, order |-> o]
ImageReferences ==
    {{Image(1, 0, 1), Image(1, 2, 2), Image(2, 0, 3), Image(3, 1, 4)},
     {Image(1, 1, 1), Image(1, 2, 2)}, {Image(2, 0, 1), Image(1, 0, 2)}, {}}

AllListings ==
    {"recent", "oldest", "popular", "search", "owner", "holdings", "collectors", "stream",
     "collections", "owned", "items", "artist_drops", "suggestions", "drop_stats",
     "moments", "authored", "tagged", "capsules"}
TwoBytes == <<2, 1>>
=============================================================================
