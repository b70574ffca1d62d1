----------------------------- MODULE PublicReads -----------------------------
(***************************************************************************)
(* Reading the published Moments: the versions of the Worker that are      *)
(* running, the edge cache in front of their databases, an operator who    *)
(* deploys releases and follows the takedown runbook, and a browser that   *)
(* exports one address page by page.  Each database behaves as             *)
(* GatedRelease promises.                                                  *)
(***************************************************************************)
EXTENDS Naturals, FiniteSets

CONSTANTS
    Builds,       \* builds, each with a database of its own
    NoBuild,      \* "none"
    Moments,      \* Moments of the exported address, in the order of the pages
    Projection,   \* [Builds -> SUBSET Moments]
    PageSize,     \* Moments in one page
    MaxRetries,   \* the client's retries of one rate-limited page
    MaxReleases,  \* bound: release identifiers ever deployed
    MaxPending,   \* bound: copies on their way to the cache
    MaxEntries    \* bound: entries in the cache, which may evict any

ReadsAssumption ==
    /\ NoBuild \notin Builds
    /\ Moments \subseteq Nat \ {0} /\ IsFiniteSet(Moments)
    /\ Projection \in [Builds -> SUBSET Moments]
    /\ PageSize \in Nat \ {0} /\ MaxRetries \in Nat
    /\ MaxReleases \in Nat /\ MaxPending \in Nat /\ MaxEntries \in Nat

VARIABLES
    released,   \* the databases that say ready
    withdrawn,  \* the suppressions in each
    deployed,   \* the configurations deployed so far, by their release number
    fleet,      \* the releases of which some isolate still takes requests
    cache,      \* the entries of the edge cache
    puts,       \* entries that waitUntil has yet to write
    runbook,    \* the takedown in progress
    resolved,   \* the takedowns that are complete, as <<build, moment>>
    reader      \* the exporting browser

databaseVars == <<released, withdrawn>>
operatorVars == <<deployed, fleet, runbook, resolved>>
vars == <<databaseVars, operatorVars, cache, puts, reader>>

\* What a body says of its release: MOMENTS_RELEASE_ID and the digests.
Releases == [id : 1 .. MaxReleases, build : Builds]
NoRelease == [id |-> 0, build |-> NoBuild]
\* A configuration also binds a database, and started from some suppressions.
Configs == [build : Builds, db : Builds, since : SUBSET Moments]
Release(i) == [id |-> i, build |-> deployed[i].build]

\* A page's next is the cursor of the page after it, 0 at the end.
Manifest(rel, n) == [release |-> rel, count |-> n, items |-> {}, next |-> 0]
PageBody(rel, items, next) ==
    [release |-> rel, count |-> 0, items |-> items, next |-> next]
NoBody == Manifest(NoRelease, 0)
Bodies == [release : Releases \cup {NoRelease}, count : 0 .. Cardinality(Moments),
           items : SUBSET Moments, next : Moments \cup {0}]
\* A request is for the manifest or for the page after a Moment.
Requests == [kind : {"manifest", "page"}, after : Moments \cup {0}]
FirstPage == [kind |-> "page", after |-> 0]
Keys == [release : Releases, request : Requests]

Idle == [phase |-> "idle", want |-> FirstPage, at |-> 0, body |-> NoBody, tries |-> 0,
         manifest |-> NoBody, release |-> NoRelease, items |-> {}, clean |-> {}]

TypeOK ==
    /\ released \subseteq Builds
    /\ withdrawn \in [Builds -> SUBSET Moments]
    /\ \E n \in 0 .. MaxReleases : deployed \in [1 .. n -> Configs]
    /\ fleet \subseteq DOMAIN deployed
    /\ cache \subseteq [key : Keys, body : Bodies] /\ puts \subseteq [key : Keys, body : Bodies]
    /\ runbook \in [step : {"none", "suppressed", "bumped", "purged"}, moment : Moments \cup {0}]
    /\ resolved \subseteq Builds \X Moments
    /\ reader \in [phase : {"idle", "asking", "waiting", "loading", "answered", "done", "failed"},
                   want : Requests, at : {0} \cup DOMAIN deployed, body : Bodies,
                   tries : 0 .. MaxRetries, manifest : Bodies,
                   release : Releases \cup {NoRelease}, items : SUBSET Moments,
                   clean : SUBSET (Builds \X Moments)]

NoTakedown == [step |-> "none", moment |-> 0]

Init ==
    /\ released = {} /\ withdrawn = [b \in Builds |-> {}]
    /\ deployed = <<>> /\ fleet = {}
    /\ cache = {} /\ puts = {}
    /\ runbook = NoTakedown /\ resolved = {}
    /\ reader = Idle
-----------------------------------------------------------------------------
(* The Worker.                                                               *)

\* Mutant: the release identifier is left out of the cache namespace.
UnversionedKey(i, request) ==
    [release |-> [id |-> 1, build |-> deployed[i].build], request |-> request]

\* makeCacheKey with momentsApiVersion: snapshot, release and digests.
CacheKey(i, request) == [release |-> Release(i), request |-> request]

\* public_moments; while a database is loaded, any part of it may be there.
Views(b) == IF b \in released THEN {Projection[b] \ withdrawn[b]} ELSE SUBSET Projection[b]

\* assertMomentsReadiness: the bound database is ready and is the expected one.
Ready(i) == deployed[i].db \in released /\ deployed[i].db = deployed[i].build

\* The rows past the cursor; one row more than the page tells if there is a next.
Past(view, after) == {m \in view : m > after}
Page(view, after) ==
    {m \in Past(view, after) :
        Cardinality({n \in Past(view, after) : n <= m}) <= PageSize}
NextCursor(view, after) ==
    IF Cardinality(Past(view, after)) > PageSize
      THEN CHOOSE m \in Page(view, after) : \A n \in Page(view, after) : n <= m
      ELSE 0

Body(i, request, view) ==
    IF request.kind = "manifest" THEN Manifest(Release(i), Cardinality(view))
    ELSE PageBody(Release(i), Page(view, request.after), NextCursor(view, request.after))

\* Readiness and rows come from one batch, so from one state of the database.
Generated(i, request) == {Body(i, request, view) : view \in Views(deployed[i].db)}
Entry(i, request, body) == [key |-> CacheKey(i, request), body |-> body]

\* waitUntil writes the copy after its response has been sent, or fails to; the
\* cache keeps an entry for as long as it likes.
Put(e) ==
    /\ puts' = puts \ {e}
    /\ \/ UNCHANGED cache
       \/ Cardinality(cache) < MaxEntries /\ cache' = cache \cup {e}
    /\ UNCHANGED databaseVars /\ UNCHANGED operatorVars /\ UNCHANGED reader

Evict(e) ==
    /\ cache' = cache \ {e}
    /\ UNCHANGED databaseVars /\ UNCHANGED operatorVars /\ UNCHANGED <<puts, reader>>
-----------------------------------------------------------------------------
(* The browser.                                                              *)

NotReader == UNCHANGED databaseVars /\ UNCHANGED operatorVars /\ UNCHANGED cache
Fail == reader' = [Idle EXCEPT !.phase = "failed"]
At(phase) == reader.phase = phase

\* A personal export reads its manifest first, a download of Moments does not.
Begin ==
    /\ reader.phase \in {"idle", "done", "failed"}
    /\ \E kind \in {"manifest", "page"} :
          reader' = [Idle EXCEPT !.phase = "asking", !.want = [kind |-> kind, after |-> 0],
                                 !.clean = resolved]
    /\ NotReader /\ UNCHANGED puts

\* Some isolate takes the request.  Its cursor must be one of the isolate's
\* own release; the cache may miss although another data center has the entry.
Ask(i) ==
    /\ At("asking") /\ i \in fleet
    /\ IF reader.want.after # 0 /\ reader.release # Release(i) THEN Fail
       ELSE \/ reader' = [reader EXCEPT !.phase = "loading", !.at = i]
            \/ \E e \in cache :
                  /\ e.key = CacheKey(i, reader.want)
                  /\ reader' = [reader EXCEPT !.phase = "answered", !.body = e.body]
    /\ NotReader /\ UNCHANGED puts

\* 429: only pages are asked for again, after a wait.
Limit ==
    /\ At("asking") /\ fleet # {}
    /\ IF reader.want.kind = "manifest" \/ reader.tries = MaxRetries THEN Fail
       ELSE reader' = [reader EXCEPT !.phase = "waiting", !.tries = @ + 1]
    /\ NotReader /\ UNCHANGED puts

Waited ==
    /\ At("waiting") /\ reader' = [reader EXCEPT !.phase = "asking"]
    /\ NotReader /\ UNCHANGED puts

\* An error is not put into the cache.
Load ==
    /\ At("loading")
    /\ IF ~Ready(reader.at) THEN Fail /\ UNCHANGED puts
       ELSE \E body \in Generated(reader.at, reader.want) :
               /\ reader' = [reader EXCEPT !.phase = "answered", !.at = 0, !.body = body]
               /\ \/ UNCHANGED puts
                  \/ /\ Cardinality(puts) < MaxPending
                     /\ puts' = puts \cup {Entry(reader.at, reader.want, body)}
    /\ NotReader

ReadManifest ==
    /\ At("answered") /\ reader.want.kind = "manifest"
    /\ reader' = [reader EXCEPT !.phase = "asking", !.want = FirstPage,
                                !.manifest = reader.body, !.body = NoBody]
    /\ NotReader /\ UNCHANGED puts

\* Mutant: only the count is held to the manifest.
AgreesInCount(rel, items) ==
    reader.manifest # NoBody => Cardinality(items) = reader.manifest.count

\* A personal export is complete only if it agrees with its manifest.
Agrees(rel, items) ==
    reader.manifest # NoBody =>
        rel = reader.manifest.release /\ Cardinality(items) = reader.manifest.count

ReadPage ==
    /\ At("answered") /\ reader.want.kind = "page"
    /\ LET body == reader.body
           items == reader.items \cup body.items
       IN  IF \/ reader.release \notin {NoRelease, body.release}
              \/ reader.items \cap body.items # {}
             THEN Fail
           ELSE IF body.next # 0
             THEN reader' = [reader EXCEPT
                        !.phase = "asking", !.want = [kind |-> "page", after |-> body.next],
                        !.release = body.release, !.items = items, !.body = NoBody, !.tries = 0]
           ELSE reader' = [reader EXCEPT
                        !.phase = IF Agrees(body.release, items) THEN "done" ELSE "failed",
                        !.release = body.release, !.items = items, !.body = NoBody]
    /\ NotReader /\ UNCHANGED puts
-----------------------------------------------------------------------------
(* The operator.                                                             *)

NotOperator == UNCHANGED <<puts, reader>>
Latest == Cardinality(DOMAIN deployed)

\* A database passes its release gate.
Activate(b) ==
    /\ b \notin released /\ released' = released \cup {b}
    /\ UNCHANGED withdrawn /\ UNCHANGED operatorVars /\ UNCHANGED cache /\ NotOperator

Deployment(b, d) ==
    /\ Latest < MaxReleases
    /\ deployed' = [i \in 1 .. Latest + 1 |->
                       IF i <= Latest THEN deployed[i]
                       ELSE [build |-> b, db |-> d, since |-> withdrawn[d]]]
    /\ fleet' = fleet \cup {Latest + 1}

\* A new release: expected digests and the database binding may disagree, and
\* the database may not be ready.
Deploy(b, d) ==
    /\ runbook = NoTakedown
    /\ Deployment(b, d)
    /\ UNCHANGED databaseVars /\ UNCHANGED <<runbook, resolved, cache>> /\ NotOperator

\* The last isolate of an older version stops taking requests.
Retire(i) ==
    /\ i \in fleet /\ i # Latest
    /\ fleet' = fleet \ {i}
    /\ UNCHANGED databaseVars /\ UNCHANGED <<deployed, runbook, resolved, cache>>
    /\ NotOperator

Current == deployed[Latest].db

\* The runbook, step 1 ...
Suppress(m) ==
    /\ runbook = NoTakedown /\ Latest \in 1 .. MaxReleases - 1
    /\ Current \in released /\ m \in Projection[Current] \ withdrawn[Current]
    /\ withdrawn' = [withdrawn EXCEPT ![Current] = @ \cup {m}]
    /\ runbook' = [step |-> "suppressed", moment |-> m]
    /\ UNCHANGED <<released, deployed, fleet, resolved, cache>> /\ NotOperator

\* ... step 2 ...
Bump ==
    /\ runbook.step = "suppressed"
    /\ Deployment(deployed[Latest].build, Current)
    /\ runbook' = [runbook EXCEPT !.step = "bumped"]
    /\ UNCHANGED databaseVars /\ UNCHANGED <<resolved, cache>> /\ NotOperator

\* ... step 4, step 3 being about the media bucket ...
Purge ==
    /\ runbook.step = "bumped"
    /\ cache' = {}
    /\ runbook' = [runbook EXCEPT !.step = "purged"]
    /\ UNCHANGED databaseVars /\ UNCHANGED <<deployed, fleet, resolved>> /\ NotOperator

\* ... and step 5: nothing serves the record any more.
Verify ==
    /\ runbook.step = "purged" /\ fleet = {Latest}
    /\ resolved' = resolved \cup {<<Current, runbook.moment>>}
    /\ runbook' = NoTakedown
    /\ UNCHANGED databaseVars /\ UNCHANGED <<deployed, fleet, cache>> /\ NotOperator
-----------------------------------------------------------------------------
ReaderStep ==
    \/ (\E i \in fleet : Ask(i)) \/ Waited \/ Load \/ ReadManifest \/ ReadPage

Operator ==
    \/ \E b \in Builds : Activate(b)
    \/ \E b, d \in Builds : Deploy(b, d)
    \/ \E i \in fleet : Retire(i)
    \/ \E m \in Moments : Suppress(m)
    \/ Bump \/ Purge \/ Verify

Next ==
    \/ Begin \/ ReaderStep \/ Limit
    \/ (\E e \in puts : Put(e)) \/ (\E e \in cache : Evict(e))
    \/ Operator

Spec == Init /\ [][Next]_vars

\* A browser that has begun goes on, and the Worker answers.
FairSpec == Spec /\ WF_vars(ReaderStep)
-----------------------------------------------------------------------------
(* Properties.                                                               *)

\* collectPersonalArchive and downloadMomentAuthorExport: whatever was cached,
\* deployed or taken down meanwhile, a finished export is of one release.  It
\* holds each Moment that is still public in that release's database, and none
\* that had been withdrawn when the release was deployed; and the manifest it
\* was checked against is of the same build.
ExportsAreOneRelease ==
    At("done") =>
        LET b == reader.release.build
        IN  /\ Projection[b] \ withdrawn[b] \subseteq reader.items
            /\ reader.items \subseteq Projection[b] \ deployed[reader.release.id].since
            /\ reader.manifest # NoBody => reader.manifest.release.build = b

\* "Suppression and takedown runbook": an export begun after a takedown was
\* complete never receives the record, although copies made from older answers
\* may still be written to the cache after the purge.
TakedownHolds ==
    reader.release # NoRelease =>
        \A m \in reader.items : <<reader.release.build, m>> \notin reader.clean

=============================================================================
