--------------------------- MODULE PersonalExport ---------------------------
(***************************************************************************)
(* The complete archive of an address, collected by the browser: a         *)
(* manifest that names the snapshots and the counts, then listing after    *)
(* listing and batch after batch, every answer held to the manifest, while *)
(* the Worker is deployed anew, asks for patience or fails.                *)
(*                                                                         *)
(* Each configuration of the Worker names its releases and what they hold  *)
(* for the address.  A Drop, a Collection, a Moment, a Capsule or a token  *)
(* is a number.                                                            *)
(***************************************************************************)
EXTENDS Naturals, SequencesExt, FiniteSetsExt

CONSTANTS
    Deployments, \* the configurations in the order they are deployed
    Tables,      \* the contents of each release of each database
    PageSize,    \* records of a page, identifiers of a batch
    MaxRetries,  \* answers 429 to one request, 5
    MaxLimited   \* bound: answers 429 in all

VARIABLES
    deployed,    \* how many configurations have been deployed
    fleet,       \* those of which an isolate still answers
    job          \* collectPersonalArchive

vars == <<deployed, fleet, job>>

Databases == {"catalog", "holdings", "collections", "moments"}

Config(i) == Deployments[i]
Of(c, database) == Tables[database][c[database]]

----------------------------------------------------------------------------
(* What a configuration answers.                                           *)

(* Paged listings, then the batches that are asked by identifier.          *)
Stages == <<"holdings", "moments", "tagged", "capsules", "memberships", "owned", "profiles",
            "segments", "drops">>

(* A listing is a set of records with an identifier n.                     *)
Listing(c, stage) ==
    CASE stage = "holdings" -> Of(c, "holdings")
      [] stage = "moments"  -> Of(c, "moments").authored
      [] stage = "tagged"   -> Of(c, "moments").tagged
      [] stage = "capsules" -> Of(c, "moments").capsules
      [] stage = "owned"    -> Of(c, "collections").owned

Paging == {"holdings", "moments", "tagged", "capsules", "owned"}

Counts(c) == [s \in Paging |-> Cardinality(Listing(c, s))]

PersonalExportAssumption ==
    /\ Deployments \in Seq(Range(Deployments)) \ {<<>>}
    /\ PageSize \in Nat \ {0} /\ MaxRetries \in Nat /\ MaxLimited \in Nat
    /\ \A i \in DOMAIN Deployments :
          /\ DOMAIN Deployments[i] = Databases
          /\ \A s \in Paging : LET records == Listing(Config(i), s)
                              IN IsFiniteSet(records) /\ \A x \in records : x.n \in Nat \ {0}

(* A snapshot of the catalog or of the holdings has an identifier of its   *)
(* own, which is all that an answer says of it.                            *)
SnapshotsAreIdentified ==
    \A i, j \in DOMAIN Deployments : \A d \in {"catalog", "holdings"} :
        Config(i)[d].snapshot = Config(j)[d].snapshot => Config(i)[d] = Config(j)[d]

(* A Drop of a token is public, or kept by the Collections for its holder, *)
(* or told by the holdings themselves, which detail some of their Drops.   *)
CardOf(c, drop) ==
    [n |-> drop, of |->
        IF drop \in Of(c, "catalog") THEN <<"catalog", c.catalog>>
        ELSE IF drop \in Of(c, "collections").cards THEN <<"collections", c.collections>>
        ELSE IF \E x \in Of(c, "holdings") : x.drop = drop /\ x.detailed
             THEN <<"holdings", c.holdings>> ELSE <<>>]

(* The Drop details of the last stage are those of the catalog alone.      *)
DetailOf(c, drop) ==
    IF drop \in Of(c, "catalog") THEN [n |-> drop, of |-> <<"catalog", c.catalog>>]
    ELSE [n |-> drop, of |-> <<>>]

Members(c, drops) == {x \in Of(c, "collections").items : x.drop \in drops}

\* Mutant: a page of holdings is held to the snapshots alone.
MatchesSnapshots(c, m, stage) ==
    CASE stage = "holdings" ->
            c.holdings.snapshot = m.holdings.snapshot /\ c.catalog.snapshot = m.catalog.snapshot
      [] stage \in {"moments", "tagged", "capsules"} -> c.moments = m.moments
      [] stage \in {"memberships", "owned", "profiles", "segments"} -> c.collections = m.collections
      [] stage = "drops" -> c.catalog.snapshot = m.holdings.snapshot

(* The identity of every answer is held to the manifest; that of the Drop  *)
(* details, which are the catalog's, to its snapshot of the holdings.      *)
Matches(c, m, stage) ==
    CASE stage = "holdings" ->
            /\ c.holdings.snapshot = m.holdings.snapshot /\ c.catalog.snapshot = m.catalog.snapshot
            /\ c.collections = m.collections
      [] stage \in {"moments", "tagged", "capsules"} -> c.moments = m.moments
      [] stage \in {"memberships", "owned", "profiles", "segments"} -> c.collections = m.collections
      [] stage = "drops" -> c.catalog.snapshot = m.holdings.snapshot

----------------------------------------------------------------------------
(* The collector.                                                          *)

Nothing == [s \in {"holdings", "moments", "tagged", "capsules", "memberships", "owned",
                   "profiles", "segments", "cards"} |-> {}]

Init ==
    /\ deployed = 1 /\ fleet = {1}
    /\ job = [at |-> "idle", stage |-> 0, manifest |-> Config(1), after |-> 0, left |-> {},
              retries |-> 0, limited |-> 0, got |-> Nothing, since |-> {}]

Stage == Stages[job.stage]

DropsOf(records) == UNION {x.drops : x \in records}
HeldDrops == {t.drop : t \in job.got["holdings"]}

CollectionIds ==
    {x.collection : x \in job.got["memberships"]} \cup {x.n : x \in job.got["owned"]}
        \cup UNION {x.collections : x \in job.got["moments"] \cup job.got["tagged"]}

ReferencedDrops ==
    HeldDrops \cup DropsOf(job.got["moments"] \cup job.got["tagged"])
        \cup {x.drop : x \in job.got["segments"]}

Batched(stage) == stage \notin Paging

(* What a batched stage is to ask for.                                     *)
Left(stage) ==
    CASE stage = "memberships" -> HeldDrops
      [] stage = "profiles"    -> CollectionIds
      [] stage = "segments"    -> {x.n : x \in job.got["owned"]}
      [] stage = "drops"       -> ReferencedDrops \ {x.n : x \in job.got["cards"]}
      [] OTHER                 -> {}

Begin ==
    /\ job.at = "idle"
    /\ job' = [job EXCEPT !.at = "asking", !.since = fleet]
    /\ UNCHANGED <<deployed, fleet>>

(* The next stage; one that has nothing to ask for is over.                *)
Enter ==
    /\ job.at = "entering"
    /\ job' = IF job.stage = Len(Stages) THEN [job EXCEPT !.at = "done"]
              ELSE LET next == Stages[job.stage + 1]
                   IN [job EXCEPT !.stage = @ + 1, !.after = 0, !.left = Left(next), !.retries = 0,
                                  !.at = IF Batched(next) /\ Left(next) = {} THEN "entering"
                                         ELSE "asking"]
    /\ UNCHANGED <<deployed, fleet>>

LowestOf(set, n) == {x \in set : Cardinality({y \in set : y < x}) < n}

\* Mutant: the cursor of a page points past the record that follows it.
PagedPastNext(c) ==
    LET past == {x \in Listing(c, Stage) : x.n > job.after}
        page == {x \in past : x.n \in LowestOf({y.n : y \in past}, PageSize)}
        got  == job.got[Stage] \cup page
        next == [job EXCEPT !.got[Stage] = got, !.retries = 0,
                            !.got["cards"] = IF Stage = "holdings"
                                             THEN @ \cup {CardOf(c, x.drop) : x \in page} ELSE @]
    IN IF page # past THEN [next EXCEPT !.after = Max({x.n : x \in page}) + 1]
       ELSE IF Cardinality(got) = Counts(job.manifest)[Stage] THEN [next EXCEPT !.at = "entering"]
       ELSE [job EXCEPT !.at = "failed"]

(* A page in the order of its records; the listing ends with the count of  *)
(* the manifest or is refused.                                             *)
Paged(c) ==
    LET past == {x \in Listing(c, Stage) : x.n > job.after}
        page == {x \in past : x.n \in LowestOf({y.n : y \in past}, PageSize)}
        got  == job.got[Stage] \cup page
        next == [job EXCEPT !.got[Stage] = got, !.retries = 0,
                            !.got["cards"] = IF Stage = "holdings"
                                             THEN @ \cup {CardOf(c, x.drop) : x \in page} ELSE @]
    IN IF page # past THEN [next EXCEPT !.after = Max({x.n : x \in page})]
       ELSE IF Cardinality(got) = Counts(job.manifest)[Stage] THEN [next EXCEPT !.at = "entering"]
       ELSE [job EXCEPT !.at = "failed"]

(* A batch; the segments of an owned Collection, its manifest and their    *)
(* pages, are one answer: all of them carry the identity it is held to.    *)
BatchOf(c) ==
    LET size  == IF Stage = "segments" THEN 1 ELSE PageSize
        asked == LowestOf(job.left, size)
        left  == job.left \ asked
        next  == [job EXCEPT !.left = left, !.retries = 0,
                             !.at = IF left = {} THEN "entering" ELSE @]
    IN CASE Stage = "memberships" -> [next EXCEPT !.got[Stage] = @ \cup Members(c, asked)]
         [] Stage = "profiles" ->
              IF asked \subseteq Of(c, "collections").public
              THEN [next EXCEPT !.got[Stage] = @ \cup asked] ELSE [job EXCEPT !.at = "failed"]
         [] Stage = "segments" ->
              [next EXCEPT !.got[Stage] =
                  @ \cup {x \in Of(c, "collections").items : x.collection \in asked}]
         [] Stage = "drops" ->
              [next EXCEPT !.got["cards"] = @ \cup {DetailOf(c, d) : d \in asked}]

Answer(i) ==
    /\ job.at = "asking"
    /\ job' = IF job.stage = 0 THEN [job EXCEPT !.at = "entering", !.manifest = Config(i)]
              ELSE IF ~Matches(Config(i), job.manifest, Stage) THEN [job EXCEPT !.at = "failed"]
              ELSE IF Batched(Stage) THEN BatchOf(Config(i)) ELSE Paged(Config(i))
    /\ UNCHANGED <<deployed, fleet>>

(* The Worker asks for patience, the manifest excepted, which is not asked *)
(* for again.                                                              *)
Limit ==
    /\ job.at = "asking" /\ job.limited < MaxLimited
    /\ job' = IF job.stage > 0 /\ job.retries < MaxRetries
              THEN [job EXCEPT !.retries = @ + 1, !.limited = @ + 1]
              ELSE [job EXCEPT !.at = "limited"]
    /\ UNCHANGED <<deployed, fleet>>

(* Another failure of a request, or the visitor's own decision.            *)
GiveUp ==
    /\ job.at \in {"asking", "entering"}
    /\ job' = [job EXCEPT !.at = "stopped"]
    /\ UNCHANGED <<deployed, fleet>>

Deploy ==
    /\ deployed < Len(Deployments)
    /\ deployed' = deployed + 1 /\ fleet' = fleet \cup {deployed + 1}
    /\ UNCHANGED job

Retire ==
    /\ \E i \in fleet : i < deployed /\ fleet' = fleet \ {i}
    /\ UNCHANGED <<deployed, job>>

Collect == Enter \/ Limit \/ \E i \in fleet : Answer(i)

Next == Begin \/ Collect \/ GiveUp \/ Deploy \/ Retire

Spec == Init /\ [][Next]_vars
FairSpec == Spec /\ WF_vars(Collect)

----------------------------------------------------------------------------
TypeOK ==
    /\ deployed \in DOMAIN Deployments /\ fleet \subseteq 1..deployed /\ fleet # {}
    /\ job.at \in {"idle", "asking", "entering", "done", "failed", "limited", "stopped"}
    /\ job.stage \in 0..Len(Stages) /\ job.retries \in 0..MaxRetries
    /\ job.manifest \in Range(Deployments)

(* A complete archive is what the databases its manifest names hold of the *)
(* address: no record of another release, none twice, none left out.       *)
ArchiveIsTheManifest ==
    job.at = "done" =>
        LET m == job.manifest
            cardOf(d) == IF d \in HeldDrops THEN CardOf(m, d) ELSE DetailOf(m, d)
        IN /\ \A s \in Paging : job.got[s] = Listing(m, s)
           /\ job.got["memberships"] = Members(m, HeldDrops)
           /\ \A x \in job.got["cards"] : x = cardOf(x.n)

(* A complete archive is closed: every Drop that its tokens, its Moments   *)
(* and its owned Collections name has one card or is said to be            *)
(* unavailable, and every Collection it names has its profile.             *)
ArchiveIsClosed ==
    job.at = "done" =>
        /\ HeldDrops \cup DropsOf(Listing(job.manifest, "moments") \cup Listing(job.manifest, "tagged"))
              \cup {x.drop : x \in {y \in Of(job.manifest, "collections").items :
                                      \E o \in Listing(job.manifest, "owned") : o.n = y.collection}}
              = {x.n : x \in job.got["cards"]}
        /\ \A x, y \in job.got["cards"] : x.n = y.n => x = y
        /\ job.got["profiles"] = CollectionIds

(* An export is stopped by a change of the archive, and by nothing else of *)
(* the archive's own doing: while one configuration answers, it completes. *)
UnmovedExportCompletes == job.at = "failed" => job.since # {deployed}

=============================================================================
