----------------------------- MODULE ArchiveImport -----------------------------
(***************************************************************************)
(* The import of the archive: an inventory of its artwork, taken from the  *)
(* remote ZIP by ranges or from a ZIP at hand, and one pass over a source  *)
(* database that quarantines, aggregates and writes SQL shards in bounded  *)
(* memory, then the verification of what was written.                      *)
(*                                                                         *)
(* A source row says whether its fields are valid.  A token says how its   *)
(* owner was spelt: owners are compared in lower case.  Row sizes are      *)
(* counted in rows.                                                        *)
(***************************************************************************)
EXTENDS Naturals, SequencesExt, FiniteSetsExt

CONSTANTS
    Sources,       \* the databases an archive may have
    Archives,      \* the versions of the remote ZIP in the order they appear:
                   \* sequences of [drop, ok]; the first is the pinned one
    Local,         \* the ZIPs and directories an operator may have instead
    RangeEntries,  \* central directory entries of one range request
    StatementRows, \* rows of one INSERT
    ShardRows      \* rows of one shard

VARIABLES
    source,        \* the source database
    remote,        \* which version the remote host serves
    kind,          \* where artwork comes from: "inventory" or "local"
    job,           \* the process: inventory, import or verification
    out            \* the output directory

vars == <<source, remote, kind, job, out>>

ArchiveImportAssumption ==
    /\ Archives \in Seq(Seq([drop : Nat, ok : BOOLEAN])) \ {<<>>} /\ RangeEntries \in Nat \ {0}
    /\ StatementRows \in Nat \ {0} /\ ShardRows \in Nat /\ ShardRows >= StatementRows

Pinned == Archives[1]

NoWriter == [pending |-> <<>>, shard |-> <<>>, shards |-> <<>>]
NoOut == [written |-> FALSE, report |-> FALSE, intact |-> TRUE, tokens |-> <<>>, owners |-> <<>>,
          drops |-> {}, stats |-> {}, manifest |-> {}, rejected |-> {}, orphans |-> 0, blocked |-> FALSE]
NoOwner == [owner |-> 0]
NewJob == [at |-> "new", parts |-> <<>>, art |-> <<>>, emails |-> {}, drops |-> {},
           queue |-> <<>>, writer |-> NoWriter, acc |-> NoOwner, counts |-> [d \in {} |-> 0]]

Init ==
    /\ source \in Sources /\ kind \in {"inventory", "local"}
    /\ remote = 1 /\ job = NewJob /\ out = NoOut

----------------------------------------------------------------------------
(* The artwork.                                                            *)

\* Mutant: the digests of the directory and of its entries are not compared.
MatchesLength(directory) == Len(directory) = Len(Pinned)

(* What is read from the remote ZIP is held to pinned digests.             *)
MatchesPolicy(directory) == directory = Pinned

(* A range of the directory; a host that does not say which version it     *)
(* serves may serve another ZIP by now, and its length is all that shows.  *)
FetchRange ==
    /\ job.at = "new" /\ kind = "inventory" /\ Len(job.parts) < Len(Pinned)
    /\ LET from == Len(job.parts) + 1
           end  == Min({from + RangeEntries - 1, Len(Pinned)})
       IN job' = IF Len(Archives[remote]) # Len(Pinned) THEN [job EXCEPT !.at = "failed"]
                 ELSE [job EXCEPT !.parts = @ \o SubSeq(Archives[remote], from, end)]
    /\ UNCHANGED <<source, remote, kind, out>>

(* The first entry of a Drop counts, a repeated one marks the Drop, as     *)
(* does a file that is no image; a pinned inventory has neither.           *)
Inventory ==
    /\ job.at = "new" /\ (kind = "inventory" => Len(job.parts) = Len(Pinned))
    /\ \E entries \in IF kind = "local" THEN Local ELSE {job.parts} :
          job' = IF kind = "inventory" /\ ~MatchesPolicy(entries) THEN [job EXCEPT !.at = "failed"]
                 ELSE [job EXCEPT !.at = "prepared", !.art = entries]
    /\ UNCHANGED <<source, remote, kind, out>>

ArtDrops == {job.art[i].drop : i \in DOMAIN job.art}
RepeatedArt == {d \in ArtDrops : Cardinality({i \in DOMAIN job.art : job.art[i].drop = d}) > 1}
UnusableArt == RepeatedArt \cup {job.art[i].drop : i \in {j \in DOMAIN job.art : ~job.art[j].ok}}

----------------------------------------------------------------------------
(* The import.                                                             *)

(* Only an empty directory is written to.                                  *)
Prepare ==
    /\ job.at = "prepared"
    /\ IF out.written THEN job' = [job EXCEPT !.at = "failed"] /\ UNCHANGED out
       ELSE job' = [job EXCEPT !.at = "catalog"] /\ out' = [NoOut EXCEPT !.written = TRUE]
    /\ UNCHANGED <<source, remote, kind>>

(* The order of the stream: lower(owner_address), then the token.          *)
Before(a, b) == a.owner < b.owner \/ (a.owner = b.owner /\ a.uid > b.uid)

(* A Drop is quarantined when a valid one before it has its fancy id.      *)
Accepted ==
    {d \in source.drops : d.valid /\
        ~\E e \in source.drops : e.valid /\ e.id < d.id /\ e.fancy = d.fancy}

(* Reservations of a Drop that is not accepted are quarantined too.        *)
ReadCatalog ==
    /\ job.at = "catalog"
    /\ LET drops  == Accepted
           emails == {e \in source.emails : e.valid /\ \E d \in drops : d.id = e.drop}
       IN /\ job' = [job EXCEPT !.at = "tokens", !.emails = emails, !.drops = {d.id : d \in drops},
                                !.queue = SetToSortSeq(source.tokens, Before),
                                !.counts = [d \in {t.drop : t \in source.tokens} |-> 0]]
          /\ out' = [out EXCEPT !.rejected = (source.drops \ drops) \cup (source.emails \ emails)]
    /\ UNCHANGED <<source, remote, kind>>

(* A statement is written to the shard, or to the next if it is full.      *)
Flush(w) ==
    IF w.pending = <<>> THEN w
    ELSE IF Len(w.shard) + Len(w.pending) > ShardRows
    THEN [pending |-> <<>>, shard |-> w.pending, shards |-> Append(w.shards, w.shard)]
    ELSE [w EXCEPT !.shard = @ \o w.pending, !.pending = <<>>]

Add(w, row) ==
    LET added == [w EXCEPT !.pending = Append(@, row)]
    IN IF Len(added.pending) >= StatementRows THEN Flush(added) ELSE added

Close(w) == LET f == Flush(w) IN IF f.shard = <<>> THEN f.shards ELSE Append(f.shards, f.shard)

OwnerRow(acc) == [owner |-> acc.owner, tokens |-> acc.tokens, drops |-> Cardinality(acc.drops),
                  first |-> acc.first, last |-> acc.last]

(* The aggregate of an owner is written when another owner begins.         *)
Owners(acc) == IF acc = NoOwner THEN out.owners ELSE Append(out.owners, OwnerRow(acc))

ReadToken ==
    /\ job.at = "tokens" /\ job.queue # <<>>
    /\ LET t    == Head(job.queue)
           same == job.acc.owner = t.owner
           acc  == IF same
                   THEN [job.acc EXCEPT !.tokens = @ + 1, !.drops = @ \cup {t.drop},
                                        !.first = Min({@, t.minted}), !.last = Max({@, t.minted})]
                   ELSE [owner |-> t.owner, tokens |-> 1, drops |-> {t.drop},
                         first |-> t.minted, last |-> t.minted]
           next == [job EXCEPT !.queue = Tail(@)]
       IN IF ~t.valid
          THEN job' = next /\ out' = [out EXCEPT !.rejected = @ \cup {t}]
          ELSE /\ job' = [next EXCEPT !.acc = acc, !.counts[t.drop] = @ + 1, !.writer = Add(@, t)]
               /\ out' = [out EXCEPT !.owners = IF same THEN @ ELSE Owners(job.acc),
                                     !.orphans = IF t.drop \in job.drops THEN @ ELSE @ + 1]
    /\ UNCHANGED <<source, remote, kind>>

CloseTokens ==
    /\ job.at = "tokens" /\ job.queue = <<>>
    /\ job' = [job EXCEPT !.at = "aggregates", !.acc = NoOwner]
    /\ out' = [out EXCEPT !.tokens = Close(job.writer), !.owners = Owners(job.acc)]
    /\ UNCHANGED <<source, remote, kind>>

Reserved(d) == LET e == {x \in job.emails : x.drop = d}
               IN IF e = {} THEN 0 ELSE (CHOOSE x \in e : TRUE).total

(* The Drops with what the tokens and the artwork add to them, and the     *)
(* manifest of the artwork.                                                *)
WriteCatalog ==
    /\ job.at = "aggregates"
    /\ out' = [out EXCEPT
          !.drops = {[id |-> d, art |-> d \in ArtDrops \ UnusableArt,
                      tokens |-> IF d \in DOMAIN job.counts THEN job.counts[d] ELSE 0] : d \in job.drops},
          !.stats = {[id |-> d, total |-> Reserved(d)] : d \in job.drops},
          !.manifest = {[drop |-> d, eligible |-> d \in job.drops \ UnusableArt] : d \in ArtDrops}]
    /\ job' = [job EXCEPT !.at = "report"]
    /\ UNCHANGED <<source, remote, kind>>

(* The report is written last and says what forbids a publication: an      *)
(* orphan among the tokens is counted, and no more.                        *)
Report ==
    /\ job.at = "report"
    /\ job' = [job EXCEPT !.at = "imported"]
    /\ out' = [out EXCEPT !.report = TRUE,
                          !.blocked = out.rejected # {} \/ UnusableArt # {} \/ ~source.counted]
    /\ UNCHANGED <<source, remote, kind>>

----------------------------------------------------------------------------
(* What happens around it, and the verification.                           *)

Importing == {"prepared", "catalog", "tokens", "aggregates", "report"}

(* The process ends or a write fails; what is written stays.               *)
Crash ==
    /\ job.at \in Importing
    /\ job' = [job EXCEPT !.at = "failed"]
    /\ UNCHANGED <<source, remote, kind, out>>

(* Another start, in the same directory or in a new one.                   *)
Restart ==
    /\ job.at = "failed" /\ out.written /\ ~out.report
    /\ job' = NewJob /\ out' \in {out, NoOut}
    /\ UNCHANGED <<source, remote, kind>>

Replace ==
    /\ remote < Len(Archives) /\ job.at = "new" /\ kind = "inventory"
    /\ remote' = remote + 1
    /\ UNCHANGED <<source, kind, job, out>>

(* A file of the plan is changed or lost.                                  *)
Damage ==
    /\ job.at = "imported" /\ out.intact
    /\ out' = [out EXCEPT !.intact = FALSE]
    /\ UNCHANGED <<source, remote, kind, job>>

Rows == FlattenSeq(out.tokens)
DropTokens == MapThenSumSet(LAMBDA d : d.tokens, out.drops)
OwnerTokens == FoldSeq(LAMBDA o, n : o.tokens + n, 0, out.owners)

(* The shards are loaded with the migrations: a repeated key fails there.  *)
Loads ==
    /\ IsInjective(Rows) /\ \A i, j \in DOMAIN out.owners : out.owners[i].owner = out.owners[j].owner => i = j
    /\ \A d, e \in out.drops : (\E x, y \in source.drops : x.id = d.id /\ y.id = e.id /\ x.fancy = y.fancy) => d = e

(* Row counts and sums are compared, those of the report with the rest.    *)
Verify ==
    /\ job.at = "imported"
    /\ LET accepts == /\ out.report /\ out.intact /\ Loads
                      /\ Cardinality(out.stats) = Cardinality(out.drops)
                      /\ OwnerTokens = Len(Rows)
                      /\ DropTokens = Len(Rows)
       IN job' = [job EXCEPT !.at = IF accepts THEN "verified" ELSE "refused"]
    /\ UNCHANGED <<source, remote, kind, out>>

Import == FetchRange \/ Inventory \/ Prepare \/ ReadCatalog \/ ReadToken \/ CloseTokens
              \/ WriteCatalog \/ Report \/ Verify

Next == Import \/ Crash \/ Restart \/ Replace \/ Damage

Spec == Init /\ [][Next]_vars

----------------------------------------------------------------------------
TypeOK ==
    /\ source \in Sources /\ remote \in DOMAIN Archives
    /\ job.at \in Importing \cup {"new", "failed", "imported", "verified", "refused"}
    /\ Len(job.writer.pending) < StatementRows /\ Len(job.writer.shard) <= ShardRows

TokensOf(o) == {t \in source.tokens : t.valid /\ t.owner = o}

(* A verified import is the source: every row is loaded once or is in      *)
(* quarantine, the aggregates are those of all tokens of an owner however  *)
(* spelt and of a Drop, and artwork is promised where the manifest will    *)
(* publish that of the pinned archive.                                     *)
VerifiedIsTheSource ==
    job.at = "verified" =>
        /\ Range(Rows) \cup {x \in out.rejected : x \in source.tokens} = source.tokens
        /\ Range(Rows) = UNION {TokensOf(t.owner) : t \in source.tokens}
        /\ {o.owner : o \in Range(out.owners)} = {t.owner : t \in Range(Rows)}
        /\ \A o \in Range(out.owners) :
              /\ o.tokens = Cardinality(TokensOf(o.owner))
              /\ o.drops = Cardinality({t.drop : t \in TokensOf(o.owner)})
              /\ o.first = Min({t.minted : t \in TokensOf(o.owner)})
              /\ o.last = Max({t.minted : t \in TokensOf(o.owner)})
        /\ \A d \in out.drops :
              /\ d.tokens = Cardinality({t \in Range(Rows) : t.drop = d.id})
              /\ d.art = ([drop |-> d.id, eligible |-> TRUE] \in out.manifest)
        /\ kind = "inventory" => {m.drop : m \in out.manifest} = {Pinned[i].drop : i \in DOMAIN Pinned}

(* An import that forbids nothing, of tokens whose Drops are all there,    *)
(* passes its verification unless a file was changed in between.           *)
CleanImportVerifies ==
    job.at = "refused" => out.blocked \/ out.orphans > 0 \/ ~out.intact
=============================================================================
