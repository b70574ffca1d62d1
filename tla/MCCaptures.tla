----------------------------- MODULE MCCaptures -----------------------------
(***************************************************************************)
(* ArchiveCaptures, with                                                   *)
(*   holdings: two shards, two requests at a time, pages of one row, one   *)
(*     ID on two chains, a row below the bound that comes later and one    *)
(*     above it.                                                           *)
(*   moments: two captures of two entities, the second of which the source *)
(*     does not count, each with two keys, and pages of one row.           *)
(*   collections: three tables of two rows, pages of one row.              *)
(*   media: 1 and 3 belong to a moment that may be shown and have the same *)
(*     bytes; the moment of 2 has a hidden Drop besides one that is not.   *)
(*   supplement: two Drops, the first of which an archive has, the second   *)
(*     with a URL that is not allowed before one that is; an archive of     *)
(*     other Drops, one with unsound proofs, and one that is a catalog.     *)
(*   import: sources with an address in two spellings, rows that are       *)
(*     refused, a name that two Drops share and a token without its Drop.  *)
(*   backfill: addresses of three binary digits, of which two are split.   *)
(***************************************************************************)
EXTENDS ArchiveCaptures, TLC

CONSTANTS d1, d2, w1, w2, c1, c2

\* The entities of MomentsCapture.
FirstKeys == <<{1, 2}, {1}>>

SomeIdentities == {<<1, 1>>, <<1, 2>>, <<2, 1>>, <<3, 1>>}
SomeDropOf == <<1, 1>> :> d1 @@ <<1, 2>> :> d2 @@ <<2, 1>> :> d1 @@ <<3, 1>> :> d2

SomeCollectionTables == <<"collections", "sections", "items">>
SomeCollectionRows == [e \in {"collections", "sections", "items"} |-> {1, 2}]
SomeCollectionOfRow ==
    [e \in {"sections", "items"} |-> [r \in {1, 2, 3} |-> IF r = 3 THEN 2 ELSE 1]]

SomeMomentOfMedia == [m \in 1..3 |-> IF m = 2 THEN 2 ELSE 1]
SomeDropsOfMoment == [n \in 1..2 |-> IF n = 1 THEN {1} ELSE {1, 2}]
SomeBytesOfMedia == [m \in 1..3 |-> IF m = 2 THEN "b" ELSE "a"]
SomeMediaAnswers == {[m \in 1..3 |-> "whole"],
            [m \in 1..3 |-> IF m = 1 THEN "refused" ELSE "whole"],
            [m \in 1..3 |-> IF m = 1 THEN "mistyped" ELSE IF m = 2 THEN "gone" ELSE "whole"],
            [m \in 1..3 |-> IF m = 3 THEN "large" ELSE "whole"]}

ArtworkURLs == {<<1, 1>>, <<2, 1>>, <<2, 2>>}
Answered(odd) == [u \in ArtworkURLs |-> IF u \in DOMAIN odd THEN odd[u] ELSE "image"]
SomeArtworkAnswers == {Answered(<<>>), Answered(<<1, 1>> :> "gone" @@ <<2, 2>> :> "junk"),
                   Answered(<<1, 1>> :> "empty" @@ <<2, 2>> :> "error")}
Archive(reusable, upload, catalog) ==
    [manifest |-> reusable, upload |-> upload, catalog |-> catalog, sound |-> upload # "w"]
SomeArtworkArchives == {Archive({}, "none", "none"), Archive({1}, "u", "none"),
                    Archive({}, "v", "none"), Archive({1}, "w", "none"), Archive({}, "none", "c")}

Drop(i, fancy) == [id |-> i, fancy |-> fancy, valid |-> TRUE]
Token(u, d, o, spelt, day) ==
    [uid |-> u, drop |-> d, owner |-> o, upper |-> spelt, minted |-> day, valid |-> TRUE]
Mail(d, n) == [drop |-> d, total |-> n, valid |-> TRUE]
SomeDrops == {Drop(1, 1), Drop(2, 2), Drop(3, 3)}
SomeTokens == {Token(1, 1, 1, FALSE, 5), Token(2, 1, 2, FALSE, 4), Token(3, 2, 1, TRUE, 3),
               Token(4, 2, 3, FALSE, 7), Token(5, 1, 1, FALSE, 9), Token(8, 3, 2, TRUE, 2)}
Source(ds, ts, mails, counted) ==
    [drops |-> ds, tokens |-> ts, emails |-> mails, counted |-> counted]
SomeImportSources ==
    {Source(SomeDrops, SomeTokens, {Mail(1, 2)}, TRUE),
     Source(SomeDrops \cup {Drop(4, 1)}, SomeTokens, {Mail(4, 2), Mail(2, 1)}, TRUE),
     Source(SomeDrops, SomeTokens \cup {[Token(6, 2, 1, FALSE, 1) EXCEPT !.valid = FALSE]}, {}, TRUE),
     Source(SomeDrops, SomeTokens \cup {Token(7, 9, 3, FALSE, 1)}, {}, TRUE),
     Source(SomeDrops, {}, {[Mail(1, 2) EXCEPT !.valid = FALSE]}, FALSE)}
Art(d, ok) == [drop |-> d, ok |-> ok]
SomeLocalArt == {<<Art(2, TRUE), Art(2, TRUE), Art(1, TRUE)>>, <<Art(1, FALSE), Art(3, TRUE)>>}
SomeRemoteArt == <<<<Art(1, TRUE), Art(2, TRUE), Art(9, TRUE)>>,
               <<Art(1, TRUE), Art(2, TRUE), Art(8, TRUE)>>>>

SomeOwnersOfTokens ==
    <<<<0, 0, 0>>, <<0, 0, 1>>, <<0, 1, 1>>, <<1, 0, 0>>, <<1, 1, 0>>, <<1, 1, 1>>>>

TwoRows == {<<1, 1>>, <<2, 1>>}
ItemsName == [r \in {1, 2, 3} |-> r]
ThreeMedia == 1 .. 3
OneBarred == {<<2, 1>>}
OneTwo == <<1, 2>>
SameBytes == <<"a", "a">>
=============================================================================
