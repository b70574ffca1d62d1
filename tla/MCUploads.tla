----------------------------- MODULE MCUploads -----------------------------
\* The archives, plans and rows that TLC gives to the four commands.
EXTENDS Uploads, TLC

CONSTANTS k1, k2, k3, d1, d2, d3, o1, o2, r1, r2, r3, big, small, taken

SmallKeys == {k1, k2, k3}
SmallOrder == <<k1, k2, k3>>
SmallDrops == <<d1, d2, d3>>
SmallBytes == d1 :> o1 @@ d2 :> o1 @@ d3 :> o2
SmallCandidates == d1 :> 1 @@ d2 :> 1 @@ d3 :> 2
\* A large and a small original, and a row whose key holds a foreign object.
SmallRows == {r1, r2, r3}
SmallObjects == {big, small, taken}
SmallContent == (r1 :> big) @@ (r2 :> small) @@ (r3 :> taken)
SmallParts == (big :> 2) @@ (small :> 0) @@ (taken :> 2)
=============================================================================
