-------------------------- MODULE MCMediaRecovery ---------------------------
(* Small instances of the recovery executor and its bridge.                  *)
EXTENDS MediaRecovery, TLC

CONSTANTS r1, r2, r3, big, small, taken

\* Two rows whose sources are aliases of one large original, and one of a small one.
AliasRows == {r1, r2, r3}
AliasObjects == {big, small}
AliasContent == (r1 :> big) @@ (r2 :> big) @@ (r3 :> small)
AliasParts == (big :> 2) @@ (small :> 0)

\* A large and a small original, and a row whose key holds a foreign object.
MixedRows == {r1, r2, r3}
MixedObjects == {big, small, taken}
MixedContent == (r1 :> big) @@ (r2 :> small) @@ (r3 :> taken)
MixedParts == (big :> 2) @@ (small :> 0) @@ (taken :> 2)

Symmetry == Permutations({r1, r2})
=============================================================================
