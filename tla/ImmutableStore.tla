--------------------------- MODULE ImmutableStore ---------------------------
(***************************************************************************)
(* What the media tools promise of a content-addressed bucket: an object   *)
(* appears whole, at once and for good, and a media row is recorded as     *)
(* preserved only when the object that holds its bytes is there.           *)
(***************************************************************************)

CONSTANTS
    Rows,      \* media rows of a plan
    Objects,   \* content-addressed keys
    Content    \* [Rows -> Objects], the key of each row's bytes

VARIABLES
    stored,    \* the keys that hold their object
    preserved  \* the rows recorded as stored

vars == <<stored, preserved>>

Init == stored = {} /\ preserved = {}

Store(o) ==
    /\ stored' = stored \cup {o}
    /\ UNCHANGED preserved

\* Some tools record one row at a time, others report on all of them at once.
Preserve(rows) ==
    /\ \A r \in rows : Content[r] \in stored
    /\ preserved' = preserved \cup rows
    /\ UNCHANGED stored

Next == (\E o \in Objects : Store(o)) \/ (\E rows \in SUBSET Rows : Preserve(rows))

Spec == Init /\ [][Next]_vars
=============================================================================
