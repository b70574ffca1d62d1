---------------------------- MODULE GatedRelease ----------------------------
(***************************************************************************)
(* What a release database promises to the Worker that reads it: nothing   *)
(* is public before the release gate opens, the gate opens once and for    *)
(* one build, what becomes public is that build's fail-closed projection,  *)
(* and from then on moments can only be withdrawn.  MomentsD1 implements   *)
(* it.                                                                     *)
(***************************************************************************)

CONSTANTS
    Builds,      \* build packages that may be published
    NoBuild,     \* "no release yet"
    Moments,     \* moment identifiers
    Projection   \* [Builds -> SUBSET Moments], what a build may show

VARIABLES
    release,     \* the published build
    public,      \* the moments a reader can see
    withdrawn    \* the moments taken down since

vars == <<release, public, withdrawn>>

TypeOK ==
    /\ release \in Builds \cup {NoBuild}
    /\ public \subseteq Moments
    /\ withdrawn \subseteq Moments

Init == release = NoBuild /\ public = {} /\ withdrawn = {}

Publish(b) ==
    /\ release = NoBuild
    /\ release' = b
    /\ public' = Projection[b]
    /\ UNCHANGED withdrawn

Withdraw(m) ==
    /\ release # NoBuild
    /\ withdrawn' = withdrawn \cup {m}
    /\ public' = public \ {m}
    /\ UNCHANGED release

Next == (\E b \in Builds : Publish(b)) \/ (\E m \in Moments : Withdraw(m))

Spec == Init /\ [][Next]_vars
=============================================================================
