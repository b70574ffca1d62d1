---------------------------- MODULE MCStagedRelease ----------------------------
(***************************************************************************)
(* Instances of StagedRelease for TLC: one package that nobody disturbs,   *)
(* with a fault; one package and a statement from outside; two packages.   *)
(* And a fourth scene for what the loaders of all four databases promise   *)
(* in the end: the Moments loader (MomentsD1) with one package and a       *)
(* fault.  A behaviour is one of StagedRelease or one of MomentsD1; what   *)
(* the other one would change stays as it is.                              *)
(***************************************************************************)
EXTENDS StagedRelease, Sequences, TLC

CONSTANTS b1, b2, m1, d1

AllTools == {"archive", "compass", "collections"}
TwoBuilds == {b1, b2}
SceneOf(set, f, s) == [packages |-> set, faults |-> f, strays |-> s]
Typed == SceneOf({b1}, 0, 1)
ThreeScenes == {SceneOf({b1}, 1, 0), Typed, SceneOf({b1, b2}, 0, 0)}

\* The smallest Moments package; nothing is hidden, so that table has no shard.
Shard(t, rs) == [table |-> t, rows |-> rs]
MomentsPackage ==
    << Shard("moments_import_plan", {}),
       Shard("moments", {m1}),
       Shard("moment_visibility", {<<m1, 1>>}),
       Shard("moment_drops", {<<m1, d1>>}),
       Shard("moments_meta", {}) >>

VARIABLES
    which,   \* the loader of this behaviour: "staged" or "moments"
    mSchema, mMarkers, mPlan, mLoaded, mRows, mMeta, mSuppressed,
    mReport, mOp, mOrphans, mFaults, mStrays

MomentsD1 == INSTANCE MomentsD1 WITH
    Builds <- {b1}, Moments <- {m1}, Drops <- {d1},
    Plan <- b1 :> MomentsPackage, MaxReports <- 1, MaxFaults <- 1, MaxStrays <- 0,
    schema <- mSchema, markers <- mMarkers, plan <- mPlan, loaded <- mLoaded,
    rows <- mRows, meta <- mMeta, suppressed <- mSuppressed, report <- mReport,
    op <- mOp, orphans <- mOrphans, faults <- mFaults, strays <- mStrays

momentsVars == <<mSchema, mMarkers, mPlan, mLoaded, mRows, mMeta, mSuppressed,
                 mReport, mOp, mOrphans, mFaults, mStrays>>
allVars == <<which, vars, momentsVars>>

ASSUME MomentsD1!PlanAssumption /\ MomentsD1!BoundAssumption

InitAll ==
    /\ which \in {"staged", "moments"}
    /\ Init /\ MomentsD1!Init
    /\ which = "moments" => tool = "archive" /\ scene = Typed

InStaged == which = "staged" /\ UNCHANGED <<which, momentsVars>>
InMoments == which = "moments" /\ UNCHANGED <<which, vars>>

NextAll == (InStaged /\ Next) \/ (InMoments /\ MomentsD1!Next)

(* Fairness: a running loader goes on, what is in flight arrives, the      *)
(* objects are proven, and somebody always repeats each command.           *)
StepOf(p) == (InStaged /\ Step(p)) \/ (InMoments /\ MomentsD1!Step(p))
Loading ==
    \/ InStaged /\ \E p \in Operators, b \in Builds : StartLoad(p, b)
    \/ InMoments /\ \E p \in Operators : MomentsD1!StartLoad(p, b1)
Activating ==
    \/ InStaged /\ \E p \in Operators, b \in Builds : StartActivate(p, b)
    \/ InMoments /\ \E p \in Operators : MomentsD1!StartActivate(p, b1)
Verifying == InMoments /\ \E p \in Operators : MomentsD1!StartVerify(p, b1)
Arrival ==
    \/ InStaged /\ \E q \in orphans : Arrive(q)
    \/ InMoments /\ \E o \in mOrphans : MomentsD1!Arrive(o)
Proof == InStaged /\ \E b \in Builds : Prove(b)

LoadersSpec ==
    /\ InitAll /\ [][NextAll]_allVars
    /\ \A p \in Operators : WF_allVars(StepOf(p))
    /\ SF_allVars(Loading) /\ SF_allVars(Activating) /\ SF_allVars(Verifying)
    /\ WF_allVars(Arrival) /\ WF_allVars(Proof)

\* docs/moments.md, "load" and "activate", and the same commands of the other tools: a
\* package that nobody disturbs is loaded and served in the end, whatever was killed on
\* the way and whoever runs the same command at the same time.  Only a fault strands a
\* release: half a Compass schema, or Moments activation rows without the gate.
MomentsAreDecided ==
    /\ MomentsD1!Shards(b1) \subseteq mMarkers
    /\ mMeta.ready \/ MomentsD1!Stranded
ReleasesDecided ==
    <>[](IF which = "moments" THEN MomentsAreDecided ELSE Undisturbed => ReleaseIsDecided)
===============================================================================
