---------------------------- MODULE MCMomentsD1 -----------------------------
(***************************************************************************)
(* Instances of MomentsD1 for TLC: a package b1 as the builder writes it,  *)
(* with one table split over two shards, and a package b2 of the same row  *)
(* counts whose visibility rows disagree with its hidden Drops.            *)
(***************************************************************************)
EXTENDS MomentsD1, TLC

CONSTANTS m1, m2, m3, d1, d2, b1, b2

Shard(t, rs) == [table |-> t, rows |-> rs]

GoodPackage ==
    << Shard(PlanTable, {}),
       Shard("moments", {m1}), Shard("moments", {m2}),
       Shard("moment_visibility", {<<m1, 1>>, <<m2, 0>>}),
       Shard("moment_drops", {<<m1, d1>>, <<m2, d2>>}),
       Shard("moment_hidden_drops", {d2}),
       Shard(MetaTable, {}) >>

MislabelledPackage ==
    << Shard(PlanTable, {}),
       Shard("moments", {m2, m3}),
       Shard("moment_visibility", {<<m2, 1>>, <<m3, 1>>}),
       Shard("moment_drops", {<<m2, d2>>, <<m3, d1>>}),
       Shard("moment_hidden_drops", {d2}),
       Shard(MetaTable, {}) >>

MCMoments == {m1, m2, m3}
MCDrops == {d1, d2}
TwoBuilds == {b1, b2}
TwoPlans == (b1 :> GoodPackage) @@ (b2 :> MislabelledPackage)

Symmetric == Permutations(Operators)
=============================================================================
