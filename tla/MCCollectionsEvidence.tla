----------------------- MODULE MCCollectionsEvidence -----------------------
EXTENDS CollectionsEvidence

(* The order in which every check of the code can pass: compare before     *)
(* enrich, for compare writes manifest.json and enrich is bound to it.     *)
MCOrder == <<"compare", "media", "enrich", "verify", "build", "package">>

(* The sections of tools/collections-backup/README.md: 2, 2b, 4, 5, 6 and  *)
(* "package" after them.                                                   *)
DocumentedOrder == <<"media", "enrich", "compare", "verify", "build", "package">>

(* README.md, "Complete backup workflow": the commands, run one after the  *)
(* other as its sections number them, end with a plan, a load, a package.  *)
DocumentedOrderEnds == PipelineEnds

=============================================================================
