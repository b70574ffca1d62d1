-------------------------------- MODULE Reads --------------------------------
(***************************************************************************)
(* What readers get of the published snapshots, each part on its own: a    *)
(* behaviour is of one of them, and the variables of the others hold "-".  *)
(*   release: PublicReads, the published Moments across releases; its      *)
(*     variables keep their first values otherwise.                        *)
(*   pages: the listings of the Worker.                                    *)
(*   export: the personal archive of an address.                           *)
(*   zip: the ZIP of a personal site.                                      *)
(*   images: the image archive of an address.                              *)
(***************************************************************************)
EXTENDS PublicReads, Sequences

CONSTANTS
    Parts,               \* the parts to tell of
    \* Of the listings, as ApiPages explains them.
    PageDeployments, PageTables, Owner, Drop, Collection, PageKinds, PageRows, MaxPage,
    SearchPages, MaxExport,
    MaxCopies,           \* bound: entries in their cache
    \* Of the personal archive, as PersonalExport explains them.
    ExportDeployments, ExportTables, ExportPage, ExportRetries, MaxLimited,
    \* Of the site, as SiteZip explains them.
    Files, MaxFiles, HasWorker,
    \* Of the image archive, as ImageArchive explains them.
    References, Pinned, Addressed, Stored, MaxZip, MaxBlob, MaxImages, MaxAttempts

VARIABLES
    which,   \* the part that this behaviour is about
    configs, isolates,
    edge, client,
    ready,
    job,
    call, worker, toWorker, toPage,
    aborted,
    refs, plan, file

zipVars == <<call, worker, toWorker, toPage>>
imagesVars == <<refs, plan, file>>
MCVars == <<which, vars, configs, isolates, edge, client, ready, job, zipVars,
            aborted, imagesVars>>

Pages == INSTANCE ApiPages WITH
    deployed <- configs, fleet <- isolates, cache <- edge, reader <- client,
    Deployments <- PageDeployments, Tables <- PageTables, Kinds <- PageKinds,
    Limit <- PageRows, MaxEntries <- MaxCopies
Export == INSTANCE PersonalExport WITH
    deployed <- configs, fleet <- isolates, Deployments <- ExportDeployments,
    Tables <- ExportTables, PageSize <- ExportPage, MaxRetries <- ExportRetries
Zip == INSTANCE SiteZip
Images == INSTANCE ImageArchive

ASSUME ReadsAssumption /\ Pages!ApiPagesAssumption /\ Pages!ReleasesAreIdentified
ASSUME Export!PersonalExportAssumption /\ Export!SnapshotsAreIdentified
ASSUME Zip!SiteZipAssumption /\ Images!ImageArchiveAssumption

(* What the variables of the other parts hold meanwhile.                    *)
NoReads == configs = "-" /\ isolates = "-"
NoPages == edge = "-" /\ client = "-" /\ ready = "-"
NoZip == call = "-" /\ worker = "-" /\ toWorker = "-" /\ toPage = "-"
NoImages == refs = "-" /\ plan = "-" /\ file = "-"

MCInit ==
    /\ which \in Parts /\ Init
    /\ \/ /\ which = "release"
          /\ job = "-" /\ aborted = "-" /\ NoReads /\ NoPages /\ NoZip /\ NoImages
       \/ /\ which = "pages" /\ Pages!Init
          /\ job = "-" /\ aborted = "-" /\ NoZip /\ NoImages
       \/ /\ which = "export" /\ Export!Init
          /\ aborted = "-" /\ NoPages /\ NoZip /\ NoImages
       \/ /\ which = "zip" /\ Zip!Init
          /\ job = "-" /\ NoReads /\ NoPages /\ NoImages
       \/ /\ which = "images" /\ Images!Init
          /\ NoReads /\ NoPages /\ NoZip

InRelease ==
    /\ which = "release"
    /\ UNCHANGED <<which, configs, isolates, edge, client, ready, job, zipVars,
                   aborted, imagesVars>>
InPages ==
    /\ which = "pages"
    /\ UNCHANGED <<which, vars, job, zipVars, aborted, imagesVars>>
InExport ==
    /\ which = "export"
    /\ UNCHANGED <<which, vars, edge, client, ready, zipVars, aborted, imagesVars>>
InZip ==
    /\ which = "zip"
    /\ UNCHANGED <<which, vars, configs, isolates, edge, client, ready, job, imagesVars>>
InImages ==
    /\ which = "images"
    /\ UNCHANGED <<which, vars, configs, isolates, edge, client, ready, zipVars>>

MCNext ==
    \/ InRelease /\ Next
    \/ InPages /\ Pages!Next
    \/ InExport /\ Export!Next
    \/ InZip /\ Zip!Next
    \/ InImages /\ Images!Next

(* A reader that has begun goes on and is answered; the page's event loop   *)
(* runs and its timer fires, but nothing is asked of its worker.            *)
Read ==
    \/ InRelease /\ ReaderStep
    \/ InPages /\ (Pages!Ask \/ Pages!Pull)
    \/ InExport /\ Export!Collect
    \/ InZip /\ Zip!Page
    \/ InImages /\ Images!Work

MCFairSpec ==
    /\ MCInit /\ [][MCNext]_MCVars
    /\ WF_MCVars(Read) /\ WF_MCVars(InZip /\ Zip!Watchdog)
-----------------------------------------------------------------------------
(* Properties.                                                             *)

\* The states of the parts are what their modules say.
PartsAreTyped ==
    /\ TypeOK
    /\ which = "pages" => Pages!TypeOK
    /\ which = "export" => Export!TypeOK
    /\ which = "zip" => Zip!TypeOK
    /\ which = "images" => Images!TypeOK

\* docs/personal-site-export.md, "requires the Holdings snapshot to remain unchanged":
\* while one configuration answers, a personal export completes.
UnmovedExportCompletes == which = "export" => Export!UnmovedExportCompletes

\* The order of the Worker's listings, collectPersonalArchive and planPersonalImages: a
\* listing followed to its end within one release is that listing, every row once and
\* in order, ties and the last page included; a personal archive is what its manifest
\* names and counts, with every Drop and Collection that its records name, and fails
\* only for a change of configuration; and the plan of its images is every public
\* image that it refers to, once.
WalkIsWhole ==
    /\ PartsAreTyped /\ UnmovedExportCompletes
    /\ which = "pages" => Pages!WalkIsWhole
    /\ which = "export" => Export!ArchiveIsTheManifest /\ Export!ArchiveIsClosed
    /\ which = "images" => Images!PlanIsTheArchive

\* "Clients should follow the returned nextPath unchanged until it becomes null": the
\* cursor of an answer is refused only if more than one configuration has answered
\* since the reader began, or its page number has reached the cap; and all the pages
\* a reader puts together are of one snapshot, whatever was deployed between them.
CursorsAreAccepted ==
    which = "pages" => Pages!CursorsAreAccepted /\ Pages!WalkIsOneSnapshot

\* "Cache keys must include the active snapshot ID plus every normalized input that
\* changes the response": what the edge cache would answer under a configuration is
\* what its databases would, but for the artwork of a Collection's cards, which may be
\* that of another configuration's catalog: index.ts leaves SNAPSHOT_ID out of their
\* keys, so that the sentence is not true of them.
CachedIsLoaded == which = "pages" => Pages!CachedIsLoaded

\* createPortableSiteZip, createPersonalImageArchiveZip: what the visitor keeps holds
\* every file once, in order, and its end; every image of the plan, as long as it was
\* said to be, with the digest its URL names.  It is never the bytes of a worker that
\* failed, of a fetch that broke off or of an export that was cancelled.
SavedIsWhole ==
    /\ which = "zip" => Zip!ZipIsWhole /\ Zip!WorkerIsReleased /\ Zip!AbortIsFinal
    /\ which = "images" => Images!SavedIsWhole

\* MAX_RATE_LIMIT_RETRIES, the growing cursors, the watchdog of the ZIP worker and the
\* attempts of an image: whatever a visitor has begun ends.
Asked ==
    \/ which = "release" /\ At("asking")
    \/ which = "pages" /\ client.phase = "asking"
    \/ which = "export" /\ job.at = "asking"
    \/ which = "zip"
    \/ which = "images" /\ job.at = "loading"
Ended ==
    /\ which = "release" => reader.phase \in {"done", "failed"} \/ fleet = {}
    /\ which = "pages" => client.phase \in {"done", "refused", "failed"}
    /\ which = "export" => job.at \in {"done", "failed", "limited", "stopped"}
    /\ which = "zip" => call.at \in {"blob", "error", "cancelled"}
    /\ which = "images" => job.at \in {"done", "error"}
ReadsEnd == Asked ~> Ended
=============================================================================
