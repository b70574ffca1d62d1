------------------------------- MODULE SiteZip -------------------------------
(***************************************************************************)
(* The ZIP of a personal site, made in the browser: a dedicated worker     *)
(* compresses the files one by one, and the main thread does it again when *)
(* the worker fails.  The page and the worker exchange messages in order;  *)
(* a watchdog, an abort and the last chunk race to settle one promise.     *)
(***************************************************************************)
EXTENDS Naturals, Sequences

CONSTANTS
    Files,      \* how many files the site has
    MaxFiles,   \* the most it may have, 1,000
    HasWorker   \* whether the browser has dedicated workers

VARIABLES
    call,       \* createPortableSiteZip and its compressor on the page
    worker,     \* the dedicated worker
    toWorker,   \* messages the worker has not taken
    toPage,     \* messages the page has not taken
    aborted     \* the signal of the call

vars == <<call, worker, toWorker, toPage, aborted>>

SiteZipAssumption == Files \in Nat /\ MaxFiles \in Nat /\ HasWorker \in BOOLEAN

(* What a compressor has put out: the files in order, then the directory.  *)
Directory == 0
Whole == [n \in 1..(Files + 1) |-> IF n <= Files THEN n ELSE Directory]

NewWorker == [state |-> "running", started |-> FALSE, completed |-> 0]

Init ==
    /\ call = [at |-> "new", ready |-> FALSE, next |-> 0, chunks |-> <<>>, shown |-> 0]
    /\ worker = [NewWorker EXCEPT !.state = "none"]
    /\ toWorker = <<>> /\ toPage = <<>> /\ aborted = FALSE

(* The checks of the file map, before a compressor is chosen.              *)
Start ==
    /\ call.at = "new"
    /\ IF aborted THEN call' = [call EXCEPT !.at = "cancelled"] /\ UNCHANGED <<worker, toWorker>>
       ELSE IF Files = 0 \/ Files > MaxFiles
       THEN call' = [call EXCEPT !.at = "error"] /\ UNCHANGED <<worker, toWorker>>
       ELSE IF HasWorker
       THEN \/ /\ call' = [call EXCEPT !.at = "worker"] /\ worker' = NewWorker
               /\ toWorker' = <<[type |-> "start", file |-> 0]>>
            \/ call' = [call EXCEPT !.at = "failed"] /\ UNCHANGED <<worker, toWorker>>
       ELSE call' = [call EXCEPT !.at = "main"] /\ UNCHANGED <<worker, toWorker>>
    /\ UNCHANGED <<toPage, aborted>>

----------------------------------------------------------------------------
(* The worker.                                                             *)

Say(type, n) == [type |-> type, n |-> n]

Said(messages) == toPage' = toPage \o messages

(* A file's bytes come out before its completion is reported; the          *)
(* directory follows the last report.                                      *)
Compress ==
    /\ worker.state = "running" /\ toWorker # <<>>
    /\ toWorker' = Tail(toWorker)
    /\ LET m == Head(toWorker)
       IN IF m.type = "start"
          THEN /\ worker' = [worker EXCEPT !.started = TRUE]
               /\ Said(<<Say("ready", 0)>>)
          ELSE IF ~worker.started \/ m.file # worker.completed + 1
          THEN worker' = [worker EXCEPT !.state = "failed"] /\ Said(<<Say("error", 0)>>)
          ELSE /\ worker' = [worker EXCEPT !.completed = m.file]
               /\ Said(<<Say("chunk", m.file), Say("progress", m.file)>>
                        \o (IF m.file = Files THEN <<Say("chunk", Directory)>> ELSE <<>>))
    /\ UNCHANGED <<call, aborted>>

(* fflate reports an error instead, or the worker hangs for good.          *)
Break ==
    /\ worker.state = "running"
    /\ \/ worker' = [worker EXCEPT !.state = "failed"] /\ Said(<<Say("error", 0)>>)
       \/ worker' = [worker EXCEPT !.state = "hung"] /\ UNCHANGED toPage
    /\ UNCHANGED <<call, toWorker, aborted>>

----------------------------------------------------------------------------
(* The page and its worker.                                                *)

(* The promise settles once: the timer and the listener go, the worker is  *)
(* terminated, and what it has said is not heard.                          *)
Settle(to) ==
    /\ call' = to
    /\ worker' = [worker EXCEPT !.state = "terminated"]
    /\ toWorker' = <<>> /\ toPage' = <<>>

SendNext(to) ==
    IF to.next >= Files THEN call' = to /\ UNCHANGED toWorker
    ELSE /\ call' = [to EXCEPT !.next = @ + 1]
         /\ toWorker' = Append(toWorker, [type |-> "file", file |-> to.next + 1])

Hear ==
    /\ call.at = "worker" /\ toPage # <<>>
    /\ LET m == Head(toPage)
       IN CASE m.type = "error" \/ (m.type = "ready" /\ call.ready)
                 \/ (m.type = "progress" /\ m.n # call.next) ->
                  Settle([call EXCEPT !.at = "failed"])
            [] m.type = "ready" /\ ~call.ready ->
                  toPage' = Tail(toPage) /\ UNCHANGED worker /\ SendNext([call EXCEPT !.ready = TRUE])
            [] m.type = "progress" /\ m.n = call.next ->
                  toPage' = Tail(toPage) /\ UNCHANGED worker /\ SendNext([call EXCEPT !.shown = m.n])
            [] m.type = "chunk" ->
                  LET heard == [call EXCEPT !.chunks = Append(@, m.n)]
                  IN IF m.n = Directory THEN Settle([heard EXCEPT !.at = "zipped"])
                     ELSE call' = heard /\ toPage' = Tail(toPage) /\ UNCHANGED <<worker, toWorker>>
    /\ UNCHANGED aborted

\* Mutant: the watchdog is not set again once the worker has answered.
WatchdogOfStart ==
    /\ call.at = "worker" /\ ~call.ready
    /\ Settle([call EXCEPT !.at = "failed"])
    /\ UNCHANGED aborted

(* No message heard for 30 seconds; some may wait behind a busy page.      *)
Watchdog ==
    /\ call.at = "worker"
    /\ Settle([call EXCEPT !.at = "failed"])
    /\ UNCHANGED aborted

(* The listener of the signal settles the promise as it is aborted.        *)
Abort ==
    /\ ~aborted /\ call.at \notin {"blob", "error", "cancelled"}
    /\ aborted' = TRUE
    /\ IF call.at = "worker" THEN Settle([call EXCEPT !.at = "failed"])
       ELSE UNCHANGED <<call, worker, toWorker, toPage>>

\* Mutant: the chunks of the worker are kept.
FallBackOnChunks ==
    /\ call.at = "failed"
    /\ call' = [call EXCEPT !.at = IF aborted THEN "cancelled" ELSE "main", !.next = 0, !.shown = 0]
    /\ UNCHANGED <<worker, toWorker, toPage, aborted>>

(* An abort is the end of it; any other failure starts the main thread.    *)
FallBack ==
    /\ call.at = "failed"
    /\ call' = IF aborted THEN [call EXCEPT !.at = "cancelled"]
               ELSE [call EXCEPT !.at = "main", !.next = 0, !.chunks = <<>>, !.shown = 0]
    /\ UNCHANGED <<worker, toWorker, toPage, aborted>>

(* The main thread yields after every file, and may be aborted there.      *)
MainStep ==
    /\ call.at = "main"
    /\ call' = IF aborted THEN [call EXCEPT !.at = "cancelled"]
               ELSE IF call.next < Files
               THEN [call EXCEPT !.next = @ + 1, !.chunks = Append(@, call.next + 1),
                                 !.shown = call.next + 1]
               ELSE [call EXCEPT !.at = "zipped", !.chunks = Append(@, Directory)]
    /\ UNCHANGED <<worker, toWorker, toPage, aborted>>

MainFails ==
    /\ call.at = "main" /\ ~aborted
    /\ call' = [call EXCEPT !.at = "error"]
    /\ UNCHANGED <<worker, toWorker, toPage, aborted>>

Return ==
    /\ call.at = "zipped"
    /\ call' = [call EXCEPT !.at = IF aborted THEN "cancelled" ELSE "blob"]
    /\ UNCHANGED <<worker, toWorker, toPage, aborted>>

Page == Start \/ Hear \/ FallBack \/ MainStep \/ Return

Next == Page \/ Abort \/ Compress \/ Break \/ Watchdog \/ MainFails

(* The event loop of the page runs and its timer fires; nothing is asked   *)
(* of the worker.                                                          *)
Spec == Init /\ [][Next]_vars
FairSpec == Spec /\ WF_vars(Page) /\ WF_vars(Watchdog)

----------------------------------------------------------------------------
TypeOK ==
    /\ call.at \in {"new", "worker", "failed", "main", "zipped", "blob", "error", "cancelled"}
    /\ call.next \in 0..Files /\ call.shown \in 0..Files
    /\ worker.state \in {"none", "running", "hung", "failed", "terminated"}

(* The blob holds every file once, in order, and the directory: never the  *)
(* bytes of a worker that failed, and never an archive without its end.    *)
ZipIsWhole == call.at = "blob" => call.chunks = Whole

(* A worker left behind by its promise is terminated.                      *)
WorkerIsReleased == call.at # "worker" => worker.state \in {"none", "terminated"}

(* What a cancelled export had compressed is not handed out.               *)
AbortIsFinal == call.at = "blob" => ~aborted

=============================================================================
