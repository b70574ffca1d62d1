--------------------------- MODULE MediaRecovery ----------------------------
(***************************************************************************)
(* The recovery executor: a pool of workers uploads the recovered bytes of *)
(* each pending media row through the bridge, in parts when they are too   *)
(* large for one request, and journals every step before it goes on.  The  *)
(* run may be killed at any point, a request may lose its answer and still *)
(* take effect later, an append to the journal may fail, uploads expire;   *)
(* the operator runs the command again until its report is complete.       *)
(***************************************************************************)
EXTENDS MultipartBridge, FiniteSets

CONSTANTS
    Rows,         \* the rows of the recovery plan, all public
    Content,      \* [Rows -> Objects], the key of the bytes each row's source has
    Concurrency,  \* workers of the pool
    Attempts,     \* tries of one bridge request
    TornTails,    \* may an interrupted append leave part of its line behind?
    MaxFaults     \* bound: lost answers, kills, failed appends, early expiries

ASSUME RecoveryAssumption ==
    /\ Content \in [Rows -> Objects]
    /\ Concurrency \in Nat \ {0} /\ Attempts \in Nat \ {0}
    /\ TornTails \in BOOLEAN
    /\ MaxFaults \in Nat

VARIABLES
    journal,   \* recovery-checkpoint.ndjson: multipart state of each row
    media,     \* recovery-checkpoint.ndjson: the last media record of each row
    tail,      \* how the journal file ends
    running,   \* a run of the command is in progress
    jammed,    \* an append of this run has failed: all later ones fail too
    work,      \* the row's worker
    late,      \* requests whose caller has given them up
    report,    \* capture-report.json says complete
    faults

journalVars == <<journal, media, tail>>
runVars == <<running, jammed, report>>
vars == <<bucket, uploads, journal, media, tail, running, jammed, work, late,
          report, faults>>

Calls == {"head", "abort", "create", "part", "complete", "put"}
Events == {"none", "created", "part", "completed", "aborted", "stored", "failed"}
NoEvent == [kind |-> "none", upload |-> 0, part |-> 0, etag |-> 0]
Resting(pc) == [pc |-> pc, try |-> 1, part |-> 0, looked |-> FALSE,
                restart |-> TRUE, event |-> NoEvent]

PCs == Calls \cup {"idle", "waiting", "record", "settled", "dead"}
EventRows == [kind : Events, upload : 0 .. MaxUploads, part : Nat, etag : Nat]
Workers == [pc : PCs, try : 1 .. Attempts, part : Nat, looked : BOOLEAN,
            restart : BOOLEAN, event : EventRows]
States(r) == [active : BOOLEAN, upload : 0 .. MaxUploads,
              etags : [1 .. Parts[Content[r]] -> Nat]]

TypeOK ==
    /\ BridgeTypeOK
    /\ DOMAIN journal = Rows /\ \A r \in Rows : journal[r] \in States(r)
    /\ media \in [Rows -> {"none", "stored", "failed"}]
    /\ tail \in {"clean", "unterminated", "torn"}
    /\ running \in BOOLEAN /\ jammed \in BOOLEAN /\ report \in BOOLEAN
    /\ work \in [Rows -> Workers]
    /\ \A q \in late : q.op \in Calls /\ q.object \in Objects /\ q.looked \in BOOLEAN
    /\ faults \in Nat

Init ==
    /\ BridgeInit
    /\ journal = [r \in Rows |-> [active |-> FALSE, upload |-> 0,
                                  etags |-> NoEtags(Content[r])]]
    /\ media = [r \in Rows |-> "none"]
    /\ tail = "clean"
    /\ running = FALSE /\ jammed = FALSE /\ report = FALSE
    /\ work = [r \in Rows |-> Resting("idle")]
    /\ late = {} /\ faults = 0
-----------------------------------------------------------------------------
(* The worker of one row.                                                    *)

At(r, pc) == work[r].pc = pc
Key(r) == Content[r]
Upload(r) == journal[r].upload
Large(r) == Parts[Key(r)] > 0

Worker(r, pc, try, part, event) ==
    [pc |-> pc, try |-> try, part |-> part, looked |-> FALSE,
     restart |-> work[r].restart, event |-> event]

Call(r, op, part) == work' = [work EXCEPT ![r] = Worker(r, op, 1, part, NoEvent)]
\* journal.record of one event; the worker goes on when it is durable.
Write(r, event) == work' = [work EXCEPT ![r] = Worker(r, "record", 1, 0, event)]
Event(r, kind) == [kind |-> kind, upload |-> Upload(r), part |-> 0, etag |-> 0]
Stored(r) == Write(r, Event(r, "stored"))
Failed(r) == Write(r, Event(r, "failed"))

\* The loop over the parts skips the recorded ones; then the upload completes.
Unrecorded(r, etags) == {p \in 1 .. Parts[Key(r)] : etags[p] = 0}
NextPart(r, etags) ==
    IF Unrecorded(r, etags) = {} THEN Call(r, "complete", 0)
    ELSE \E p \in Unrecorded(r, etags) :
            (\A q \in Unrecorded(r, etags) : p <= q) /\ Call(r, "part", p)

\* The bridge answers 404 multipart_upload_not_found: restart once.
Missing(r) ==
    IF work[r].restart THEN Write(r, Event(r, "aborted")) ELSE Failed(r)

Again(r) ==
    work' = [work EXCEPT ![r] =
                Worker(r, work[r].pc, work[r].try + 1, work[r].part, NoEvent)]

\* A retryable answer: try again until the attempts are used up.
Retry(r) ==
    IF work[r].try < Attempts
      THEN Again(r)
      ELSE Failed(r)

NotR2 == UNCHANGED <<journal, media, tail, running, jammed, late, report, faults>>

\* Mutant: a restarted run leaves the upload it had begun open when it finds the object.
HeadKeyKeeps(r) ==
    /\ At(r, "head")
    /\ IF Matches(Key(r)) THEN Stored(r)
       ELSE IF ~IsAbsent(Key(r)) THEN Failed(r)
       ELSE IF ~Large(r) THEN Call(r, "put", 0)
       ELSE IF journal[r].active THEN NextPart(r, journal[r].etags)
       ELSE Call(r, "create", 0)
    /\ UntouchedR2 /\ NotR2

\* The HEAD before any upload; an object in the way is a conflict.
HeadKey(r) ==
    /\ At(r, "head")
    /\ IF Matches(Key(r))
         THEN IF Large(r) /\ journal[r].active THEN Call(r, "abort", 0) ELSE Stored(r)
       ELSE IF ~IsAbsent(Key(r)) THEN Failed(r)
       ELSE IF ~Large(r) THEN Call(r, "put", 0)
       ELSE IF journal[r].active THEN NextPart(r, journal[r].etags)
       ELSE Call(r, "create", 0)
    /\ UntouchedR2 /\ NotR2

Put(r) ==
    /\ At(r, "put")
    /\ PutIfAbsent(Key(r))
    /\ IF IsAbsent(Key(r)) \/ Matches(Key(r)) THEN Stored(r) ELSE Failed(r)
    /\ NotR2

\* create and complete look the key up before they call R2.
LookUp(r) ==
    /\ work[r].pc \in {"create", "complete"} /\ ~work[r].looked
    /\ IF IsAbsent(Key(r))
         THEN work' = [work EXCEPT ![r].looked = TRUE] /\ UntouchedR2
         ELSE /\ IF ~Matches(Key(r)) THEN Failed(r)
                 ELSE IF At(r, "create") THEN Stored(r)
                 ELSE Write(r, Event(r, "completed"))
              /\ IF At(r, "complete") THEN Discard(Upload(r)) ELSE UntouchedR2
    /\ NotR2

Create(r) ==
    /\ At(r, "create") /\ work[r].looked
    /\ NewUpload(Key(r))
    /\ Write(r, [kind |-> "created", upload |-> Len(uploads) + 1, part |-> 0, etag |-> 0])
    /\ NotR2

UploadPart(r) ==
    /\ At(r, "part")
    /\ IF ~IsOpen(Upload(r)) THEN Missing(r) /\ UntouchedR2
       ELSE \E e \in NewEtags(Upload(r), work[r].part) :
               /\ PutPart(Upload(r), work[r].part, e)
               /\ Write(r, [kind |-> "part", upload |-> Upload(r),
                            part |-> work[r].part, etag |-> e])
    /\ NotR2

\* Mutant: a missing upload counts as one that has been completed.
CompleteTrusting(r) ==
    /\ At(r, "complete") /\ work[r].looked
    /\ IF ~IsOpen(Upload(r)) THEN Write(r, Event(r, "completed")) /\ UntouchedR2
       ELSE IF Accepts(Upload(r), journal[r].etags)
         THEN Assemble(Upload(r), journal[r].etags) /\ Write(r, Event(r, "completed"))
       ELSE Retry(r) /\ UntouchedR2
    /\ NotR2

Complete(r) ==
    /\ At(r, "complete") /\ work[r].looked
    /\ IF ~IsOpen(Upload(r)) THEN Missing(r) /\ UntouchedR2
       ELSE IF Accepts(Upload(r), journal[r].etags)
         THEN Assemble(Upload(r), journal[r].etags) /\ Write(r, Event(r, "completed"))
       ELSE Retry(r) /\ UntouchedR2
    /\ NotR2

\* The object is there already: the upload begun for it is given up.
Abort(r) ==
    /\ At(r, "abort")
    /\ Discard(Upload(r))
    /\ Write(r, Event(r, "completed"))
    /\ NotR2
-----------------------------------------------------------------------------
(* The journal.                                                              *)

\* Mutant: a new upload inherits the parts recorded for the one before.
ApplyInherits(r, e) ==
    /\ journal' =
         CASE e.kind = "created" ->
                [journal EXCEPT ![r].active = TRUE, ![r].upload = e.upload]
           [] e.kind = "part" /\ journal[r].active /\ journal[r].upload = e.upload ->
                [journal EXCEPT ![r].etags[e.part] = e.etag]
           [] e.kind \in {"completed", "aborted"} /\ journal[r].upload = e.upload ->
                [journal EXCEPT ![r].active = FALSE]
           [] OTHER -> journal
    /\ media' = IF e.kind \in {"stored", "failed"} THEN [media EXCEPT ![r] = e.kind]
                ELSE media

\* applyMultipartEvent and the media records, in memory and on a later read.
Apply(r, e) ==
    /\ journal' =
         CASE e.kind = "created" ->
                [journal EXCEPT ![r] = [active |-> TRUE, upload |-> e.upload,
                                        etags |-> NoEtags(Key(r))]]
           [] e.kind = "part" /\ journal[r].active /\ journal[r].upload = e.upload ->
                [journal EXCEPT ![r].etags[e.part] = e.etag]
           [] e.kind \in {"completed", "aborted"} /\ journal[r].upload = e.upload ->
                [journal EXCEPT ![r].active = FALSE]
           [] OTHER -> journal
    /\ media' = IF e.kind \in {"stored", "failed"} THEN [media EXCEPT ![r] = e.kind]
                ELSE media

\* An append after a line without its newline joins the two.
Appended == IF tail = "clean" THEN "clean" ELSE "torn"

\* What the worker does once its event is durable.
GoOn(r, e) ==
    CASE e.kind \in {"created", "part"} -> NextPart(r, journal'[r].etags)
      [] e.kind = "aborted" ->
           work' = [work EXCEPT ![r] = [Resting("head") EXCEPT !.restart = FALSE]]
      [] e.kind = "completed" -> Stored(r)
      [] e.kind \in {"stored", "failed"} ->
           work' = [work EXCEPT ![r] = Resting("settled")]

Record(r) ==
    /\ At(r, "record") /\ ~jammed
    /\ Apply(r, work[r].event)
    /\ GoOn(r, work[r].event)
    /\ tail' = Appended
    /\ UntouchedR2 /\ UNCHANGED <<running, jammed, late, report, faults>>

\* After a failed append the chain of writes is rejected for good.
Reject(r) ==
    /\ At(r, "record") /\ jammed
    /\ work' = [work EXCEPT ![r] = Resting("dead")]
    /\ UntouchedR2 /\ NotR2
-----------------------------------------------------------------------------
(* The command.                                                              *)

Pending == {r \in Rows : media[r] # "stored"}

\* openRecoveryCheckpoint parses every line and refuses a torn one.
Start ==
    /\ ~running /\ ~report /\ tail # "torn"
    /\ running' = TRUE
    /\ work' = [r \in Rows |-> Resting(IF r \in Pending THEN "waiting" ELSE "settled")]
    /\ UntouchedR2 /\ UNCHANGED <<journal, media, tail, jammed, late, report, faults>>

\* A worker that has thrown takes no further row.
Taken == {r \in Rows : work[r].pc \in Calls \cup {"record", "dead"}}

Take(r) ==
    /\ At(r, "waiting") /\ Cardinality(Taken) < Concurrency
    /\ Call(r, "head", 0)
    /\ UntouchedR2 /\ NotR2

\* Finalization reads the journal again; a rejected write skips it.
Finish ==
    /\ running
    /\ \A r \in Rows : ~At(r, "record") /\ work[r].pc \notin Calls
    /\ \/ \A r \in Rows : ~At(r, "waiting")
       \/ Cardinality(Taken) >= Concurrency
    /\ running' = FALSE /\ jammed' = FALSE
    /\ work' = [r \in Rows |-> Resting("idle")]
    /\ report' = /\ \A r \in Rows : At(r, "settled")
                 /\ tail # "torn" /\ Pending = {}
    /\ UntouchedR2 /\ UNCHANGED <<journal, media, tail, late, faults>>
-----------------------------------------------------------------------------
(* Faults and the passing of time.                                           *)

Fault == faults < MaxFaults /\ faults' = faults + 1

Request(r) ==
    [op |-> work[r].pc, object |-> Key(r), upload |-> Upload(r), part |-> work[r].part,
     etags |-> journal[r].etags, looked |-> work[r].looked]

\* The connection fails.  The bridge may still act on the request, then or later.
Lose(r) ==
    /\ work[r].pc \in Calls /\ Fault
    /\ late' = IF At(r, "head") THEN late ELSE late \cup {Request(r)}
    /\ Retry(r)
    /\ UntouchedR2 /\ UNCHANGED journalVars /\ UNCHANGED runVars

\* A request given up by its caller takes its next step at the bridge.
LatePut(q) == q.op = "put" /\ PutIfAbsent(q.object) /\ late' = late \ {q}
LateAbort(q) == q.op = "abort" /\ Discard(q.upload) /\ late' = late \ {q}
LatePart(q) ==
    /\ q.op = "part" /\ late' = late \ {q}
    /\ IF IsOpen(q.upload)
         THEN \E e \in NewEtags(q.upload, q.part) : PutPart(q.upload, q.part, e)
         ELSE UntouchedR2
LateLookUp(q) ==
    /\ q.op \in {"create", "complete"} /\ ~q.looked
    /\ IF IsAbsent(q.object)
         THEN late' = (late \ {q}) \cup {[q EXCEPT !.looked = TRUE]} /\ UntouchedR2
         ELSE /\ late' = late \ {q}
              /\ IF q.op = "complete" THEN Discard(q.upload) ELSE UntouchedR2
LateCreate(q) ==
    q.op = "create" /\ q.looked /\ NewUpload(q.object) /\ late' = late \ {q}
LateComplete(q) ==
    /\ q.op = "complete" /\ q.looked /\ late' = late \ {q}
    /\ IF Accepts(q.upload, q.etags) THEN Assemble(q.upload, q.etags) ELSE UntouchedR2

Late(q) ==
    /\ \/ LatePut(q) \/ LateAbort(q) \/ LatePart(q) \/ LateLookUp(q)
       \/ LateCreate(q) \/ LateComplete(q)
    /\ UNCHANGED journalVars /\ UNCHANGED runVars /\ UNCHANGED <<work, faults>>

\* An interrupted append leaves nothing, or a part of its line, or (when only
\* the newline is missing) a whole event that the next read accepts.
Interrupt(r) ==
    \/ UNCHANGED journalVars
    \/ /\ TornTails /\ At(r, "record") /\ ~jammed
       /\ \/ tail' = "torn" /\ UNCHANGED <<journal, media>>
          \/ /\ Apply(r, work[r].event)
             /\ tail' = IF tail = "clean" THEN "unterminated" ELSE "torn"

\* The process is killed.
Crash ==
    /\ running /\ Fault
    /\ \E r \in Rows : Interrupt(r)
    /\ late' = late \cup {Request(r) : r \in {s \in Rows : work[s].pc \in Calls \ {"head"}}}
    /\ work' = [r \in Rows |-> Resting("idle")]
    /\ running' = FALSE /\ jammed' = FALSE
    /\ UntouchedR2 /\ UNCHANGED report

\* The disk refuses an append, or the rest of it.
FailAppend(r) ==
    /\ At(r, "record") /\ ~jammed /\ Fault
    /\ tail' \in IF TornTails THEN {tail, "torn"} ELSE {tail}
    /\ jammed' = TRUE
    /\ work' = [work EXCEPT ![r] = Resting("dead")]
    /\ UntouchedR2 /\ UNCHANGED <<journal, media, running, late, report>>

\* R2 drops an upload that stays incomplete: between two runs at no cost ...
Expire(u) ==
    /\ IsOpen(u) /\ ~running
    /\ Discard(u)
    /\ UNCHANGED journalVars /\ UNCHANGED runVars /\ UNCHANGED <<work, late, faults>>

\* ... and, as a fault, under a run that uses it.
ExpireEarly(u) ==
    /\ IsOpen(u) /\ running /\ Fault
    /\ Discard(u)
    /\ UNCHANGED journalVars /\ UNCHANGED runVars /\ UNCHANGED <<work, late>>
-----------------------------------------------------------------------------
WorkerStep(r) ==
    \/ Take(r) \/ HeadKey(r) \/ Put(r) \/ LookUp(r) \/ Create(r) \/ UploadPart(r)
    \/ Complete(r) \/ Abort(r) \/ Record(r) \/ Reject(r)

Environment ==
    \/ \E r \in Rows : Lose(r) \/ FailAppend(r)
    \/ \E q \in late : Late(q)
    \/ Crash
    \/ \E u \in DOMAIN uploads : Expire(u) \/ ExpireEarly(u)

Next == (\E r \in Rows : WorkerStep(r)) \/ Start \/ Finish \/ Environment

Spec == Init /\ [][Next]_vars

\* Workers go on, the operator repeats the command until its report is
\* complete, and R2 drops every upload that stays incomplete.
Fairness ==
    /\ \A r \in Rows : WF_vars(WorkerStep(r))
    /\ WF_vars(Start) /\ WF_vars(Finish)
    /\ \A u \in 1 .. MaxUploads : SF_vars(Expire(u))

FairSpec == Spec /\ Fairness
-----------------------------------------------------------------------------
(* Properties.                                                               *)

\* uploadMultipartFile with the journal: whatever answers are lost and runs are
\* killed, an object appears whole and for good, and a row is recorded as
\* stored only after that.
Store == INSTANCE ImmutableStore WITH
    stored    <- {o \in Objects : Matches(o) /\ bucket[o].parts = 1 .. Parts[o]},
    preserved <- {r \in Rows : media[r] = "stored"}

ImplementsStore == Store!Spec

\* "Skips only recorded parts": what the journal holds of an upload, R2 has
\* received under that upload ID.
JournalBehindR2 ==
    \A r \in Rows : journal[r].active =>
        /\ journal[r].upload \in DOMAIN uploads
        /\ uploads[journal[r].upload].object = Key(r)
        /\ \A p \in DOMAIN journal[r].etags :
              journal[r].etags[p] <= uploads[journal[r].upload].etags[p]

\* The journal and the reuse of its upload ID: between runs, every open upload
\* that no row can resume is the price of a fault, which costs each worker of
\* the pool one upload at most.
Resumable == {journal[r].upload : r \in {s \in Rows : journal[s].active}}
Leaked == {u \in DOMAIN uploads : IsOpen(u)} \ Resumable
LeaksNeedFaults == ~running => Cardinality(Leaked) <= Concurrency * faults

\* A stored row leaves no upload of its own open: complete, or abort.
StoredRowsAreClosed ==
    \A r \in Rows : media[r] = "stored" => ~journal[r].active

\* A row can be preserved unless a foreign object occupies its key.
Preservable == {r \in Rows : Key(r) \notin Foreign}

\* "Failed and resumable": repeating the command stores every row that can be
\* stored and ends with a complete report if that is all of them.
Ended == Pending \cap Preservable = {} /\ (Preservable = Rows => report)
RecoveryEnds == <>Ended
=============================================================================
