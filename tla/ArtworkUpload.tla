---------------------------- MODULE ArtworkUpload ----------------------------
(***************************************************************************)
(* The upload of an artwork archive to an immutable bucket: one reader     *)
(* walks the entries of a ZIP stream and hands them to a bounded pool of   *)
(* tasks; each puts its object if the key is free, compares it otherwise,  *)
(* and records it in the checkpoint.  The run stops at too many failures   *)
(* or at an interrupt; it may be killed, and the operator runs the command *)
(* again until its report is complete.                                     *)
(***************************************************************************)
EXTENDS JsonlCheckpoint

CONSTANTS
    Archive,       \* the eligible entries of the ZIP, in order, by their keys
    CanBeForeign,  \* keys that another object may occupy
    CanBeDamaged,  \* keys whose entry may be empty, too large or suspicious
    Concurrency,   \* tasks of the pool
    Attempts,      \* tries of one upload
    MaxFailures,   \* --max-failures
    MaxFaults      \* bound: lost answers, failed writes, interrupts, kills

UploadAssumption ==
    /\ Archive \in Seq(Keys) /\ {Archive[i] : i \in DOMAIN Archive} = Keys
    /\ \A i, j \in DOMAIN Archive : Archive[i] = Archive[j] => i = j
    /\ CanBeForeign \subseteq Keys /\ CanBeDamaged \subseteq Keys
    /\ Concurrency \in Nat \ {0} /\ Attempts \in Nat \ {0} /\ MaxFailures \in Nat \ {0}
    /\ MaxFaults \in Nat

VARIABLES
    bucket,    \* what each key holds
    damaged,   \* the damaged entries of this archive
    phase,     \* of the command
    pos,       \* the reader's next entry
    task,      \* the task of each key
    try,       \* its attempt
    failures,  \* of this run
    aborted,   \* this run has been interrupted
    late,      \* keys of puts whose answer nobody waits for
    report,    \* the report of the last run that wrote one
    faults

runVars == <<phase, pos, task, try, failures, aborted>>
vars == <<checkpointVars, bucket, damaged, runVars, late, report, faults>>

Tasks == {"none", "put", "head", "write", "done", "failed"}

TypeOK ==
    /\ CheckpointTypeOK
    /\ bucket \in [Keys -> {"absent", "foreign", "stored"}]
    /\ damaged \subseteq Keys
    /\ phase \in {"down", "header", "reading", "waiting", "loading", "draining"}
    /\ pos \in 1 .. Len(Archive) + 1
    /\ task \in [Keys -> Tasks]
    /\ try \in [Keys -> 1 .. Attempts]
    /\ failures \in Nat
    /\ aborted \in BOOLEAN
    /\ late \subseteq Keys
    /\ report \in {"none", "incomplete", "complete"}
    /\ faults \in 0 .. MaxFaults

NoTask == [k \in Keys |-> "none"]
FirstTry == [k \in Keys |-> 1]

Init ==
    /\ CheckpointInit
    /\ \E f \in SUBSET CanBeForeign :
          bucket = [k \in Keys |-> IF k \in f THEN "foreign" ELSE "absent"]
    /\ damaged \in SUBSET CanBeDamaged
    /\ phase = "down" /\ pos = 1 /\ failures = 0 /\ aborted = FALSE
    /\ task = NoTask /\ try = FirstTry
    /\ late = {} /\ report = "none" /\ faults = 0

\* The end of the process.
Exit ==
    /\ phase' = "down" /\ pos' = 1 /\ failures' = 0 /\ aborted' = FALSE
    /\ task' = NoTask /\ try' = FirstTry

Outside == UNCHANGED <<bucket, damaged, late, report, faults>>
-----------------------------------------------------------------------------
(* The reader.                                                               *)

Openable == file = <<>> \/ Readable(file)

Open ==
    /\ phase = "down" /\ report # "complete"
    /\ IF file = <<>> THEN phase' = "header" /\ UNCHANGED checkpointVars
       ELSE Load /\ phase' = "reading"
    /\ UNCHANGED <<pos, task, try, failures, aborted>> /\ Outside

Header ==
    /\ phase = "header" /\ WriteHeader /\ phase' = "reading"
    /\ UNCHANGED <<pos, task, try, failures, aborted>> /\ Outside

Running == phase \in {"reading", "waiting", "loading", "draining"}
Entry == Archive[pos]
Active == {k \in Keys : task[k] \in {"put", "head", "write"}}

\* Each round of the loop looks at the signal and at the failures first.
NextEntry ==
    /\ phase = "reading"
    /\ IF aborted \/ failures >= MaxFailures \/ pos > Len(Archive)
         THEN phase' = "draining" /\ UNCHANGED <<pos, failures>>
       ELSE IF Entry \in damaged
         THEN pos' = pos + 1 /\ failures' = failures + 1 /\ UNCHANGED phase
       ELSE IF Entry \in completed THEN pos' = pos + 1 /\ UNCHANGED <<phase, failures>>
       ELSE phase' = "waiting" /\ UNCHANGED <<pos, failures>>
    /\ UNCHANGED <<task, try, aborted>> /\ UNCHANGED checkpointVars /\ Outside

\* Mutant: the failures are not looked at again after the wait.
SlotUnchecked ==
    /\ phase = "waiting" /\ Cardinality(Active) < Concurrency
    /\ phase' = "loading"
    /\ UNCHANGED <<pos, task, try, failures, aborted>>
    /\ UNCHANGED checkpointVars /\ Outside

\* A slot of the pool is free; meanwhile other tasks may have failed.
Slot ==
    /\ phase = "waiting" /\ Cardinality(Active) < Concurrency
    /\ phase' = IF failures >= MaxFailures THEN "draining" ELSE "loading"
    /\ UNCHANGED <<pos, task, try, failures, aborted>>
    /\ UNCHANGED checkpointVars /\ Outside

\* The compressed bytes are there: the task begins.
Schedule ==
    /\ phase = "loading"
    /\ task' = [task EXCEPT ![Entry] = "put"]
    /\ pos' = pos + 1 /\ phase' = "reading"
    /\ UNCHANGED <<try, failures, aborted>> /\ UNCHANGED checkpointVars /\ Outside

\* The pool is drained, the checkpoint closed and the report written.
Finish ==
    /\ phase = "draining" /\ Active = {}
    /\ Close
    /\ report' = IF jammed THEN report
                 ELSE IF failures = 0 /\ ~aborted /\ pos > Len(Archive) THEN "complete"
                 ELSE "incomplete"
    /\ Exit
    /\ UNCHANGED <<bucket, damaged, late, faults>>
-----------------------------------------------------------------------------
(* The tasks.                                                                *)

Fails(k) == task' = [task EXCEPT ![k] = "failed"] /\ failures' = failures + 1
ReaderWaits == UNCHANGED <<phase, pos, aborted>>

\* If-None-Match: a taken key is looked up next.
Put(k) ==
    /\ task[k] = "put"
    /\ IF bucket[k] = "absent"
         THEN /\ bucket' = [bucket EXCEPT ![k] = "stored"]
              /\ task' = [task EXCEPT ![k] = "write"]
              /\ Enqueue(k)
         ELSE /\ task' = [task EXCEPT ![k] = "head"]
              /\ UNCHANGED bucket /\ UNCHANGED checkpointVars
    /\ UNCHANGED <<try, failures, damaged, late, report, faults>> /\ ReaderWaits

\* Mutant: a taken key is taken for ours.
HeadTrusts(k) ==
    /\ task[k] = "head"
    /\ task' = [task EXCEPT ![k] = "write"]
    /\ Enqueue(k)
    /\ UNCHANGED <<failures, try>> /\ ReaderWaits /\ Outside

HeadKey(k) ==
    /\ task[k] = "head"
    /\ IF bucket[k] = "stored"
         THEN task' = [task EXCEPT ![k] = "write"] /\ Enqueue(k) /\ UNCHANGED failures
         ELSE Fails(k) /\ UNCHANGED checkpointVars
    /\ UNCHANGED try /\ ReaderWaits /\ Outside

\* The record of the first task in line becomes durable, or is rejected.
Write ==
    /\ WriteNext
    /\ task' = [task EXCEPT ![Head(chain)] = "done"]
    /\ UNCHANGED <<try, failures>> /\ ReaderWaits /\ Outside

Reject ==
    /\ RejectNext
    /\ Fails(Head(chain))
    /\ UNCHANGED try /\ ReaderWaits /\ Outside
-----------------------------------------------------------------------------
(* Faults.                                                                   *)

Fault == faults < MaxFaults /\ faults' = faults + 1

\* A request gets no usable answer; a put may still take effect.
Lose(k) ==
    /\ task[k] \in {"put", "head"} /\ Fault
    /\ late' = IF task[k] = "put" THEN late \cup {k} ELSE late
    /\ IF try[k] < Attempts /\ ~aborted
         THEN /\ task' = [task EXCEPT ![k] = "put"] /\ try' = [try EXCEPT ![k] = @ + 1]
              /\ UNCHANGED failures
         ELSE Fails(k) /\ UNCHANGED try
    /\ UNCHANGED checkpointVars /\ UNCHANGED <<bucket, damaged, report>> /\ ReaderWaits

\* An answer that is not worth another try: the bucket refuses the request.
Refuse(k) ==
    /\ task[k] \in {"put", "head"} /\ Fault
    /\ Fails(k)
    /\ UNCHANGED checkpointVars /\ UNCHANGED <<bucket, damaged, try, late, report>>
    /\ ReaderWaits

LatePut(k) ==
    /\ k \in late /\ late' = late \ {k}
    /\ bucket' = IF bucket[k] = "absent" THEN [bucket EXCEPT ![k] = "stored"] ELSE bucket
    /\ UNCHANGED checkpointVars /\ UNCHANGED runVars /\ UNCHANGED <<damaged, report, faults>>

\* SIGINT: requests are cancelled, records are still written.
Interrupt ==
    /\ Running /\ ~aborted /\ Fault
    /\ aborted' = TRUE
    /\ UNCHANGED <<phase, pos, task, try, failures>>
    /\ UNCHANGED checkpointVars /\ UNCHANGED <<bucket, damaged, late, report>>

Cancel(k) ==
    /\ aborted /\ task[k] \in {"put", "head"}
    /\ late' = IF task[k] = "put" THEN late \cup {k} ELSE late
    /\ Fails(k)
    /\ UNCHANGED checkpointVars /\ UNCHANGED <<bucket, damaged, try, report, faults>>
    /\ ReaderWaits

\* The disk refuses a write, or the rest of it.
FailWrite ==
    /\ FailNext /\ Fault
    /\ Fails(Head(chain))
    /\ UNCHANGED try /\ ReaderWaits /\ UNCHANGED <<bucket, damaged, late, report>>

Writing ==
    IF phase = "header" THEN {"header"}
    ELSE IF chain # <<>> /\ ~jammed THEN {Head(chain)} ELSE {}

Crash ==
    /\ phase # "down" /\ Fault
    /\ Killed(Writing) \/ PowerLost
    /\ late' = late \cup {k \in Keys : task[k] = "put"}
    /\ Exit
    /\ UNCHANGED <<bucket, damaged, report>>

CrashInRepair ==
    /\ phase = "down" /\ Fault /\ KilledInRepair
    /\ UNCHANGED runVars /\ UNCHANGED <<bucket, damaged, late, report>>
-----------------------------------------------------------------------------
RunStep ==
    \/ Header \/ NextEntry \/ Slot \/ Schedule \/ Finish \/ Write \/ Reject
    \/ \E k \in Keys : Put(k) \/ HeadKey(k) \/ Cancel(k)

Next ==
    \/ Open \/ RunStep \/ Interrupt \/ FailWrite \/ Crash \/ CrashInRepair
    \/ \E k \in Keys : Lose(k) \/ Refuse(k) \/ LatePut(k)

Spec == Init /\ [][Next]_vars

\* A run goes on by itself, and the operator repeats the command until its
\* report is complete.
FairSpec == Spec /\ WF_vars(RunStep) /\ WF_vars(Open)
-----------------------------------------------------------------------------
(* Properties.                                                               *)

\* uploadArtworkArchive: objects appear once and for good, and a report is
\* complete only when every eligible entry has its object in the bucket.
Store == INSTANCE ImmutableStore WITH
    Rows      <- Keys,
    Objects   <- Keys,
    Content   <- [k \in Keys |-> k],
    stored    <- {k \in Keys : bucket[k] = "stored"},
    preserved <- IF report = "complete" THEN Keys ELSE {}

StoreStep == [Store!Next]_(Store!vars)

\* JsonlCheckpoint.record: whatever is torn, lost or written late, a record that
\* a run could read and skip is the record of an object that is there.
RecordsAreStored == \A k \in Records(file) : bucket[k] = "stored"

\* --max-failures: tasks already in the pool may still fail, and one damaged
\* entry is counted without a task.
FailuresBounded ==
    failures <= MaxFailures + Concurrency - (IF damaged = {} THEN 1 ELSE 0)

\* Repeating the command completes the upload of an archive without obstacles,
\* unless a torn write has left a checkpoint that no run can open.
Unhindered == damaged = {} /\ \A k \in Keys : bucket[k] # "foreign"
Ended == report = "complete" \/ (phase = "down" /\ ~Openable)
=============================================================================
