-------------------------- MODULE MediaPublication --------------------------
(***************************************************************************)
(* The publication of the Collections media to R2.  A run opens its        *)
(* checkpoint and lets a pool of workers settle the planned objects: those *)
(* to upload through a temporary bridge that never replaces an object, and *)
(* those the archive release is expected to hold already.  Each object is  *)
(* looked up first; what the bridge confirms is recorded.  The D1 loader   *)
(* accepts the report of a run that found every object already there.      *)
(***************************************************************************)
EXTENDS JsonlCheckpoint

CONSTANTS
    Order,         \* the planned objects, in the order of their keys
    Reuses,        \* those the archive release must already hold
    CanBeForeign,  \* keys that another object may occupy
    Concurrency,   \* workers of the pool
    Attempts,      \* tries of one request
    MaxFaults      \* bound: lost answers, failed writes, kills, removals

PublicationAssumption ==
    /\ Order \in Seq(Keys) /\ {Order[i] : i \in DOMAIN Order} = Keys
    /\ \A i, j \in DOMAIN Order : Order[i] = Order[j] => i = j
    /\ Reuses \subseteq Keys /\ CanBeForeign \subseteq Keys
    /\ Concurrency \in Nat \ {0} /\ Attempts \in Nat \ {0} /\ MaxFaults \in Nat

VARIABLES
    bucket,   \* what each key holds
    changed,  \* local files that differ from the plan
    phase,    \* of the command
    cursor,   \* the pool's next object
    task,     \* the step each object's worker has reached
    try,      \* its attempt
    counts,   \* objects uploaded, reused, proofVerified and failed in this run
    prior,    \* objects with a record when this run began
    aborted,  \* this run has been interrupted
    late,     \* keys of puts whose answer nobody waits for
    report,   \* the report of the last run that wrote one
    faults

runVars == <<phase, cursor, task, try, counts, prior, aborted>>
vars == <<checkpointVars, bucket, changed, runVars, late, report, faults>>

Uploads == Keys \ Reuses
NoCounts == [uploaded |-> {}, reused |-> {}, proofVerified |-> {}, failed |-> {}]

TypeOK ==
    /\ CheckpointTypeOK
    /\ bucket \in [Keys -> {"absent", "foreign", "stored"}]
    /\ changed \subseteq Uploads
    /\ phase \in {"down", "header", "pool"}
    /\ cursor \in 1 .. Len(Order) + 1
    /\ task \in [Keys -> {"none", "head", "put", "record", "settled"}]
    /\ try \in [Keys -> 1 .. Attempts]
    /\ counts \in [DOMAIN NoCounts -> SUBSET Keys]
    /\ prior \subseteq Keys /\ late \subseteq Uploads
    /\ aborted \in BOOLEAN
    /\ report \in {"none", "incomplete", "complete", "accepted"}
    /\ faults \in 0 .. MaxFaults

Init ==
    /\ CheckpointInit
    /\ \E f \in SUBSET CanBeForeign :
          bucket = [k \in Keys |-> IF k \in f THEN "foreign"
                                   ELSE IF k \in Reuses THEN "stored" ELSE "absent"]
    /\ changed = {} /\ phase = "down" /\ cursor = 1
    /\ task = [k \in Keys |-> "none"] /\ try = [k \in Keys |-> 1]
    /\ counts = NoCounts /\ prior = {} /\ aborted = FALSE
    /\ late = {} /\ report = "none" /\ faults = 0

Exit ==
    /\ phase' = "down" /\ cursor' = 1 /\ aborted' = FALSE
    /\ task' = [k \in Keys |-> "none"] /\ try' = [k \in Keys |-> 1]
    /\ counts' = NoCounts /\ prior' = {}

Outside == UNCHANGED <<bucket, changed, late, report, faults>>
-----------------------------------------------------------------------------
(* The run.                                                                  *)

Openable == file = <<>> \/ Readable(file)
LocalFilesMatch == changed = {}

\* The plan is loaded, its local files verified and the checkpoint read; a
\* file that no longer matches refuses the run.
Open ==
    /\ phase = "down" /\ report # "accepted" /\ LocalFilesMatch
    /\ IF file = <<>>
         THEN phase' = "header" /\ UNCHANGED checkpointVars /\ prior' = {}
         ELSE Load /\ phase' = "pool" /\ prior' = completed'
    /\ UNCHANGED <<cursor, task, try, counts, aborted>> /\ Outside

Header ==
    /\ phase = "header" /\ WriteHeader /\ phase' = "pool"
    /\ UNCHANGED <<cursor, task, try, counts, prior, aborted>> /\ Outside

Active == {k \in Keys : task[k] \in {"head", "put", "record"}}

\* A worker of the pool takes the next object.
Take ==
    /\ phase = "pool" /\ ~aborted /\ cursor <= Len(Order)
    /\ Cardinality(Active) < Concurrency
    /\ task' = [task EXCEPT ![Order[cursor]] = "head"]
    /\ cursor' = cursor + 1
    /\ UNCHANGED <<phase, try, counts, prior, aborted>>
    /\ UNCHANGED checkpointVars /\ Outside

Settle(k, kind) ==
    /\ task' = [task EXCEPT ![k] = "settled"]
    /\ counts' = IF kind = "none" THEN counts ELSE [counts EXCEPT ![kind] = @ \cup {k}]

PoolWaits == UNCHANGED <<phase, cursor, prior, aborted>>

\* What the bridge answers to a lookup: an object counts as present only with
\* the bytes, the type and the origin the plan expects.
BridgeHead(k) ==
    CASE bucket[k] = "absent"  -> "object_not_found"
      [] bucket[k] = "foreign" -> "existing_object_conflict"
      [] bucket[k] = "stored"  -> "confirmed"

\* What it answers to a conditional put.
BridgePut(k) ==
    CASE bucket[k] = "absent"  -> "uploaded"
      [] bucket[k] = "foreign" -> "existing_object_conflict"
      [] bucket[k] = "stored"  -> "reused"

Refused(k) ==
    BridgeHead(k) = "existing_object_conflict"
    \/ (BridgeHead(k) = "object_not_found" /\ k \in Reuses)

\* Mutant: an upload with a record is not looked up.
HeadTrustsRecord(k) ==
    /\ task[k] = "head" /\ PoolWaits /\ Outside
    /\ \/ /\ Refused(k) /\ Settle(k, "failed")
          /\ UNCHANGED try /\ UNCHANGED checkpointVars
       \/ /\ ~Refused(k) /\ k \in prior
          /\ Settle(k, "proofVerified")
          /\ UNCHANGED try /\ UNCHANGED checkpointVars
       \/ /\ BridgeHead(k) = "confirmed" /\ k \notin prior
          /\ task' = [task EXCEPT ![k] = "record"] /\ Enqueue(k)
          /\ UNCHANGED <<try, counts>>
       \/ /\ BridgeHead(k) = "object_not_found" /\ k \in Uploads \ prior
          /\ task' = [task EXCEPT ![k] = "put"] /\ try' = [try EXCEPT ![k] = 1]
          /\ UNCHANGED counts /\ UNCHANGED checkpointVars

\* The lookup.  A match with a record proves the object; one without is
\* recorded; an absent object is uploaded, unless the archive should hold it.
HeadObject(k) ==
    /\ task[k] = "head" /\ PoolWaits /\ Outside
    /\ \/ /\ Refused(k) /\ Settle(k, "failed")
          /\ UNCHANGED try /\ UNCHANGED checkpointVars
       \/ /\ BridgeHead(k) = "confirmed" /\ k \in prior
          /\ Settle(k, "proofVerified")
          /\ UNCHANGED try /\ UNCHANGED checkpointVars
       \/ /\ BridgeHead(k) = "confirmed" /\ k \notin prior
          /\ task' = [task EXCEPT ![k] = "record"] /\ Enqueue(k)
          /\ UNCHANGED <<try, counts>>
       \/ /\ BridgeHead(k) = "object_not_found" /\ k \in Uploads
          /\ task' = [task EXCEPT ![k] = "put"] /\ try' = [try EXCEPT ![k] = 1]
          /\ UNCHANGED counts /\ UNCHANGED checkpointVars

\* The upload: the file is read and checked again; the bridge puts it only
\* where the key is free, and compares what it finds otherwise.
PutObject(k) ==
    /\ task[k] = "put" /\ PoolWaits /\ UNCHANGED <<try, changed, late, report, faults>>
    /\ \/ /\ k \in changed \/ BridgePut(k) = "existing_object_conflict"
          /\ Settle(k, "failed")
          /\ UNCHANGED bucket /\ UNCHANGED checkpointVars
       \/ /\ k \notin changed /\ BridgePut(k) \in {"uploaded", "reused"}
          /\ bucket' = [bucket EXCEPT ![k] = "stored"]
          /\ counts' = [counts EXCEPT ![BridgePut(k)] = @ \cup {k}]
          /\ task' = [task EXCEPT ![k] = "record"] /\ Enqueue(k)

\* What a written record adds: an upload was counted when it was confirmed.
Counted(k) ==
    IF k \in Reuses THEN "proofVerified"
    ELSE IF k \in counts.uploaded \cup counts.reused THEN "none" ELSE "reused"

\* Mutant: an object found in the bucket counts as proved at once.
WriteProves ==
    /\ WriteNext
    /\ LET k == Head(chain)
       IN  Settle(k, IF k \in counts.uploaded \cup counts.reused THEN "none"
                     ELSE "proofVerified")
    /\ UNCHANGED try /\ PoolWaits /\ Outside

Write ==
    /\ WriteNext
    /\ Settle(Head(chain), Counted(Head(chain)))
    /\ UNCHANGED try /\ PoolWaits /\ Outside

\* After a failed write every later record is rejected, its object a failure.
Reject ==
    /\ RejectNext
    /\ Settle(Head(chain), "failed")
    /\ UNCHANGED try /\ PoolWaits /\ Outside

\* The report, as validateMediaPublishReport of the loader reads it: accepted
\* when nothing was uploaded or reused and everything proved.
Outcome(c) ==
    IF c.failed # {} \/ Cardinality(c.uploaded) + Cardinality(c.reused)
                        + Cardinality(c.proofVerified) # Cardinality(Keys)
      THEN "incomplete"
    ELSE IF c.uploaded = {} /\ c.reused = {} THEN "accepted"
    ELSE "complete"

\* The checkpoint is closed and the report written; after an interrupt or a
\* failed write the command throws instead.
Finish ==
    /\ phase = "pool" /\ Active = {} /\ (aborted \/ cursor > Len(Order))
    /\ Close
    /\ report' = IF jammed \/ aborted THEN report ELSE Outcome(counts)
    /\ Exit
    /\ UNCHANGED <<bucket, changed, late, faults>>
-----------------------------------------------------------------------------
(* Faults.                                                                   *)

Fault == faults < MaxFaults /\ faults' = faults + 1
Late(k) == late' = IF task[k] = "put" THEN late \cup {k} ELSE late

\* A request gets no usable answer and is tried again, or given up.
Lose(k) ==
    /\ task[k] \in {"head", "put"} /\ Fault /\ Late(k)
    /\ IF try[k] < Attempts /\ ~aborted
         THEN try' = [try EXCEPT ![k] = @ + 1] /\ UNCHANGED <<task, counts>>
         ELSE Settle(k, "failed") /\ UNCHANGED try
    /\ UNCHANGED checkpointVars /\ UNCHANGED <<bucket, changed, report>> /\ PoolWaits

LatePut(k) ==
    /\ k \in late /\ late' = late \ {k}
    /\ bucket' = IF bucket[k] = "absent" THEN [bucket EXCEPT ![k] = "stored"] ELSE bucket
    /\ UNCHANGED checkpointVars /\ UNCHANGED runVars /\ UNCHANGED <<changed, report, faults>>

Interrupt ==
    /\ phase = "pool" /\ ~aborted /\ Fault
    /\ aborted' = TRUE
    /\ UNCHANGED <<phase, cursor, task, try, counts, prior>>
    /\ UNCHANGED checkpointVars /\ UNCHANGED <<bucket, changed, late, report>>

\* The request of an interrupted run is cancelled; the object is not counted.
Cancel(k) ==
    /\ aborted /\ task[k] \in {"head", "put"} /\ Late(k)
    /\ Settle(k, "none")
    /\ UNCHANGED try /\ UNCHANGED checkpointVars
    /\ UNCHANGED <<bucket, changed, report, faults>> /\ PoolWaits

FailWrite ==
    /\ FailNext /\ Fault
    /\ Settle(Head(chain), "failed")
    /\ UNCHANGED try /\ PoolWaits /\ UNCHANGED <<bucket, changed, late, report>>

Writing ==
    IF phase = "header" THEN {"header"}
    ELSE IF chain # <<>> /\ ~jammed THEN {Head(chain)} ELSE {}

Crash ==
    /\ phase # "down" /\ Fault
    /\ Killed(Writing) \/ PowerLost
    /\ late' = late \cup {k \in Keys : task[k] = "put"}
    /\ Exit
    /\ UNCHANGED <<bucket, changed, report>>

CrashInRepair ==
    /\ phase = "down" /\ Fault /\ KilledInRepair
    /\ UNCHANGED runVars /\ UNCHANGED <<bucket, changed, late, report>>

\* Someone removes an object from the bucket between two runs.
Remove(k) ==
    /\ phase = "down" /\ bucket[k] = "stored" /\ k \in Uploads /\ report # "accepted"
    /\ Fault
    /\ bucket' = [bucket EXCEPT ![k] = "absent"]
    /\ UNCHANGED checkpointVars /\ UNCHANGED runVars /\ UNCHANGED <<changed, late, report>>

\* A local file is replaced while a run is under way, or put back.
Change(k) ==
    /\ k \in Uploads \ changed /\ phase = "pool" /\ Fault
    /\ changed' = changed \cup {k}
    /\ UNCHANGED checkpointVars /\ UNCHANGED runVars /\ UNCHANGED <<bucket, late, report>>

Restore ==
    /\ changed # {} /\ phase = "down" /\ changed' = {}
    /\ UNCHANGED checkpointVars /\ UNCHANGED runVars
    /\ UNCHANGED <<bucket, late, report, faults>>
-----------------------------------------------------------------------------
RunStep ==
    \/ Header \/ Take \/ Finish \/ Write \/ Reject
    \/ \E k \in Keys : HeadObject(k) \/ PutObject(k) \/ Cancel(k)

Next ==
    \/ Open \/ RunStep \/ Restore \/ Interrupt \/ FailWrite \/ Crash \/ CrashInRepair
    \/ \E k \in Keys : Lose(k) \/ LatePut(k) \/ Remove(k) \/ Change(k)

Spec == Init /\ [][Next]_vars

\* A run goes on by itself, and the operator repairs the local files and
\* repeats the command until the loader can accept its report.
Fairness == WF_vars(RunStep) /\ WF_vars(Open \/ Restore)
FairSpec == Spec /\ Fairness
-----------------------------------------------------------------------------
(* Properties.                                                               *)

\* publishCollectionMedia: no object is counted twice in a run, so a complete
\* report stands for every object: all of them are in the bucket when the
\* report is written, whatever was lost, retried or removed before.
ReportsWhatIsStored ==
    report' # report /\ report' \in {"complete", "accepted"} =>
        \A k \in Keys : bucket[k] = "stored"
CompleteIsStored == [][ReportsWhatIsStored]_vars

\* validateMediaPublishReport asks for a pass that uploads nothing: the report it
\* accepts was written by a run that found the record of an earlier run for
\* every uploaded object, and the object itself in the bucket.
AcceptsSecondPass ==
    report' = "accepted" /\ report # "accepted" =>
        Uploads \subseteq prior /\ \A k \in Uploads : bucket[k] = "stored"
AcceptedIsSecondPass == [][AcceptsSecondPass]_vars

\* Repeating the command leads to a report the loader accepts when no key is
\* taken by another object, unless a torn write left a checkpoint nobody can open.
Unhindered == \A k \in Keys : bucket[k] # "foreign"
Ended == report = "accepted" \/ (phase = "down" /\ ~Openable)
=============================================================================
