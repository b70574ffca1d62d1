------------------------ MODULE MediaRecovery_proofs -------------------------
(***************************************************************************)
(* The recovery executor implements the immutable store for any rows,      *)
(* objects, parts, workers, attempts and faults, and with torn journal     *)
(* tails too.  Every step of Spec is, on the bucket, one of the changes of *)
(* BridgeStep, all of which leave what the workers rely on in place.  The  *)
(* last two sections prove what the journal says of the uploads open in    *)
(* R2, and how many of them a fault may cost.                              *)
(***************************************************************************)
EXTENDS MediaRecovery, SequenceTheorems, FiniteSetTheorems, TLAPS

-----------------------------------------------------------------------------
(* The inductive invariant.                                                  *)

UploadRecords ==
    UNION {[object : {o}, open : BOOLEAN, etags : [1 .. Parts[o] -> Nat]] : o \in Objects}

BucketRecords == [state : {"absent", "foreign", "stored"}, upload : Nat, parts : SUBSET Nat]

BridgeTypes ==
    /\ bucket \in [Objects -> BucketRecords]
    /\ uploads \in Seq(UploadRecords)
    /\ Len(uploads) <= MaxUploads

\* Objects appear whole.
Whole == \A o \in Objects : Matches(o) => bucket[o].parts = 1 .. Parts[o]

BridgeInv == BridgeTypes /\ Whole

\* u is the ID of an upload for key o.
UploadFor(u, o) == u \in 1 .. Len(uploads) /\ uploads[u].object = o

Ids(o) == {u \in 1 .. Len(uploads) : UploadFor(u, o)}
Published == {o \in Objects : Matches(o)}

JournalRows(o) ==
    [active : BOOLEAN, upload : 0 .. MaxUploads, etags : [1 .. Parts[o] -> Nat]]

Recorded(o, j) == \A p \in 1 .. Parts[o] : j.etags[p] # 0

\* What the worker w of a row with key o and journal state j relies on, ids
\* being the IDs of the uploads for o and keys the published objects.
WorkerOK(o, w, j, ids, keys) ==
    /\ w \in Workers
    /\ w.pc = "record" => w.event.kind # "none"
    /\ w.event.kind = "created" => w.event.upload \in ids
    /\ w.event.kind = "part" => w.event.part \in 1 .. Parts[o]
    /\ w.event.kind \in {"completed", "stored"} => o \in keys
    /\ w.pc = "part" => w.part \in 1 .. Parts[o]
    /\ w.pc = "complete" => Recorded(o, j)
    /\ w.pc = "abort" => o \in keys

JournalOK(o, j, ids) == j \in JournalRows(o) /\ (j.upload # 0 => j.upload \in ids)

\* The worker of r has work to do, so r is not recorded as stored yet.
Busy(r) == work[r].pc \in Calls \cup {"waiting", "record"}

RowsOK ==
    /\ work \in [Rows -> Workers]
    /\ media \in [Rows -> {"none", "stored", "failed"}]
    /\ DOMAIN journal = Rows
    /\ journal = [r \in Rows |-> journal[r]]
    /\ \A r \in Rows :
          /\ JournalOK(Key(r), journal[r], Ids(Key(r)))
          /\ WorkerOK(Key(r), work[r], journal[r], Ids(Key(r)), Published)
          /\ media[r] = "stored" => Key(r) \in Published /\ ~Busy(r)

\* What a request relies on that its caller has given up.
RequestOK(q) ==
    /\ q = [op |-> q.op, object |-> q.object, upload |-> q.upload, part |-> q.part,
            etags |-> q.etags, looked |-> q.looked]
    /\ q.op \in Calls /\ q.object \in Objects /\ q.looked \in BOOLEAN
    /\ q.op = "part" => q.part \in 1 .. Parts[q.object]
    /\ q.op \in {"part", "complete"} /\ q.upload # 0 => UploadFor(q.upload, q.object)
    /\ q.op = "complete" => /\ q.etags \in [1 .. Parts[q.object] -> Nat]
                            /\ \A p \in 1 .. Parts[q.object] : q.etags[p] # 0

LateOK == \A q \in late : RequestOK(q)

OthersOK ==
    /\ tail \in {"clean", "unterminated", "torn"}
    /\ running \in BOOLEAN /\ jammed \in BOOLEAN /\ report \in BOOLEAN
    /\ faults \in Nat

IInv == BridgeInv /\ RowsOK /\ LateOK /\ OthersOK

-----------------------------------------------------------------------------
(* The bucket and the uploads.                                               *)

\* Everything a step may do at the bridge.
BridgeStep ==
    \/ UntouchedR2
    \/ \E o \in Objects : PutIfAbsent(o) \/ NewUpload(o)
    \/ \E u : Discard(u)
    \/ \E o \in Objects, u \in Nat : \E p \in 1 .. Parts[o] :
          \E e \in NewEtags(u, p) : UploadFor(u, o) /\ PutPart(u, p, e)
    \/ \E o \in Objects, u \in Nat : \E list \in [1 .. Parts[o] -> Nat] :
          /\ UploadFor(u, o) /\ Assemble(u, list)
          /\ \A p \in 1 .. Parts[o] : list[p] # 0

\* Published objects stay and uploads keep their IDs and keys.
Kept ==
    /\ \A o \in Objects : Matches(o) => Matches(o)'
    /\ \A o \in Objects, u \in Nat : UploadFor(u, o) => UploadFor(u, o)'

LEMMA UploadFacts ==
    ASSUME BridgeTypes, NEW u \in 1 .. Len(uploads)
    PROVE  /\ uploads[u].object \in Objects /\ uploads[u].open \in BOOLEAN
           /\ uploads[u].etags \in [1 .. Parts[uploads[u].object] -> Nat]
           /\ uploads[u] = [object |-> uploads[u].object, open |-> uploads[u].open,
                            etags |-> uploads[u].etags]
  <1>1. uploads[u] \in UploadRecords
    BY ElementOfSeq DEF BridgeTypes
  <1>2. PICK o \in Objects :
            uploads[u] \in [object : {o}, open : BOOLEAN, etags : [1 .. Parts[o] -> Nat]]
    BY <1>1 DEF UploadRecords
  <1> QED  BY <1>2

LEMMA RecordOfUpload ==
    ASSUME NEW o \in Objects, NEW b \in BOOLEAN, NEW e \in [1 .. Parts[o] -> Nat]
    PROVE  [object |-> o, open |-> b, etags |-> e] \in UploadRecords
  BY DEF UploadRecords

\* The two updates of an upload's record.
LEMMA UpdatedRecord ==
    ASSUME BridgeTypes, NEW u \in 1 .. Len(uploads)
    PROVE  /\ [uploads[u] EXCEPT !.open = FALSE] =
                 [object |-> uploads[u].object, open |-> FALSE, etags |-> uploads[u].etags]
           /\ \A p, x : [uploads[u] EXCEPT !.etags[p] = x] =
                 [object |-> uploads[u].object, open |-> uploads[u].open,
                  etags |-> [uploads[u].etags EXCEPT ![p] = x]]
  <1>1. PICK o, b, e : uploads[u] = [object |-> o, open |-> b, etags |-> e]
    BY UploadFacts
  <1>2. uploads[u].object = o /\ uploads[u].open = b /\ uploads[u].etags = e
    BY <1>1
  <1>3. ASSUME NEW x
        PROVE  [uploads[u] EXCEPT !.open = x] = [object |-> o, open |-> x, etags |-> e]
    BY <1>1
  <1>4. ASSUME NEW p, NEW x
        PROVE  [uploads[u] EXCEPT !.etags[p] = x] =
                  [object |-> o, open |-> b, etags |-> [e EXCEPT ![p] = x]]
    BY <1>1
  <1>5. [uploads[u] EXCEPT !.open = FALSE] = [object |-> o, open |-> FALSE, etags |-> e]
    BY <1>3, Zenon
  <1> QED  BY <1>2, <1>4, <1>5

LEMMA PartsNat == \A o \in Objects : Parts[o] \in Nat
  BY BridgeAssumption

\* Replacing one upload by another one for the same key.
LEMMA ReplaceUpload ==
    ASSUME BridgeTypes, NEW u \in 1 .. Len(uploads), NEW rec \in UploadRecords,
           rec.object = uploads[u].object,
           uploads' = [uploads EXCEPT ![u] = rec]
    PROVE  /\ uploads' \in Seq(UploadRecords) /\ Len(uploads') = Len(uploads)
           /\ \A o \in Objects, v \in Nat : UploadFor(v, o) => UploadFor(v, o)'
  <1>1. uploads \in Seq(UploadRecords)
    BY DEF BridgeTypes
  <1>2. uploads' \in Seq(UploadRecords) /\ Len(uploads') = Len(uploads)
    BY <1>1, ExceptSeq
  <1>3. \A v \in 1 .. Len(uploads) : uploads'[v] = IF v = u THEN rec ELSE uploads[v]
    BY <1>1
  <1> QED  BY <1>2, <1>3 DEF UploadFor

LEMMA BridgePreserves ==
    ASSUME BridgeInv, BridgeStep
    PROVE  BridgeInv' /\ Kept
  <1> USE DEF BridgeInv, Kept
  <1>1. CASE UntouchedR2
    BY <1>1 DEF UntouchedR2, BridgeTypes, Whole, Matches, UploadFor
  <1>2. ASSUME NEW o \in Objects, PutIfAbsent(o)
        PROVE  BridgeInv' /\ Kept
    <2>1. uploads' = uploads
      BY <1>2 DEF PutIfAbsent
    <2>2. bucket' \in [Objects -> BucketRecords]
      BY <1>2, PartsNat DEF PutIfAbsent, BridgeTypes, BucketRecords
    <2>3. \A x \in Objects :
             \/ bucket'[x] = bucket[x]
             \/ bucket'[x].state = "stored" /\ bucket'[x].parts = 1 .. Parts[x]
      BY <1>2 DEF PutIfAbsent, BridgeTypes
    <2>4. Whole'
      BY <2>3 DEF Whole, Matches
    <2>5. \A x \in Objects : Matches(x) => Matches(x)'
      BY <2>3 DEF Matches
    <2> QED  BY <2>1, <2>2, <2>4, <2>5 DEF BridgeTypes, UploadFor
  <1>3. ASSUME NEW o \in Objects, NewUpload(o)
        PROVE  BridgeInv' /\ Kept
    <2> DEFINE rec == [object |-> o, open |-> TRUE, etags |-> NoEtags(o)]
    <2>1. bucket' = bucket /\ uploads' = Append(uploads, rec) /\ Len(uploads) < MaxUploads
      BY <1>3 DEF NewUpload
    <2>2. NoEtags(o) \in [1 .. Parts[o] -> Nat]
      BY DEF NoEtags
    <2>3. rec \in UploadRecords
      BY <2>2, RecordOfUpload
    <2> HIDE DEF rec
    <2>4. uploads \in Seq(UploadRecords)
      BY DEF BridgeTypes
    <2>5. /\ uploads' \in Seq(UploadRecords) /\ Len(uploads') = Len(uploads) + 1
          /\ \A v \in 1 .. Len(uploads) : uploads'[v] = uploads[v]
      BY <2>1, <2>3, <2>4, AppendProperties
    <2>6. Len(uploads) \in Nat
      BY <2>4
    <2>7. \A x \in Objects, v \in Nat : UploadFor(v, x) => UploadFor(v, x)'
      BY <2>5, <2>6 DEF UploadFor
    <2> QED
      BY <2>1, <2>5, <2>6, <2>7, BridgeAssumption DEF BridgeTypes, Whole, Matches
  <1>4. ASSUME NEW u, Discard(u)
        PROVE  BridgeInv' /\ Kept
    <2>1. CASE uploads' = uploads
      BY <1>4, <2>1 DEF Discard, BridgeTypes, Whole, Matches, UploadFor
    <2>2. CASE IsOpen(u) /\ uploads' = [uploads EXCEPT ![u].open = FALSE]
      <3>1. u \in 1 .. Len(uploads) /\ bucket' = bucket
        BY <1>4, <2>2 DEF IsOpen, Discard, BridgeTypes
      <3> DEFINE rec == [object |-> uploads[u].object, open |-> FALSE,
                         etags |-> uploads[u].etags]
      <3>2. rec \in UploadRecords /\ rec.object = uploads[u].object
        BY <3>1, UploadFacts, RecordOfUpload
      <3>3. [uploads[u] EXCEPT !.open = FALSE] = rec
        BY <3>1, UpdatedRecord
      <3>4. uploads' = [uploads EXCEPT ![u] = rec]
        BY <2>2, <3>3
      <3> HIDE DEF rec
      <3> QED
        BY <3>1, <3>2, <3>4, ReplaceUpload DEF BridgeTypes, Whole, Matches
    <2> QED  BY <1>4, <2>1, <2>2 DEF Discard
  <1>5. ASSUME NEW o \in Objects, NEW u \in Nat, NEW p \in 1 .. Parts[o],
               NEW e \in NewEtags(u, p), UploadFor(u, o), PutPart(u, p, e)
        PROVE  BridgeInv' /\ Kept
    <2>1. u \in 1 .. Len(uploads) /\ uploads[u].object = o /\ bucket' = bucket
      BY <1>5 DEF UploadFor, PutPart
    <2> DEFINE etags == [uploads[u].etags EXCEPT ![p] = e]
               rec == [object |-> o, open |-> uploads[u].open, etags |-> etags]
    <2>0. uploads[u].etags[p] \in Nat
      BY <2>1, UploadFacts
    <2>2. e \in Nat
      BY <2>0 DEF NewEtags
    <2>3. etags \in [1 .. Parts[o] -> Nat] /\ uploads[u].open \in BOOLEAN
      BY <2>1, <2>2, UploadFacts
    <2>4. rec \in UploadRecords /\ rec.object = uploads[u].object
      BY <2>1, <2>3, RecordOfUpload
    <2>5. [uploads[u] EXCEPT !.etags[p] = e] = rec
      <3>1. [uploads[u] EXCEPT !.etags[p] = e] =
               [object |-> uploads[u].object, open |-> uploads[u].open, etags |-> etags]
        BY <2>1, UpdatedRecord, Zenon
      <3> QED  BY <2>1, <3>1
    <2>6. uploads' = [uploads EXCEPT ![u] = rec]
      BY <1>5, <2>5 DEF PutPart
    <2> HIDE DEF rec
    <2> QED
      BY <2>1, <2>4, <2>6, ReplaceUpload DEF BridgeTypes, Whole, Matches
  <1>6. ASSUME NEW o \in Objects, NEW u \in Nat, NEW list \in [1 .. Parts[o] -> Nat],
               UploadFor(u, o), Assemble(u, list),
               \A p \in 1 .. Parts[o] : list[p] # 0
        PROVE  BridgeInv' /\ Kept
    <2>1. u \in 1 .. Len(uploads) /\ uploads[u].object = o
      BY <1>6 DEF UploadFor
    <2> DEFINE rec == [object |-> o, open |-> FALSE, etags |-> uploads[u].etags]
               new == [state |-> "stored", upload |-> u, parts |-> 1 .. Parts[o]]
    <2>2. rec \in UploadRecords /\ rec.object = uploads[u].object
      BY <2>1, UploadFacts, RecordOfUpload
    <2>3. [uploads[u] EXCEPT !.open = FALSE] = rec
      BY <2>1, UpdatedRecord
    <2>4. uploads' = [uploads EXCEPT ![u] = rec]
      BY <1>6, <2>3 DEF Assemble
    <2>5. Listed(list) = 1 .. Parts[o]
      BY <1>6 DEF Listed
    <2>6. bucket' = [bucket EXCEPT ![o] = new]
      BY <1>6, <2>1, <2>5 DEF Assemble
    <2>7. new \in BucketRecords
      BY PartsNat DEF BucketRecords
    <2>8. /\ bucket' \in [Objects -> BucketRecords]
          /\ \A x \in Objects : bucket'[x] = IF x = o THEN new ELSE bucket[x]
      BY <2>6, <2>7 DEF BridgeTypes
    <2>9. Whole' /\ \A x \in Objects : Matches(x) => Matches(x)'
      BY <2>8 DEF Whole, Matches
    <2> HIDE DEF rec, new
    <2> QED
      BY <2>1, <2>2, <2>4, <2>8, <2>9, ReplaceUpload DEF BridgeTypes
  <1> QED
    BY <1>1, <1>2, <1>3, <1>4, <1>5, <1>6 DEF BridgeStep
-----------------------------------------------------------------------------
(* What a worker's next state relies on.                                     *)

\* A publication or a new upload never invalidates what a row relies on.
LEMMA Grows ==
    ASSUME Kept, NEW o \in Objects
    PROVE  Ids(o) \subseteq Ids(o)' /\ Published \subseteq Published'
  <1>1. \A u \in 1 .. Len(uploads) : UploadFor(u, o) => u \in 1 .. Len(uploads')
    BY DEF Kept, UploadFor
  <1>2. Ids(o) \subseteq Ids(o)'
    BY <1>1 DEF Kept, Ids
  <1> QED  BY <1>2 DEF Kept, Published

LEMMA WorkerGrows ==
    ASSUME NEW o, NEW w, NEW j, NEW ids, NEW ids2, NEW keys, NEW keys2,
           WorkerOK(o, w, j, ids, keys), ids \subseteq ids2, keys \subseteq keys2
    PROVE  WorkerOK(o, w, j, ids2, keys2)
  BY DEF WorkerOK

\* Row r's worker moves to a state that may rely on j, ids and keys.
Advance(r, j, ids, keys) ==
    \E w : work' = [work EXCEPT ![r] = w] /\ WorkerOK(Key(r), w, j, ids, keys)

LEMMA NoEventOK == NoEvent \in EventRows /\ NoEvent.kind = "none"
  BY BridgeAssumption DEF NoEvent, EventRows, Events

LEMMA RestingOK ==
    ASSUME NEW pc \in {"idle", "waiting", "settled", "dead", "head"},
           NEW o, NEW j, NEW ids, NEW keys
    PROVE  /\ WorkerOK(o, Resting(pc), j, ids, keys)
           /\ WorkerOK(o, [Resting(pc) EXCEPT !.restart = FALSE], j, ids, keys)
  <1>1. ASSUME NEW restart \in BOOLEAN, NEW looked \in BOOLEAN,
               NEW w, w = [pc |-> pc, try |-> 1, part |-> 0, looked |-> looked,
                           restart |-> restart, event |-> NoEvent]
        PROVE  WorkerOK(o, w, j, ids, keys)
    BY <1>1, NoEventOK, RecoveryAssumption DEF WorkerOK, Workers, PCs, Calls
  <1>2. ASSUME NEW looked, NEW restart, NEW new,
               NEW w, w = [pc |-> pc, try |-> 1, part |-> 0, looked |-> looked,
                           restart |-> restart, event |-> NoEvent]
        PROVE  [w EXCEPT !.restart = new] =
                  [pc |-> pc, try |-> 1, part |-> 0, looked |-> looked,
                   restart |-> new, event |-> NoEvent]
    BY <1>2
  <1>3. [Resting(pc) EXCEPT !.restart = FALSE] =
           [pc |-> pc, try |-> 1, part |-> 0, looked |-> FALSE,
            restart |-> FALSE, event |-> NoEvent]
    BY <1>2, Zenon DEF Resting
  <1>4. WorkerOK(o, [Resting(pc) EXCEPT !.restart = FALSE], j, ids, keys)
    BY <1>1, <1>3
  <1>5. WorkerOK(o, Resting(pc), j, ids, keys)
    BY <1>1 DEF Resting
  <1> QED  BY <1>4, <1>5

LEMMA WorkerFields ==
    ASSUME NEW w \in Workers
    PROVE  /\ w.pc \in PCs /\ w.try \in 1 .. Attempts /\ w.part \in Nat
           /\ w.looked \in BOOLEAN /\ w.restart \in BOOLEAN /\ w.event \in EventRows
           /\ w = [pc |-> w.pc, try |-> w.try, part |-> w.part, looked |-> w.looked,
                   restart |-> w.restart, event |-> w.event]
  BY DEF Workers

LEMMA CallAdvances ==
    ASSUME RowsOK, NEW r \in Rows, NEW j, NEW ids, NEW keys, NEW op \in Calls, NEW part \in Nat,
           Call(r, op, part),
           op = "part" => part \in 1 .. Parts[Key(r)],
           op = "complete" => Recorded(Key(r), j),
           op = "abort" => Key(r) \in keys
    PROVE  Advance(r, j, ids, keys)
  <1> DEFINE w == Worker(r, op, 1, part, NoEvent)
  <1>1. work[r].restart \in BOOLEAN
    BY WorkerFields DEF RowsOK
  <1>2. WorkerOK(Key(r), w, j, ids, keys)
    BY <1>1, NoEventOK, RecoveryAssumption DEF WorkerOK, Workers, Worker, PCs, Calls
  <1> QED  BY <1>2 DEF Advance, Call

LEMMA WriteAdvances ==
    ASSUME RowsOK, NEW r \in Rows, NEW j, NEW ids, NEW keys, NEW event \in EventRows,
           Write(r, event), event.kind # "none",
           event.kind = "created" => event.upload \in ids,
           event.kind = "part" => event.part \in 1 .. Parts[Key(r)],
           event.kind \in {"completed", "stored"} => Key(r) \in keys
    PROVE  Advance(r, j, ids, keys)
  <1> DEFINE w == Worker(r, "record", 1, 0, event)
  <1>1. work[r].restart \in BOOLEAN
    BY WorkerFields DEF RowsOK
  <1>2. WorkerOK(Key(r), w, j, ids, keys)
    BY <1>1, RecoveryAssumption DEF WorkerOK, Workers, Worker, PCs, Calls
  <1> QED  BY <1>2 DEF Advance, Write

\* The events that carry no part.
LEMMA EventAdvances ==
    ASSUME RowsOK, NEW r \in Rows, NEW j, NEW ids, NEW keys,
           NEW kind \in {"completed", "aborted", "stored", "failed"},
           Write(r, Event(r, kind)),
           kind \in {"completed", "stored"} => Key(r) \in keys
    PROVE  Advance(r, j, ids, keys)
  <1>1. Upload(r) \in 0 .. MaxUploads
    BY DEF RowsOK, JournalOK, JournalRows, Upload
  <1>2. Event(r, kind) \in EventRows /\ Event(r, kind).kind = kind
    BY <1>1 DEF Event, EventRows, Events
  <1> QED  BY <1>2, WriteAdvances

LEMMA FailedAdvances ==
    ASSUME RowsOK, NEW r \in Rows, NEW ids, NEW keys, Failed(r)
    PROVE  Advance(r, journal[r], ids, keys)
  BY EventAdvances DEF Failed

LEMMA StoredAdvances ==
    ASSUME RowsOK, NEW r \in Rows, NEW j, NEW ids, NEW keys, Stored(r), Key(r) \in keys
    PROVE  Advance(r, j, ids, keys)
  BY EventAdvances DEF Stored

LEMMA MissingAdvances ==
    ASSUME RowsOK, NEW r \in Rows, NEW ids, NEW keys, Missing(r)
    PROVE  Advance(r, journal[r], ids, keys)
  BY EventAdvances, FailedAdvances DEF Missing

LEMMA RetryAdvances ==
    ASSUME RowsOK, NEW r \in Rows, NEW ids, NEW keys, Retry(r), work[r].pc \in Calls,
           WorkerOK(Key(r), work[r], journal[r], ids, keys)
    PROVE  Advance(r, journal[r], ids, keys)
  <1>1. CASE ~(work[r].try < Attempts)
    BY <1>1, FailedAdvances DEF Retry
  <1>2. CASE work[r].try < Attempts
    <2> DEFINE w == Worker(r, work[r].pc, work[r].try + 1, work[r].part, NoEvent)
    <2>1. w \in Workers
      BY <1>2, WorkerFields, NoEventOK, RecoveryAssumption DEF RowsOK, Workers, Worker
    <2>2. WorkerOK(Key(r), w, journal[r], ids, keys)
      BY <2>1, NoEventOK DEF WorkerOK, Worker, Calls
    <2> QED  BY <1>2, <2>2 DEF Advance, Retry, Again
  <1> QED  BY <1>1, <1>2

LEMMA NextPartAdvances ==
    ASSUME RowsOK, NEW r \in Rows, NEW j, NEW ids, NEW keys, NextPart(r, j.etags)
    PROVE  Advance(r, j, ids, keys)
  <1>1. CASE Unrecorded(r, j.etags) = {}
    <2>1. Recorded(Key(r), j)
      BY <1>1 DEF Recorded, Unrecorded
    <2> QED  BY <1>1, <2>1, CallAdvances DEF NextPart, Calls
  <1>2. CASE Unrecorded(r, j.etags) # {}
    <2>1. PICK p \in Unrecorded(r, j.etags) : Call(r, "part", p)
      BY <1>2 DEF NextPart
    <2>2. p \in 1 .. Parts[Key(r)] /\ p \in Nat
      BY <2>1 DEF Unrecorded
    <2> QED  BY <2>1, <2>2, CallAdvances DEF Calls
  <1> QED  BY <1>1, <1>2
-----------------------------------------------------------------------------
(* The steps of the workers.                                                 *)

\* What is shown of every step: it keeps the invariant, it is one of the changes
\* of BridgeStep, and a media record changes only by an event of a worker.
StepOK ==
    /\ IInv' /\ BridgeStep
    /\ \/ UNCHANGED media
       \/ UntouchedR2 /\ \E r \in Rows : At(r, "record") /\ Apply(r, work[r].event)

LEMMA KeyOK == \A r \in Rows : Key(r) \in Objects
  BY RecoveryAssumption DEF Key

LEMMA LateKept ==
    ASSUME LateOK, Kept, BridgeInv, late' \subseteq late
    PROVE  LateOK'
  <1>1. ASSUME NEW q \in late'
        PROVE  RequestOK(q)'
    <2>1. RequestOK(q)
      BY <1>1 DEF LateOK
    <2>2. q.object \in Objects
      BY <2>1 DEF RequestOK
    <2>3. \A u : UploadFor(u, q.object) => u \in Nat
      BY DEF UploadFor
    <2> QED  BY <2>1, <2>2, <2>3 DEF RequestOK, Kept
  <1> QED  BY <1>1 DEF LateOK

\* What the rows rely on outlives every step that leaves their state alone.
LEMMA RowsKept ==
    ASSUME RowsOK, Kept, NEW r \in Rows
    PROVE  /\ JournalOK(Key(r), journal[r], Ids(Key(r))')
           /\ WorkerOK(Key(r), work[r], journal[r], Ids(Key(r))', Published')
           /\ media[r] = "stored" => Key(r) \in Published'
  <1>1. Ids(Key(r)) \subseteq Ids(Key(r))' /\ Published \subseteq Published'
    BY KeyOK, Grows
  <1>2. JournalOK(Key(r), journal[r], Ids(Key(r))')
    BY <1>1 DEF RowsOK, JournalOK
  <1>3. WorkerOK(Key(r), work[r], journal[r], Ids(Key(r))', Published')
    BY <1>1, WorkerGrows DEF RowsOK
  <1>4. media[r] = "stored" => Key(r) \in Published'
    BY <1>1 DEF RowsOK
  <1> QED  BY <1>2, <1>3, <1>4

\* A step of one worker that leaves the journal alone.
LEMMA AnyRow ==
    ASSUME IInv, BridgeStep, NEW r \in Rows, Busy(r),
           Advance(r, journal[r], Ids(Key(r))', Published'),
           UNCHANGED <<journal, media>>, LateOK', OthersOK'
    PROVE  StepOK
  <1>1. BridgeInv' /\ Kept
    BY BridgePreserves DEF IInv
  <1>4. PICK w : /\ work' = [work EXCEPT ![r] = w]
                 /\ WorkerOK(Key(r), w, journal[r], Ids(Key(r))', Published')
    BY DEF Advance
  <1>5. work' \in [Rows -> Workers] /\ \A s \in Rows : work'[s] = IF s = r THEN w ELSE work[s]
    BY <1>4 DEF IInv, RowsOK, WorkerOK
  <1>6. ASSUME NEW s \in Rows
        PROVE  WorkerOK(Key(s), work'[s], journal[s], Ids(Key(s))', Published')
    BY <1>1, <1>4, <1>5, RowsKept DEF IInv
  <1>7. RowsOK'
    <2>1. \A s \in Rows : Busy(s)' => Busy(s)
      BY <1>5 DEF Busy
    <2> QED  BY <1>1, <1>5, <1>6, <2>1, RowsKept DEF IInv, RowsOK, Key
  <1> QED  BY <1>1, <1>7 DEF IInv, StepOK

LEMMA OneRow ==
    ASSUME IInv, BridgeStep, NEW r \in Rows, Busy(r),
           Advance(r, journal[r], Ids(Key(r))', Published'), NotR2
    PROVE  StepOK
  <1>1. BridgeInv' /\ Kept
    BY BridgePreserves DEF IInv
  <1>2. LateOK'
    BY <1>1, LateKept DEF IInv, NotR2
  <1>3. OthersOK'
    BY DEF IInv, OthersOK, NotR2
  <1> QED  BY <1>2, <1>3, AnyRow DEF NotR2

\* A step of the environment at the bridge.
LEMMA NoRow ==
    ASSUME IInv, BridgeStep, UNCHANGED <<work, journal, media>>, LateOK', OthersOK'
    PROVE  StepOK
  <1>1. BridgeInv' /\ Kept
    BY BridgePreserves DEF IInv
  <1>2. RowsOK'
    BY <1>1, RowsKept DEF IInv, RowsOK, Key, Busy
  <1> QED  BY <1>1, <1>2 DEF IInv, StepOK

\* The IDs and the objects after a step at the bridge.
LEMMA IdsTyped ==
    ASSUME IInv, NEW r \in Rows
    PROVE  /\ Upload(r) \in 0 .. MaxUploads /\ Upload(r) \in Nat
           /\ journal[r].etags \in [1 .. Parts[Key(r)] -> Nat]
           /\ IsOpen(Upload(r)) => UploadFor(Upload(r), Key(r))
  <1>1. /\ Upload(r) \in 0 .. MaxUploads
        /\ journal[r].etags \in [1 .. Parts[Key(r)] -> Nat]
        /\ Upload(r) # 0 => Upload(r) \in Ids(Key(r))
    BY DEF IInv, RowsOK, JournalOK, JournalRows, Upload
  <1>2. IsOpen(Upload(r)) => Upload(r) # 0
    BY DEF IInv, BridgeInv, BridgeTypes, IsOpen
  <1> QED  BY <1>1, <1>2, BridgeAssumption DEF Ids

LEMMA TakeStep ==
    ASSUME IInv, NEW r \in Rows, Take(r)
    PROVE  StepOK
  <1>1. BridgeStep
    BY DEF Take, BridgeStep
  <1>2. Advance(r, journal[r], Ids(Key(r))', Published')
    BY CallAdvances DEF Take, IInv, Calls
  <1> QED  BY <1>1, <1>2, OneRow DEF Take, At, Busy, Calls

LEMMA HeadKeyStep ==
    ASSUME IInv, NEW r \in Rows, HeadKey(r)
    PROVE  StepOK
  <1> DEFINE ids == Ids(Key(r))'
             keys == Published'
  <1>1. BridgeStep /\ UntouchedR2
    BY DEF HeadKey, BridgeStep
  <1>2. Matches(Key(r)) => Key(r) \in keys
    BY <1>1, KeyOK DEF Published, Matches, UntouchedR2
  <1> SUFFICES Advance(r, journal[r], ids, keys)
    BY <1>1, OneRow DEF HeadKey, At, Busy, Calls
  <1>3. CASE Failed(r)
    BY <1>3, FailedAdvances DEF IInv
  <1>4. CASE Matches(Key(r)) /\ Stored(r)
    BY <1>2, <1>4, StoredAdvances DEF IInv
  <1>5. CASE Matches(Key(r)) /\ Call(r, "abort", 0)
    BY <1>2, <1>5, CallAdvances DEF IInv, Calls
  <1>6. CASE Call(r, "put", 0) \/ Call(r, "create", 0)
    BY <1>6, CallAdvances DEF IInv, Calls
  <1>7. CASE NextPart(r, journal[r].etags)
    BY <1>7, NextPartAdvances DEF IInv
  <1> QED  BY <1>3, <1>4, <1>5, <1>6, <1>7 DEF HeadKey

LEMMA PutStep ==
    ASSUME IInv, NEW r \in Rows, Put(r)
    PROVE  StepOK
  <1>1. BridgeStep
    BY KeyOK DEF Put, BridgeStep
  <1>2. IsAbsent(Key(r)) \/ Matches(Key(r)) => Key(r) \in Published'
    BY KeyOK
    DEF Put, PutIfAbsent, IInv, BridgeInv, BridgeTypes, Published, Matches, IsAbsent
  <1>3. Advance(r, journal[r], Ids(Key(r))', Published')
    BY <1>2, StoredAdvances, FailedAdvances DEF Put, IInv
  <1> QED  BY <1>1, <1>3, OneRow DEF Put, At, Busy, Calls

LEMMA LookUpStep ==
    ASSUME IInv, NEW r \in Rows, LookUp(r)
    PROVE  StepOK
  <1>1. BridgeStep
    BY DEF LookUp, BridgeStep
  <1>2. BridgeInv' /\ Kept
    BY <1>1, BridgePreserves DEF IInv
  <1>3. CASE IsAbsent(Key(r))
    <2> DEFINE w == [work[r] EXCEPT !.looked = TRUE]
    <2>1. work[r] \in Workers
      BY DEF IInv, RowsOK
    <2>2. ASSUME NEW looked \in BOOLEAN
          PROVE  /\ [work[r] EXCEPT !.looked = looked] \in Workers
                 /\ WorkerOK(Key(r), [work[r] EXCEPT !.looked = looked], journal[r],
                             Ids(Key(r))', Published')
      BY <1>2, <2>1, RowsKept DEF IInv, WorkerOK, Workers
    <2>3. work' = [work EXCEPT ![r] = w]
      BY <1>3 DEF LookUp
    <2>4. WorkerOK(Key(r), w, journal[r], Ids(Key(r))', Published')
      BY <2>2, Zenon
    <2> QED  BY <1>1, <2>3, <2>4, OneRow DEF Advance, LookUp, At, Busy, Calls
  <1>4. CASE ~IsAbsent(Key(r)) /\ ~Matches(Key(r))
    <2>1. Advance(r, journal[r], Ids(Key(r))', Published')
      BY <1>4, FailedAdvances DEF LookUp, IInv
    <2> QED  BY <1>1, <2>1, OneRow DEF LookUp, At, Busy, Calls
  <1>5. CASE ~IsAbsent(Key(r)) /\ Matches(Key(r))
    <2>1. Key(r) \in Published'
      BY <1>2, <1>5, KeyOK DEF Kept, Published
    <2>2. Advance(r, journal[r], Ids(Key(r))', Published')
      BY <1>5, <2>1, StoredAdvances, EventAdvances DEF LookUp, IInv
    <2> QED  BY <1>1, <2>2, OneRow DEF LookUp, At, Busy, Calls
  <1> QED  BY <1>3, <1>4, <1>5

LEMMA CreateStep ==
    ASSUME IInv, NEW r \in Rows, Create(r)
    PROVE  StepOK
  <1> DEFINE new == Len(uploads) + 1
             rec == [object |-> Key(r), open |-> TRUE, etags |-> NoEtags(Key(r))]
             event == [kind |-> "created", upload |-> new, part |-> 0, etag |-> 0]
  <1>1. BridgeStep
    BY KeyOK DEF Create, BridgeStep
  <1>2. /\ uploads \in Seq(UploadRecords) /\ Len(uploads) \in Nat
        /\ Len(uploads) < MaxUploads
        /\ uploads' = Append(uploads, rec)
    BY DEF Create, NewUpload, IInv, BridgeInv, BridgeTypes
  <1>3. NoEtags(Key(r)) \in [1 .. Parts[Key(r)] -> Nat]
    BY DEF NoEtags
  <1>4. rec \in UploadRecords /\ rec.object = Key(r)
    BY <1>3, KeyOK, RecordOfUpload
  <1> HIDE DEF rec
  <1>5. Len(uploads') = new /\ uploads'[new] = rec
    BY <1>2, <1>4, AppendProperties
  <1>6. new \in Ids(Key(r))'
    BY <1>2, <1>4, <1>5 DEF Ids, UploadFor, Key
  <1>7. new \in 0 .. MaxUploads
    BY <1>2, BridgeAssumption
  <1>8. event \in EventRows
    BY <1>7 DEF EventRows, Events
  <1>9. Write(r, event)
    BY DEF Create
  <1>10. Advance(r, journal[r], Ids(Key(r))', Published')
    BY <1>6, <1>8, <1>9, WriteAdvances DEF IInv
  <1> QED  BY <1>1, <1>10, OneRow DEF Create, At, Busy, Calls

LEMMA UploadPartStep ==
    ASSUME IInv, NEW r \in Rows, UploadPart(r)
    PROVE  StepOK
  <1> DEFINE part == work[r].part
             event(e) == [kind |-> "part", upload |-> Upload(r), part |-> part, etag |-> e]
  <1>1. CASE ~IsOpen(Upload(r))
    BY <1>1, MissingAdvances, OneRow DEF UploadPart, BridgeStep, IInv, At, Busy, Calls
  <1>2. CASE IsOpen(Upload(r))
    <2>1. PICK e \in NewEtags(Upload(r), part) :
             PutPart(Upload(r), part, e) /\ Write(r, event(e))
      BY <1>2 DEF UploadPart
    <2>2. part \in 1 .. Parts[Key(r)] /\ part \in Nat
      BY DEF UploadPart, At, IInv, RowsOK, WorkerOK
    <2>3. UploadFor(Upload(r), Key(r)) /\ Upload(r) \in 0 .. MaxUploads /\ Upload(r) \in Nat
      BY <1>2, IdsTyped
    <2>4. BridgeStep
      BY <2>1, <2>2, <2>3, KeyOK DEF BridgeStep
    <2>5. uploads[Upload(r)].etags[part] \in Nat
      BY <2>2, <2>3, UploadFacts DEF UploadFor, IInv, BridgeInv
    <2>6. e \in Nat
      BY <2>5 DEF NewEtags
    <2>7. event(e) \in EventRows
      BY <2>2, <2>3, <2>6 DEF EventRows, Events
    <2>8. Advance(r, journal[r], Ids(Key(r))', Published')
      BY <2>1, <2>2, <2>7, WriteAdvances DEF IInv
    <2> QED  BY <2>4, <2>8, OneRow DEF UploadPart, At, Busy, Calls
  <1> QED  BY <1>1, <1>2

\* What Assemble publishes.
LEMMA Assembled ==
    ASSUME IInv, NEW o \in Objects, NEW u, UploadFor(u, o),
           NEW list \in [1 .. Parts[o] -> Nat], \A p \in 1 .. Parts[o] : list[p] # 0,
           Assemble(u, list)
    PROVE  BridgeStep /\ o \in Published'
  <1>1. u \in Nat
    BY DEF UploadFor
  <1>2. BridgeStep
    BY <1>1 DEF BridgeStep
  <1>3. bucket'[o].state = "stored"
    BY DEF Assemble, UploadFor, IInv, BridgeInv, BridgeTypes
  <1> QED  BY <1>2, <1>3 DEF Published, Matches

LEMMA CompleteStep ==
    ASSUME IInv, NEW r \in Rows, Complete(r)
    PROVE  StepOK
  <1>1. CASE ~IsOpen(Upload(r))
    BY <1>1, MissingAdvances, OneRow DEF Complete, BridgeStep, IInv, At, Busy, Calls
  <1>2. CASE IsOpen(Upload(r)) /\ ~Accepts(Upload(r), journal[r].etags)
    <2>1. BridgeStep
      BY <1>2 DEF Complete, BridgeStep
    <2>2. BridgeInv' /\ Kept
      BY <2>1, BridgePreserves DEF IInv
    <2>3. Advance(r, journal[r], Ids(Key(r))', Published')
      BY <1>2, <2>2, RetryAdvances, RowsKept DEF Complete, At, Calls, IInv
    <2> QED  BY <2>1, <2>3, OneRow DEF Complete, At, Busy, Calls
  <1>3. CASE IsOpen(Upload(r)) /\ Accepts(Upload(r), journal[r].etags)
    <2>1. Assemble(Upload(r), journal[r].etags) /\ Write(r, Event(r, "completed"))
      BY <1>3 DEF Complete
    <2>2. \A p \in 1 .. Parts[Key(r)] : journal[r].etags[p] # 0
      BY DEF Complete, At, IInv, RowsOK, WorkerOK, Recorded
    <2>3. BridgeStep /\ Key(r) \in Published'
      BY <1>3, <2>1, <2>2, KeyOK, IdsTyped, Assembled
    <2>4. Advance(r, journal[r], Ids(Key(r))', Published')
      BY <2>1, <2>3, EventAdvances DEF IInv
    <2> QED  BY <2>3, <2>4, OneRow DEF Complete, At, Busy, Calls
  <1> QED  BY <1>1, <1>2, <1>3

LEMMA AbortStep ==
    ASSUME IInv, NEW r \in Rows, Abort(r)
    PROVE  StepOK
  <1>1. BridgeStep
    BY DEF Abort, BridgeStep
  <1>2. Kept
    BY <1>1, BridgePreserves DEF IInv
  <1>3. Key(r) \in Published
    BY DEF Abort, At, IInv, RowsOK, WorkerOK
  <1>4. Key(r) \in Published'
    BY <1>2, <1>3, KeyOK, Grows
  <1>5. Advance(r, journal[r], Ids(Key(r))', Published')
    BY <1>4, EventAdvances DEF Abort, IInv
  <1> QED  BY <1>1, <1>5, OneRow DEF Abort, At, Busy, Calls

LEMMA RejectStep ==
    ASSUME IInv, NEW r \in Rows, Reject(r)
    PROVE  StepOK
  <1>1. BridgeStep
    BY DEF Reject, BridgeStep
  <1>2. Advance(r, journal[r], Ids(Key(r))', Published')
    BY RestingOK DEF Reject, Advance
  <1> QED  BY <1>1, <1>2, OneRow DEF Reject, At, Busy, Calls

\* What an event does to the journal and the media record of its row.
LEMMA Applied ==
    ASSUME IInv, NEW r \in Rows, At(r, "record"), Apply(r, work[r].event)
    PROVE  /\ DOMAIN journal' = Rows /\ journal' = [s \in Rows |-> journal'[s]]
           /\ \A s \in Rows : s # r => journal'[s] = journal[s] /\ media'[s] = media[s]
           /\ JournalOK(Key(r), journal'[r], Ids(Key(r)))
           /\ media' \in [Rows -> {"none", "stored", "failed"}]
           /\ media'[r] = "stored" => Key(r) \in Published
  <1> DEFINE e == work[r].event
             j == journal[r]
  <1>1. /\ e \in EventRows
        /\ e.kind = "created" => e.upload \in Ids(Key(r))
        /\ e.kind = "part" => e.part \in 1 .. Parts[Key(r)]
        /\ e.kind = "stored" => Key(r) \in Published
    BY WorkerFields DEF IInv, RowsOK, WorkerOK
  <1>2. /\ JournalOK(Key(r), j, Ids(Key(r)))
        /\ j \in JournalRows(Key(r))
        /\ DOMAIN journal = Rows /\ journal = [s \in Rows |-> journal[s]]
    BY DEF IInv, RowsOK, JournalOK
  <1>3. e.upload \in 0 .. MaxUploads /\ e.etag \in Nat
    BY <1>1 DEF EventRows
  <1>4. /\ media' \in [Rows -> {"none", "stored", "failed"}]
        /\ \A s \in Rows : s # r => media'[s] = media[s]
        /\ media'[r] = "stored" => Key(r) \in Published
    BY <1>1 DEF Apply, IInv, RowsOK
  <1> DEFINE Goal == /\ DOMAIN journal' = Rows /\ journal' = [s \in Rows |-> journal'[s]]
                     /\ \A s \in Rows : s # r => journal'[s] = journal[s]
                     /\ JournalOK(Key(r), journal'[r], Ids(Key(r)))
  <1> SUFFICES Goal
    BY <1>4
  <1>5. CASE e.kind = "created"
    <2> DEFINE new == [active |-> TRUE, upload |-> e.upload, etags |-> NoEtags(Key(r))]
    <2>1. journal' = [journal EXCEPT ![r] = new]
      BY <1>5 DEF Apply
    <2>2. NoEtags(Key(r)) \in [1 .. Parts[Key(r)] -> Nat]
      BY DEF NoEtags
    <2>3. new \in JournalRows(Key(r)) /\ new.upload = e.upload
      BY <1>3, <2>2 DEF JournalRows
    <2>4. JournalOK(Key(r), new, Ids(Key(r)))
      BY <1>1, <1>5, <2>3 DEF JournalOK
    <2> HIDE DEF new
    <2> QED  BY <1>2, <2>1, <2>4
  <1>6. CASE e.kind = "part" /\ j.active /\ j.upload = e.upload
    <2> DEFINE new == [active |-> j.active, upload |-> j.upload,
                       etags |-> [j.etags EXCEPT ![e.part] = e.etag]]
    <2>1. journal' = [journal EXCEPT ![r].etags[e.part] = e.etag]
      BY <1>6 DEF Apply
    <2>2. j = [active |-> j.active, upload |-> j.upload, etags |-> j.etags]
      BY <1>2 DEF JournalRows
    <2>3. [j EXCEPT !.etags[e.part] = e.etag] = new
      BY <2>2
    <2>4. journal' = [journal EXCEPT ![r] = new]
      BY <2>1, <2>3
    <2>5. JournalOK(Key(r), new, Ids(Key(r)))
      BY <1>2, <1>3 DEF JournalOK, JournalRows
    <2> HIDE DEF new
    <2> QED  BY <1>2, <2>4, <2>5
  <1>7. CASE e.kind \in {"completed", "aborted"} /\ j.upload = e.upload
    <2>1. journal' = [journal EXCEPT ![r].active = FALSE]
      BY <1>7 DEF Apply
    <2>2. ASSUME NEW active \in BOOLEAN
          PROVE  JournalOK(Key(r), [j EXCEPT !.active = active], Ids(Key(r)))
      BY <1>2 DEF JournalOK, JournalRows
    <2>3. JournalOK(Key(r), [j EXCEPT !.active = FALSE], Ids(Key(r)))
      BY <2>2, Zenon
    <2> DEFINE new == [j EXCEPT !.active = FALSE]
    <2>4. journal' = [journal EXCEPT ![r] = new]
      BY <2>1
    <2> HIDE DEF new
    <2> QED  BY <1>2, <2>3, <2>4 DEF new
  <1>8. CASE journal' = journal
    BY <1>2, <1>8
  <1> QED  BY <1>5, <1>6, <1>7, <1>8 DEF Apply

LEMMA RecordStep ==
    ASSUME IInv, NEW r \in Rows, Record(r)
    PROVE  StepOK
  <1> DEFINE e == work[r].event
             ids == Ids(Key(r))
             keys == Published
  <1>1. At(r, "record") /\ Apply(r, e) /\ GoOn(r, e) /\ UntouchedR2
    BY DEF Record
  <1>2. Advance(r, journal'[r], ids, keys)
    <2>1. e \in EventRows /\ e.kind # "none"
      BY <1>1, WorkerFields DEF IInv, RowsOK, WorkerOK, At
    <2>2. CASE e.kind \in {"created", "part"}
      <3>1. NextPart(r, journal'[r].etags)
        BY <1>1, <2>2 DEF GoOn
      <3> QED  BY <3>1, NextPartAdvances DEF IInv
    <2>3. CASE e.kind = "aborted"
      BY <1>1, <2>3, RestingOK DEF GoOn, Advance
    <2>4. CASE e.kind = "completed"
      <3>1. Stored(r) /\ Key(r) \in keys
        BY <1>1, <2>4 DEF GoOn, IInv, RowsOK, WorkerOK
      <3> QED  BY <3>1, StoredAdvances DEF IInv
    <2>5. CASE e.kind \in {"stored", "failed"}
      BY <1>1, <2>5, RestingOK DEF GoOn, Advance
    <2> QED  BY <2>1, <2>2, <2>3, <2>4, <2>5 DEF EventRows, Events
  <1>3. PICK w : work' = [work EXCEPT ![r] = w] /\ WorkerOK(Key(r), w, journal'[r], ids, keys)
    BY <1>2 DEF Advance
  <1>4. BridgeStep /\ BridgeInv' /\ Kept
    <2>1. BridgeStep
      BY <1>1 DEF BridgeStep
    <2> QED  BY <2>1, BridgePreserves DEF IInv
  <1>5. \A s \in Rows : Ids(Key(s))' = Ids(Key(s)) /\ Published' = Published
    BY <1>1 DEF UntouchedR2, Ids, UploadFor, Published, Matches, Key
  <1>6. /\ DOMAIN journal' = Rows /\ journal' = [s \in Rows |-> journal'[s]]
        /\ \A s \in Rows : s # r => journal'[s] = journal[s] /\ media'[s] = media[s]
        /\ JournalOK(Key(r), journal'[r], Ids(Key(r)))
        /\ media' \in [Rows -> {"none", "stored", "failed"}]
        /\ media'[r] = "stored" => Key(r) \in Published
    BY <1>1, Applied
  <1>7. /\ work' \in [Rows -> Workers] /\ work'[r] = w
        /\ \A s \in Rows : s # r => work'[s] = work[s]
    BY <1>3 DEF IInv, RowsOK, WorkerOK
  <1>8. ASSUME NEW s \in Rows
        PROVE  /\ JournalOK(Key(s), journal'[s], Ids(Key(s)))
               /\ WorkerOK(Key(s), work'[s], journal'[s], Ids(Key(s)), Published)
               /\ media'[s] = "stored" => Key(s) \in Published
    BY <1>3, <1>6, <1>7 DEF IInv, RowsOK
  <1>12. ASSUME NEW s \in Rows, media'[s] = "stored"
         PROVE  work'[s].pc \notin Calls \cup {"waiting", "record"}
    <2>1. CASE s # r
      BY <1>6, <1>7, <1>12, <2>1 DEF IInv, RowsOK, Busy
    <2>2. CASE s = r
      <3>1. media[r] # "stored"
        BY <1>1 DEF At, IInv, RowsOK, Busy
      <3>2. e.kind = "stored"
        BY <1>1, <1>12, <2>2, <3>1 DEF Apply, IInv, RowsOK
      <3>3. work'[r] = Resting("settled")
        BY <1>1, <3>2 DEF GoOn, IInv, RowsOK
      <3> QED  BY <2>2, <3>3 DEF Resting, Calls
    <2> QED  BY <2>1, <2>2
  <1>9. RowsOK'
    BY <1>5, <1>6, <1>7, <1>8, <1>12 DEF RowsOK, Key, Busy
  <1>10. LateOK'
    BY <1>4, LateKept DEF IInv, Record
  <1>11. OthersOK'
    BY DEF Record, IInv, OthersOK, Appended
  <1> QED  BY <1>1, <1>4, <1>9, <1>10, <1>11 DEF IInv, StepOK

-----------------------------------------------------------------------------
(* The steps of the command and of its environment.                          *)

\* A run begins or ends: every worker rests.
LEMMA AllRest ==
    ASSUME IInv, UntouchedR2, LateOK', OthersOK',
           NEW pc \in [Rows -> {"idle", "waiting", "settled"}],
           work' = [s \in Rows |-> Resting(pc[s])],
           \A s \in Rows : pc[s] = "waiting" => media'[s] # "stored",
           \/ UNCHANGED <<journal, media>>
           \/ \E r \in Rows : At(r, "record") /\ Apply(r, work[r].event)
    PROVE  StepOK
  <1>1. BridgeStep
    BY DEF BridgeStep
  <1>2. BridgeInv' /\ Kept
    BY <1>1, BridgePreserves DEF IInv
  <1>3. \A s \in Rows : Ids(Key(s))' = Ids(Key(s)) /\ Published' = Published
    BY DEF UntouchedR2, Ids, UploadFor, Published, Matches, Key
  <1>4. /\ DOMAIN journal' = Rows /\ journal' = [s \in Rows |-> journal'[s]]
        /\ media' \in [Rows -> {"none", "stored", "failed"}]
        /\ \A s \in Rows : /\ JournalOK(Key(s), journal'[s], Ids(Key(s)))
                           /\ media'[s] = "stored" => Key(s) \in Published
    <2>1. CASE UNCHANGED <<journal, media>>
      BY <2>1 DEF IInv, RowsOK
    <2>2. ASSUME NEW r \in Rows, At(r, "record"), Apply(r, work[r].event)
          PROVE  /\ DOMAIN journal' = Rows /\ journal' = [s \in Rows |-> journal'[s]]
                 /\ media' \in [Rows -> {"none", "stored", "failed"}]
                 /\ \A s \in Rows : /\ JournalOK(Key(s), journal'[s], Ids(Key(s)))
                                    /\ media'[s] = "stored" => Key(s) \in Published
      <3>1. /\ DOMAIN journal' = Rows /\ journal' = [s \in Rows |-> journal'[s]]
            /\ \A s \in Rows : s # r => journal'[s] = journal[s] /\ media'[s] = media[s]
            /\ JournalOK(Key(r), journal'[r], Ids(Key(r)))
            /\ media' \in [Rows -> {"none", "stored", "failed"}]
            /\ media'[r] = "stored" => Key(r) \in Published
        BY <2>2, Applied
      <3> QED  BY <3>1 DEF IInv, RowsOK
    <2> QED  BY <2>1, <2>2
  <1>5. \A s \in Rows : WorkerOK(Key(s), work'[s], journal'[s], Ids(Key(s)), Published)
    BY RestingOK
  <1>6. work' \in [Rows -> Workers]
    BY <1>5 DEF WorkerOK
  <1>7. \A s \in Rows : media'[s] = "stored" =>
                           work'[s].pc \notin Calls \cup {"waiting", "record"}
    BY DEF Resting, Calls
  <1>8. RowsOK'
    BY <1>3, <1>4, <1>5, <1>6, <1>7 DEF RowsOK, Key, Busy
  <1> QED  BY <1>1, <1>2, <1>8 DEF IInv, StepOK

LEMMA StartStep ==
    ASSUME IInv, Start
    PROVE  StepOK
  <1> DEFINE pc == [r \in Rows |-> IF r \in Pending THEN "waiting" ELSE "settled"]
  <1>1. pc \in [Rows -> {"idle", "waiting", "settled"}]
    OBVIOUS
  <1>2. /\ work' = [r \in Rows |-> Resting(pc[r])]
        /\ \A r \in Rows : pc[r] = "waiting" => media'[r] # "stored"
    BY DEF Start, Pending
  <1>3. LateOK' /\ OthersOK'
    <2>1. BridgeStep
      BY DEF Start, BridgeStep
    <2>2. Kept
      BY <2>1, BridgePreserves DEF IInv
    <2> QED  BY <2>2, LateKept DEF Start, IInv, OthersOK
  <1> HIDE DEF pc
  <1> QED  BY <1>1, <1>2, <1>3, AllRest DEF Start

LEMMA FinishStep ==
    ASSUME IInv, Finish
    PROVE  StepOK
  <1> DEFINE pc == [r \in Rows |-> "idle"]
  <1>1. pc \in [Rows -> {"idle", "waiting", "settled"}]
    OBVIOUS
  <1>2. /\ work' = [r \in Rows |-> Resting(pc[r])]
        /\ \A r \in Rows : pc[r] = "waiting" => media'[r] # "stored"
    BY DEF Finish
  <1>3. LateOK'
    <2>1. BridgeStep
      BY DEF Finish, BridgeStep
    <2>2. Kept
      BY <2>1, BridgePreserves DEF IInv
    <2> QED  BY <2>2, LateKept DEF Finish, IInv
  <1>4. OthersOK'
    BY DEF Finish, IInv, OthersOK
  <1> HIDE DEF pc
  <1> QED  BY <1>1, <1>2, <1>3, <1>4, AllRest DEF Finish

\* The bridge relies on no more of a request than its worker knew.
LEMMA RequestsAreOK ==
    ASSUME IInv, NEW r \in Rows, work[r].pc \in Calls
    PROVE  RequestOK(Request(r))
  <1> DEFINE q == Request(r)
  <1>1. /\ q = [op |-> q.op, object |-> q.object, upload |-> q.upload, part |-> q.part,
                etags |-> q.etags, looked |-> q.looked]
        /\ q.op = work[r].pc /\ q.object = Key(r) /\ q.upload = Upload(r)
        /\ q.part = work[r].part /\ q.etags = journal[r].etags
        /\ q.looked = work[r].looked
    BY DEF Request
  <1>2. WorkerOK(Key(r), work[r], journal[r], Ids(Key(r)), Published)
    BY DEF IInv, RowsOK
  <1>3. work[r].looked \in BOOLEAN
    BY WorkerFields DEF IInv, RowsOK
  <1>4. journal[r].etags \in [1 .. Parts[Key(r)] -> Nat]
    BY IdsTyped
  <1>5. Upload(r) # 0 => UploadFor(Upload(r), Key(r))
    BY DEF IInv, RowsOK, JournalOK, Ids, Upload
  <1> HIDE DEF q
  <1>6. RequestOK(q)
    BY <1>1, <1>2, <1>3, <1>4, <1>5, KeyOK DEF RequestOK, WorkerOK, Recorded
  <1> QED  BY <1>6 DEF q

LEMMA LoseStep ==
    ASSUME IInv, NEW r \in Rows, Lose(r)
    PROVE  StepOK
  <1>1. BridgeStep
    BY DEF Lose, BridgeStep
  <1>2. BridgeInv' /\ Kept
    BY <1>1, BridgePreserves DEF IInv
  <1>3. Advance(r, journal[r], Ids(Key(r))', Published')
    BY <1>2, RetryAdvances, RowsKept DEF Lose, IInv
  <1>4. RequestOK(Request(r)) /\ \A q \in late : RequestOK(q)
    BY RequestsAreOK DEF Lose, IInv, LateOK
  <1>5. \A q \in late' : RequestOK(q)
    BY <1>4 DEF Lose
  <1>6. LateOK'
    BY <1>5 DEF LateOK, RequestOK, UploadFor, Lose, UntouchedR2
  <1>7. OthersOK'
    BY DEF Lose, Fault, IInv, OthersOK, journalVars, runVars
  <1> QED
    BY <1>1, <1>3, <1>6, <1>7, AnyRow
    DEF Lose, journalVars, At, Busy, Calls

LEMMA FailAppendStep ==
    ASSUME IInv, NEW r \in Rows, FailAppend(r)
    PROVE  StepOK
  <1>1. BridgeStep
    BY DEF FailAppend, BridgeStep
  <1>2. Kept
    BY <1>1, BridgePreserves DEF IInv
  <1>3. Advance(r, journal[r], Ids(Key(r))', Published')
    BY RestingOK DEF FailAppend, Advance
  <1>4. LateOK'
    BY <1>2, LateKept DEF FailAppend, IInv
  <1>5. OthersOK'
    BY DEF FailAppend, Fault, IInv, OthersOK
  <1> QED  BY <1>1, <1>3, <1>4, <1>5, AnyRow DEF FailAppend, At, Busy, Calls

LEMMA CrashStep ==
    ASSUME IInv, Crash
    PROVE  StepOK
  <1> DEFINE pc == [r \in Rows |-> "idle"]
  <1>1. pc \in [Rows -> {"idle", "waiting", "settled"}]
    OBVIOUS
  <1>2. /\ work' = [r \in Rows |-> Resting(pc[r])]
        /\ \A r \in Rows : pc[r] = "waiting" => media'[r] # "stored"
    BY DEF Crash
  <1>3. \A q \in late' : RequestOK(q)
    BY RequestsAreOK DEF Crash, IInv, LateOK
  <1>4. LateOK'
    BY <1>3 DEF LateOK, RequestOK, UploadFor, Crash, UntouchedR2
  <1>5. PICK r \in Rows : Interrupt(r)
    BY DEF Crash
  <1>6. OthersOK'
    <2>1. tail' \in {"clean", "unterminated", "torn"}
      BY <1>5 DEF Interrupt, journalVars, IInv, OthersOK
    <2>2. running' = FALSE /\ jammed' = FALSE /\ report' = report /\ faults' = faults + 1
      BY DEF Crash, Fault
    <2>3. running' \in BOOLEAN /\ jammed' \in BOOLEAN
      BY <2>2
    <2>4. report' \in BOOLEAN /\ faults' \in Nat
      BY <2>2 DEF IInv, OthersOK
    <2> QED  BY <2>1, <2>3, <2>4 DEF OthersOK
  <1>7. \/ UNCHANGED <<journal, media>>
        \/ At(r, "record") /\ Apply(r, work[r].event)
    BY <1>5 DEF Interrupt, journalVars
  <1> HIDE DEF pc
  <1> QED  BY <1>1, <1>2, <1>4, <1>6, <1>7, AllRest DEF Crash

LEMMA LateStep ==
    ASSUME IInv, NEW q \in late, Late(q)
    PROVE  StepOK
  <1>1. RequestOK(q) /\ q.object \in Objects
    BY DEF IInv, LateOK, RequestOK
  <1>2. ASSUME BridgeStep, late' \subseteq late
        PROVE  StepOK
    <2>1. LateOK' /\ OthersOK'
      BY <1>2, BridgePreserves, LateKept
      DEF IInv, OthersOK, Late, journalVars, runVars
    <2> QED  BY <1>2, <2>1, NoRow DEF Late, journalVars
  <1>3. CASE LatePut(q)
    BY <1>1, <1>2, <1>3 DEF LatePut, BridgeStep
  <1>4. CASE LateAbort(q)
    BY <1>2, <1>4 DEF LateAbort, BridgeStep
  <1>5. CASE LatePart(q)
    <2>1. CASE ~IsOpen(q.upload)
      BY <1>2, <1>5, <2>1 DEF LatePart, BridgeStep
    <2>2. CASE IsOpen(q.upload)
      <3>1. PICK e \in NewEtags(q.upload, q.part) : PutPart(q.upload, q.part, e)
        BY <1>5, <2>2 DEF LatePart
      <3>2. q.part \in 1 .. Parts[q.object]
        BY <1>1, <1>5 DEF LatePart, RequestOK
      <3>3. q.upload # 0
        BY <2>2 DEF IsOpen, IInv, BridgeInv, BridgeTypes
      <3>4. UploadFor(q.upload, q.object) /\ q.upload \in Nat
        BY <1>1, <1>5, <3>3 DEF LatePart, RequestOK, UploadFor
      <3>5. BridgeStep
        BY <1>1, <3>1, <3>2, <3>4 DEF BridgeStep
      <3> QED  BY <1>2, <1>5, <3>5 DEF LatePart
    <2> QED  BY <2>1, <2>2
  <1>6. CASE LateLookUp(q)
    <2>1. CASE ~IsAbsent(q.object)
      BY <1>2, <1>6, <2>1 DEF LateLookUp, BridgeStep
    <2>2. CASE IsAbsent(q.object)
      <3> DEFINE new == [op |-> q.op, object |-> q.object, upload |-> q.upload,
                         part |-> q.part, etags |-> q.etags, looked |-> TRUE]
      <3>1. ASSUME NEW looked
            PROVE  [q EXCEPT !.looked = looked] =
                      [op |-> q.op, object |-> q.object, upload |-> q.upload,
                       part |-> q.part, etags |-> q.etags, looked |-> looked]
        BY <1>1 DEF RequestOK
      <3>2. [q EXCEPT !.looked = TRUE] = new
        BY <3>1, Zenon
      <3>3. RequestOK(new)
        BY <1>1 DEF RequestOK
      <3> HIDE DEF new
      <3>4. late' = (late \ {q}) \cup {new} /\ UntouchedR2
        BY <1>6, <2>2, <3>2 DEF LateLookUp
      <3>5. \A x \in late' : RequestOK(x)
        BY <3>3, <3>4 DEF IInv, LateOK
      <3>6. LateOK'
        BY <3>4, <3>5 DEF LateOK, RequestOK, UploadFor, UntouchedR2
      <3>7. OthersOK' /\ BridgeStep
        BY <3>4 DEF IInv, OthersOK, Late, journalVars, runVars, BridgeStep
      <3> QED  BY <3>6, <3>7, NoRow DEF Late, journalVars
    <2> QED  BY <2>1, <2>2
  <1>7. CASE LateCreate(q)
    BY <1>1, <1>2, <1>7 DEF LateCreate, BridgeStep
  <1>8. CASE LateComplete(q)
    <2>1. CASE ~Accepts(q.upload, q.etags)
      BY <1>2, <1>8, <2>1 DEF LateComplete, BridgeStep
    <2>2. CASE Accepts(q.upload, q.etags)
      <3>1. Assemble(q.upload, q.etags)
        BY <1>8, <2>2 DEF LateComplete
      <3>2. q.upload # 0
        BY <2>2 DEF Accepts, IsOpen, IInv, BridgeInv, BridgeTypes
      <3>3. /\ UploadFor(q.upload, q.object)
            /\ q.etags \in [1 .. Parts[q.object] -> Nat]
            /\ \A p \in 1 .. Parts[q.object] : q.etags[p] # 0
        BY <1>1, <1>8, <3>2 DEF LateComplete, RequestOK
      <3>4. BridgeStep
        BY <1>1, <3>1, <3>3, Assembled
      <3> QED  BY <1>2, <1>8, <3>4 DEF LateComplete
    <2> QED  BY <2>1, <2>2
  <1> QED
    BY <1>3, <1>4, <1>5, <1>6, <1>7, <1>8 DEF Late

LEMMA ExpireStep ==
    ASSUME IInv, NEW u, Expire(u) \/ ExpireEarly(u)
    PROVE  StepOK
  <1>1. BridgeStep
    BY DEF Expire, ExpireEarly, BridgeStep
  <1>2. LateOK' /\ OthersOK'
    BY <1>1, BridgePreserves, LateKept
    DEF IInv, OthersOK, Expire, ExpireEarly, Fault, journalVars, runVars
  <1> QED
    BY <1>1, <1>2, NoRow DEF Expire, ExpireEarly, journalVars

LEMMA Stutter ==
    ASSUME IInv, UNCHANGED vars
    PROVE  StepOK
  <1>1. BridgeStep
    BY DEF BridgeStep, UntouchedR2, vars
  <1>2. LateOK' /\ OthersOK'
    BY <1>1, BridgePreserves, LateKept DEF IInv, OthersOK, vars
  <1> QED  BY <1>1, <1>2, NoRow DEF vars

LEMMA Initially ==
    ASSUME Init
    PROVE  IInv
  <1>1. BridgeTypes
    <2>1. bucket \in [Objects -> BucketRecords]
      BY DEF Init, BridgeInit, BucketRecords, Absent, InTheWay
    <2>2. uploads \in Seq(UploadRecords) /\ Len(uploads) = 0
      BY EmptySeq DEF Init, BridgeInit
    <2> QED  BY <2>1, <2>2, BridgeAssumption DEF BridgeTypes
  <1>2. \A o \in Objects : ~Matches(o)
    BY DEF Init, BridgeInit, Matches, Absent, InTheWay
  <1>3. ASSUME NEW r \in Rows
        PROVE  /\ JournalOK(Key(r), journal[r], Ids(Key(r)))
               /\ WorkerOK(Key(r), work[r], journal[r], Ids(Key(r)), Published)
    <2>1. NoEtags(Key(r)) \in [1 .. Parts[Key(r)] -> Nat]
      BY DEF NoEtags
    <2>2. journal[r] = [active |-> FALSE, upload |-> 0, etags |-> NoEtags(Key(r))]
      BY DEF Init, Key
    <2>3. JournalOK(Key(r), journal[r], Ids(Key(r)))
      BY <2>1, <2>2, BridgeAssumption DEF JournalOK, JournalRows
    <2>4. work[r] = Resting("idle")
      BY DEF Init
    <2> QED  BY <2>3, <2>4, RestingOK
  <1>4. RowsOK
    <2>1. work \in [Rows -> Workers]
      <3>1. \A r \in Rows : work[r] \in Workers
        BY <1>3 DEF WorkerOK
      <3> QED  BY <3>1 DEF Init
    <2> QED  BY <1>3, <2>1 DEF RowsOK, Init
  <1> QED  BY <1>1, <1>2, <1>4 DEF IInv, BridgeInv, Whole, LateOK, OthersOK, Init

LEMMA Inductive ==
    ASSUME IInv, [Next]_vars
    PROVE  StepOK
  <1>1. ASSUME NEW r \in Rows, WorkerStep(r)
        PROVE  StepOK
    BY <1>1, TakeStep, HeadKeyStep, PutStep, LookUpStep, CreateStep, UploadPartStep,
       CompleteStep, AbortStep, RecordStep, RejectStep DEF WorkerStep
  <1>2. CASE Environment
    BY <1>2, LoseStep, FailAppendStep, LateStep, CrashStep, ExpireStep DEF Environment
  <1> QED
    BY <1>1, <1>2, StartStep, FinishStep, Stutter DEF Next
-----------------------------------------------------------------------------
(* The theorems.                                                             *)

\* The inductive invariant: what the bucket holds is whole, and whatever a
\* worker, its journal or an abandoned request relies on is there.
THEOREM Invariance == Spec => []IInv
  <1>1. Init => IInv
    BY Initially
  <1>2. IInv /\ [Next]_vars => IInv'
    BY Inductive DEF StepOK
  <1> QED  BY <1>1, <1>2, PTL DEF Spec

LEMMA InvIsTyped ==
    ASSUME IInv
    PROVE  TypeOK
  <1>1. BridgeTypeOK
    <2>1. bucket \in [Objects -> [state : {"absent", "foreign", "stored"},
                                  upload : Nat, parts : SUBSET Nat]]
      BY DEF IInv, BridgeInv, BridgeTypes, BucketRecords
    <2>2. uploads \in Seq(UploadRecords) /\ DOMAIN uploads = 1 .. Len(uploads)
      BY DEF IInv, BridgeInv, BridgeTypes
    <2> QED
      BY <2>1, <2>2, UploadFacts DEF IInv, BridgeInv, BridgeTypes, BridgeTypeOK
  <1>2. DOMAIN journal = Rows /\ \A r \in Rows : journal[r] \in States(r)
    BY DEF IInv, RowsOK, JournalOK, JournalRows, States, Key
  <1> QED
    BY <1>1, <1>2 DEF IInv, RowsOK, LateOK, RequestOK, OthersOK, TypeOK

\* Every state of the executor, the bridge and the bucket has its type.
THEOREM TypeCorrect == Spec => []TypeOK
  <1>1. IInv => TypeOK
    BY InvIsTyped
  <1> QED  BY <1>1, Invariance, PTL

\* A step at the bridge publishes one object or none.
LEMMA OnePublication ==
    ASSUME BridgeInv, BridgeStep
    PROVE  Published' = Published \/ \E o \in Objects : Published' = Published \cup {o}
  <1>1. ASSUME bucket' = bucket
        PROVE  Published' = Published
    BY <1>1 DEF Published, Matches
  <1>2. ASSUME NEW o \in Objects, NEW new, bucket' = [bucket EXCEPT ![o] = new],
               new.state = "stored"
        PROVE  Published' = Published \cup {o}
    <2>1. \A x \in Objects : bucket'[x] = IF x = o THEN new ELSE bucket[x]
      BY <1>2 DEF BridgeInv, BridgeTypes
    <2> QED  BY <1>2, <2>1 DEF Published, Matches
  <1>3. ASSUME NEW o \in Objects, PutIfAbsent(o)
        PROVE  Published' = Published \/ Published' = Published \cup {o}
    <2>1. CASE ~IsAbsent(o)
      BY <1>1, <1>3, <2>1 DEF PutIfAbsent
    <2>2. CASE IsAbsent(o)
      <3> DEFINE new == [state |-> "stored", upload |-> 0, parts |-> 1 .. Parts[o]]
      <3>1. bucket' = [bucket EXCEPT ![o] = new] /\ new.state = "stored"
        BY <1>3, <2>2 DEF PutIfAbsent
      <3> HIDE DEF new
      <3> QED  BY <1>2, <3>1
    <2> QED  BY <2>1, <2>2
  <1>4. ASSUME NEW o \in Objects, NEW u \in Nat, NEW list, UploadFor(u, o), Assemble(u, list)
        PROVE  Published' = Published \cup {o}
    BY <1>2, <1>4 DEF Assemble, UploadFor
  <1>5. CASE UntouchedR2
    BY <1>1, <1>5 DEF UntouchedR2
  <1>6. CASE \E o \in Objects : NewUpload(o)
    BY <1>1, <1>6 DEF NewUpload
  <1>7. CASE \E u : Discard(u)
    BY <1>1, <1>7 DEF Discard
  <1>8. CASE \E u, p, e : PutPart(u, p, e)
    BY <1>1, <1>8 DEF PutPart
  <1> QED
    BY <1>3, <1>4, <1>5, <1>6, <1>7, <1>8 DEF BridgeStep

\* The executor implements the immutable store: in every interleaving of its
\* workers, requests given up, killed runs, failed appends and expiring
\* uploads, an object appears whole and stays, and no row is recorded as stored
\* before the object with its bytes is there.
THEOREM Implementation == Spec => ImplementsStore
  <1> DEFINE stored == {o \in Objects : Matches(o) /\ bucket[o].parts = 1 .. Parts[o]}
             preserved == {r \in Rows : media[r] = "stored"}
  <1>1. Init => Store!Init
    <2> SUFFICES ASSUME Init
                 PROVE  Store!Init
      OBVIOUS
    <2>1. \A o \in Objects : ~Matches(o)
      BY DEF Init, BridgeInit, Matches, Absent, InTheWay
    <2>2. \A r \in Rows : media[r] # "stored"
      BY DEF Init
    <2> QED  BY <2>1, <2>2 DEF Store!Init
  <1>2. ASSUME IInv, [Next]_vars
        PROVE  [Store!Next]_(Store!vars)
    <2>1. StepOK /\ IInv'
      BY <1>2, Inductive DEF StepOK
    <2>2. stored = Published
      BY <1>2 DEF IInv, BridgeInv, Whole, Published
    <2>3. stored' = Published'
      BY <2>1 DEF IInv, BridgeInv, Whole, Published
    <2>4. CASE UNCHANGED media
      <3>1. Published' = Published \/ \E o \in Objects : Published' = Published \cup {o}
        BY <1>2, <2>1, OnePublication DEF IInv, StepOK
      <3>2. preserved' = preserved
        BY <2>4
      <3>3. stored' = stored \/ \E o \in Objects : stored' = stored \cup {o}
        BY <2>2, <2>3, <3>1
      <3>4. CASE stored' = stored
        BY <3>2, <3>4 DEF Store!vars
      <3>5. CASE \E o \in Objects : stored' = stored \cup {o}
        BY <3>2, <3>5 DEF Store!Next, Store!Store
      <3> QED  BY <3>3, <3>4, <3>5
    <2>5. ASSUME UntouchedR2, NEW r \in Rows, At(r, "record"), Apply(r, work[r].event)
          PROVE  [Store!Next]_(Store!vars)
      <3>1. stored' = stored
        BY <2>5 DEF UntouchedR2, Matches
      <3>2. /\ media \in [Rows -> {"none", "stored", "failed"}]
            /\ media[r] # "stored"
            /\ work[r].event.kind = "stored" => Key(r) \in Published
        BY <1>2, <2>5 DEF IInv, RowsOK, WorkerOK, At, Busy
      <3>3. CASE work[r].event.kind = "stored"
        <4>1. preserved' = preserved \cup {r}
          BY <2>5, <3>2, <3>3 DEF Apply
        <4>2. Content[r] \in stored
          BY <2>2, <3>2, <3>3 DEF Key
        <4>3. Store!Preserve({r})
          BY <3>1, <4>1, <4>2 DEF Store!Preserve
        <4> QED  BY <4>3 DEF Store!Next
      <3>4. CASE work[r].event.kind # "stored"
        <4>1. preserved' = preserved
          BY <2>5, <3>2, <3>4 DEF Apply
        <4> QED  BY <3>1, <4>1 DEF Store!vars
      <3> QED  BY <3>3, <3>4
    <2> QED  BY <2>1, <2>4, <2>5 DEF StepOK
  <1> QED
    BY <1>1, <1>2, Invariance, PTL DEF Spec, ImplementsStore, Store!Spec
-----------------------------------------------------------------------------
(* What the journal records, R2 holds; a stored row has no upload open.      *)

\* What the journal of a row with key o says, ups being the uploads.
JournalClaims(o, j, m, ups) ==
    /\ j.active => /\ Parts[o] > 0 /\ j.upload # 0
                   /\ \A p \in 1 .. Parts[o] : j.etags[p] <= ups[j.upload].etags[p]
    /\ m = "stored" => ~j.active

\* What its worker is about to ask for or to record.
WorkerClaims(o, w, j, ids, ups) ==
    /\ w.pc = "create" => Parts[o] > 0 /\ ~j.active
    /\ w.pc = "put" => ~(Parts[o] > 0)
    /\ w.event.kind = "created" => Parts[o] > 0
    /\ w.event.kind = "part" =>
          /\ w.event.upload \in ids
          /\ w.event.etag <= ups[w.event.upload].etags[w.event.part]
    /\ w.event.kind = "stored" => ~j.active
    /\ w.event.kind = "completed" => w.event.upload = j.upload

ClaimsInv ==
    \A r \in Rows : /\ JournalClaims(Key(r), journal[r], media[r], uploads)
                    /\ WorkerClaims(Key(r), work[r], journal[r], Ids(Key(r)), uploads)

\* Etags only grow.
EtagsGrow ==
    \A u \in 1 .. Len(uploads) : \A p \in 1 .. Parts[uploads[u].object] :
        /\ uploads[u].etags[p] \in Nat /\ uploads'[u].etags[p] \in Nat
        /\ uploads[u].etags[p] <= uploads'[u].etags[p]

LEMMA RecordFacts ==
    ASSUME NEW rec \in UploadRecords
    PROVE  /\ rec.object \in Objects
           /\ \A p \in 1 .. Parts[rec.object] : rec.etags[p] \in Nat
  <1>1. PICK o \in Objects :
            rec \in [object : {o}, open : BOOLEAN, etags : [1 .. Parts[o] -> Nat]]
    BY DEF UploadRecords
  <1> QED
    BY <1>1

LEMMA EtagsKept ==
    ASSUME BridgeInv, BridgeStep
    PROVE  EtagsGrow
  <1>1. BridgeTypes /\ BridgeTypes' /\ Kept
    BY BridgePreserves DEF BridgeInv
  <1> SUFFICES ASSUME NEW u \in 1 .. Len(uploads),
                      NEW p \in 1 .. Parts[uploads[u].object]
               PROVE  /\ uploads[u].etags[p] \in Nat /\ uploads'[u].etags[p] \in Nat
                      /\ uploads[u].etags[p] <= uploads'[u].etags[p]
    BY DEF EtagsGrow
  <1>2. /\ uploads[u].object \in Objects /\ u \in Nat
        /\ uploads[u].etags[p] \in Nat
    <2>1. uploads[u] \in UploadRecords
      BY <1>1, ElementOfSeq DEF BridgeTypes
    <2>2. Len(uploads) \in Nat
      BY <1>1 DEF BridgeTypes
    <2> QED
      BY <2>1, <2>2, RecordFacts
  <1>3. u \in 1 .. Len(uploads') /\ uploads'[u].object = uploads[u].object
    <2>1. PICK o \in Objects : o = uploads[u].object
      BY <1>2
    <2>2. UploadFor(u, o)'
      BY <1>1, <1>2, <2>1 DEF Kept, UploadFor
    <2> QED
      BY <2>1, <2>2 DEF UploadFor
  <1>4. uploads'[u].etags[p] \in Nat
    <2>1. uploads'[u] \in UploadRecords
      BY <1>1, <1>3, ElementOfSeq DEF BridgeTypes
    <2> QED
      BY <1>3, <2>1, RecordFacts
  <1> DEFINE Goal == uploads[u].etags[p] <= uploads'[u].etags[p]
  <1> SUFFICES Goal
    BY <1>2, <1>4
  <1>5. uploads[u] = [object |-> uploads[u].object, open |-> uploads[u].open,
                      etags |-> uploads[u].etags]
    BY <1>1, UploadFacts
  <1>6. ASSUME uploads'[u] = uploads[u] PROVE Goal
    BY <1>2, <1>6
  <1>7. ASSUME NEW v, uploads' = [uploads EXCEPT ![v].open = FALSE] PROVE Goal
    <2>1. CASE u # v
      BY <1>6, <1>7, <2>1 DEF BridgeTypes
    <2>2. CASE u = v
      <3> DEFINE x == [uploads[u] EXCEPT !.open = FALSE]
      <3>1. uploads' = [uploads EXCEPT ![u] = x]
        BY <1>7, <2>2
      <3>2. x.etags = uploads[u].etags
        BY <1>1, UpdatedRecord
      <3> HIDE DEF x
      <3>3. uploads'[u] = x
        BY <1>1, <3>1 DEF BridgeTypes
      <3> QED
        BY <1>2, <3>2, <3>3
    <2> QED
      BY <2>1, <2>2
  <1>8. ASSUME NEW o \in Objects, NewUpload(o) PROVE Goal
    <2>1. uploads'[u] = uploads[u]
      BY <1>1, <1>8 DEF NewUpload, BridgeTypes
    <2> QED
      BY <1>6, <2>1
  <1>9. ASSUME NEW v \in Nat, NEW q, NEW e \in NewEtags(v, q), PutPart(v, q, e) PROVE Goal
    <2>1. CASE u # v
      BY <1>1, <1>6, <1>9, <2>1 DEF PutPart, BridgeTypes
    <2>2. CASE u = v
      <3>1. uploads'[u] = [uploads[u] EXCEPT !.etags[q] = e]
        BY <1>1, <1>9, <2>2 DEF PutPart, BridgeTypes
      <3>2. uploads'[u].etags = [uploads[u].etags EXCEPT ![q] = e]
        <4>1. uploads'[u] = [object |-> uploads[u].object, open |-> uploads[u].open,
                             etags |-> [uploads[u].etags EXCEPT ![q] = e]]
          BY <1>1, <3>1, UpdatedRecord, Zenon
        <4> QED
          BY <4>1
      <3>3. uploads[u].etags \in [1 .. Parts[uploads[u].object] -> Nat]
        BY <1>1, UploadFacts
      <3>4. CASE p = q
        BY <1>2, <1>9, <2>2, <3>2, <3>3, <3>4 DEF NewEtags
      <3>5. CASE p # q
        BY <1>2, <3>2, <3>3, <3>5
      <3> QED
        BY <3>4, <3>5
    <2> QED
      BY <2>1, <2>2
  <1> QED
    BY <1>6, <1>7, <1>8, <1>9
       DEF BridgeStep, UntouchedR2, PutIfAbsent, Discard, Assemble

LEMMA JournalClaimsGrow ==
    ASSUME BridgeInv, BridgeStep, NEW o \in Objects, NEW j, NEW m,
           JournalOK(o, j, Ids(o)), JournalClaims(o, j, m, uploads)
    PROVE  JournalClaims(o, j, m, uploads')
  <1> SUFFICES ASSUME j.active
               PROVE  \A p \in 1 .. Parts[o] : j.etags[p] <= uploads'[j.upload].etags[p]
    BY DEF JournalClaims
  <1>1. /\ j.upload \in 1 .. Len(uploads) /\ uploads[j.upload].object = o
        /\ \A p \in 1 .. Parts[o] : /\ j.etags[p] \in Nat
                                    /\ j.etags[p] <= uploads[j.upload].etags[p]
    BY DEF JournalOK, JournalRows, JournalClaims, Ids, UploadFor
  <1> QED
    BY <1>1, EtagsKept DEF EtagsGrow

LEMMA WorkerClaimsGrow ==
    ASSUME BridgeInv, BridgeStep, NEW o \in Objects, NEW w, NEW j, NEW keys,
           WorkerOK(o, w, j, Ids(o), keys), WorkerClaims(o, w, j, Ids(o), uploads)
    PROVE  WorkerClaims(o, w, j, Ids(o)', uploads')
  <1>1. Ids(o) \subseteq Ids(o)'
    BY BridgePreserves, Grows
  <1>2. ASSUME w.event.kind = "part"
        PROVE  w.event.etag <= uploads'[w.event.upload].etags[w.event.part]
    <2>1. /\ w.event.upload \in 1 .. Len(uploads) /\ uploads[w.event.upload].object = o
          /\ w.event.part \in 1 .. Parts[o]
          /\ w.event.etag <= uploads[w.event.upload].etags[w.event.part]
      BY <1>2 DEF WorkerOK, WorkerClaims, Ids, UploadFor
    <2>2. w.event.etag \in Nat
      BY WorkerFields DEF WorkerOK, EventRows
    <2> QED
      BY <2>1, <2>2, EtagsKept DEF EtagsGrow
  <1> QED
    BY <1>1, <1>2 DEF WorkerClaims

\* r's worker moves to a state whose claims hold with journal state j.
Claims(r, j) ==
    \E w : /\ work' = [work EXCEPT ![r] = w]
           /\ WorkerClaims(Key(r), w, j, Ids(Key(r))', uploads')

LEMMA OneClaim ==
    ASSUME IInv, ClaimsInv, BridgeStep, NEW r \in Rows, Claims(r, journal[r]),
           UNCHANGED <<journal, media>>
    PROVE  ClaimsInv'
  <1>1. PICK w : /\ work' = [work EXCEPT ![r] = w]
                 /\ WorkerClaims(Key(r), w, journal[r], Ids(Key(r))', uploads')
    BY DEF Claims
  <1>2. \A s \in Rows : work'[s] = IF s = r THEN w ELSE work[s]
    BY <1>1 DEF IInv, RowsOK
  <1>3. ASSUME NEW s \in Rows
        PROVE  /\ JournalClaims(Key(s), journal[s], media[s], uploads')
               /\ WorkerClaims(Key(s), work'[s], journal[s], Ids(Key(s))', uploads')
    <2>1. /\ JournalOK(Key(s), journal[s], Ids(Key(s)))
          /\ WorkerOK(Key(s), work[s], journal[s], Ids(Key(s)), Published)
      BY DEF IInv, RowsOK
    <2>2. /\ JournalClaims(Key(s), journal[s], media[s], uploads')
          /\ WorkerClaims(Key(s), work[s], journal[s], Ids(Key(s))', uploads')
      BY <2>1, KeyOK, JournalClaimsGrow, WorkerClaimsGrow DEF ClaimsInv, IInv
    <2> QED
      BY <1>1, <1>2, <2>2
  <1> QED
    BY <1>3 DEF ClaimsInv, Key

\* A step that leaves the rows alone.
LEMMA NoClaim ==
    ASSUME IInv, ClaimsInv, BridgeStep, UNCHANGED <<work, journal, media>>
    PROVE  ClaimsInv'
  <1>1. ASSUME NEW s \in Rows
        PROVE  /\ JournalClaims(Key(s), journal[s], media[s], uploads')
               /\ WorkerClaims(Key(s), work[s], journal[s], Ids(Key(s))', uploads')
    <2>1. /\ JournalOK(Key(s), journal[s], Ids(Key(s)))
          /\ WorkerOK(Key(s), work[s], journal[s], Ids(Key(s)), Published)
      BY DEF IInv, RowsOK
    <2> QED
      BY <2>1, KeyOK, JournalClaimsGrow, WorkerClaimsGrow DEF ClaimsInv, IInv
  <1> QED
    BY <1>1 DEF ClaimsInv, Key

LEMMA RestingClaims ==
    ASSUME NEW pc \in {"idle", "waiting", "settled", "dead", "head"},
           NEW o, NEW j, NEW ids, NEW ups
    PROVE  /\ WorkerClaims(o, Resting(pc), j, ids, ups)
           /\ WorkerClaims(o, [Resting(pc) EXCEPT !.restart = FALSE], j, ids, ups)
  <1>1. ASSUME NEW w, w.pc = pc, w.event = NoEvent
        PROVE  WorkerClaims(o, w, j, ids, ups)
    BY <1>1 DEF WorkerClaims, NoEvent
  <1>2. Resting(pc).pc = pc /\ Resting(pc).event = NoEvent
    BY DEF Resting
  <1>3. /\ [Resting(pc) EXCEPT !.restart = FALSE].pc = pc
        /\ [Resting(pc) EXCEPT !.restart = FALSE].event = NoEvent
    <2>1. ASSUME NEW w, w = Resting(pc), NEW v, v = [w EXCEPT !.restart = FALSE]
          PROVE  v.pc = pc /\ v.event = NoEvent
      BY <2>1 DEF Resting
    <2> QED
      BY <2>1
  <1> QED
    BY <1>1, <1>2, <1>3

LEMMA CallClaims ==
    ASSUME NEW r \in Rows, NEW j, NEW op \in Calls, NEW part, Call(r, op, part),
           op = "create" => Large(r) /\ ~j.active,
           op = "put" => ~Large(r)
    PROVE  Claims(r, j)
  <1>1. WorkerClaims(Key(r), Worker(r, op, 1, part, NoEvent), j, Ids(Key(r))', uploads')
    BY DEF WorkerClaims, Worker, NoEvent, Large, Calls
  <1> QED
    BY <1>1 DEF Claims, Call

LEMMA EventClaims ==
    ASSUME NEW r \in Rows, NEW j, NEW kind \in {"completed", "aborted", "stored", "failed"},
           Write(r, Event(r, kind)),
           kind = "stored" => ~j.active,
           kind = "completed" => Upload(r) = j.upload
    PROVE  Claims(r, j)
  <1>1. WorkerClaims(Key(r), Worker(r, "record", 1, 0, Event(r, kind)), j,
                     Ids(Key(r))', uploads')
    BY DEF WorkerClaims, Worker, Event
  <1> QED
    BY <1>1 DEF Claims, Write

LEMMA RetryClaims ==
    ASSUME ClaimsInv, NEW r \in Rows, Retry(r)
    PROVE  Claims(r, journal[r])
  <1>1. CASE Failed(r)
    BY <1>1, EventClaims DEF Failed
  <1>2. CASE Again(r)
    <2>1. WorkerClaims(Key(r), Worker(r, work[r].pc, work[r].try + 1, work[r].part, NoEvent),
                       journal[r], Ids(Key(r))', uploads')
      BY DEF ClaimsInv, WorkerClaims, Worker, NoEvent
    <2> QED
      BY <1>2, <2>1 DEF Claims, Again
  <1> QED
    BY <1>1, <1>2 DEF Retry

LEMMA MissingClaims ==
    ASSUME NEW r \in Rows, Missing(r)
    PROVE  Claims(r, journal[r])
  BY EventClaims DEF Missing, Failed

LEMMA NextPartClaims ==
    ASSUME NEW r \in Rows, NEW j, NextPart(r, j.etags)
    PROVE  Claims(r, j)
  BY CallClaims DEF NextPart, Calls

\* What recording an event leaves in the journal.
LEMMA RecordedClaims ==
    ASSUME IInv, ClaimsInv, NEW r \in Rows, At(r, "record"), Apply(r, work[r].event)
    PROVE  /\ \A s \in Rows : JournalClaims(Key(s), journal'[s], media'[s], uploads)
           /\ work[r].event.kind = "completed" => ~journal'[r].active
           /\ work[r].event.kind # "created" /\ ~journal[r].active => ~journal'[r].active
           /\ \A s \in Rows : s # r => journal'[s] = journal[s]
  <1> DEFINE e == work[r].event
             j == journal[r]
             o == Key(r)
  <1>1. /\ o \in Objects /\ JournalClaims(o, j, media[r], uploads)
        /\ WorkerClaims(o, work[r], j, Ids(o), uploads)
        /\ WorkerOK(o, work[r], j, Ids(o), Published)
        /\ JournalOK(o, j, Ids(o)) /\ j \in JournalRows(o)
        /\ DOMAIN journal = Rows /\ media[r] # "stored"
    BY KeyOK DEF ClaimsInv, IInv, RowsOK, Busy, At, JournalOK
  <1>2. \A s \in Rows : s # r => journal'[s] = journal[s] /\ media'[s] = media[s]
    BY Applied
  <1>3. \A s \in Rows : s # r => JournalClaims(Key(s), journal'[s], media'[s], uploads)
    BY <1>2 DEF ClaimsInv
  <1>4. e \in EventRows
    BY <1>1, WorkerFields DEF WorkerOK
  <1>5. media'[r] = IF e.kind \in {"stored", "failed"} THEN e.kind ELSE media[r]
    BY DEF Apply, IInv, RowsOK
  <1>6. CASE e.kind = "created"
    <2> DEFINE new == [active |-> TRUE, upload |-> e.upload, etags |-> NoEtags(o)]
    <2>1. journal'[r] = new
      BY <1>1, <1>6 DEF Apply
    <2>2. e.upload \in 1 .. Len(uploads) /\ uploads[e.upload].object = o
      BY <1>1, <1>6 DEF WorkerOK, Ids, UploadFor
    <2>3. \A p \in 1 .. Parts[o] : uploads[e.upload].etags[p] \in Nat
      BY <2>2, UploadFacts DEF IInv, BridgeInv
    <2>4. Parts[o] > 0 /\ e.upload # 0
      BY <1>1, <1>6, <2>2 DEF WorkerClaims
    <2>5. media'[r] # "stored"
      BY <1>1, <1>5, <1>6
    <2>6. JournalClaims(o, new, media'[r], uploads)
      BY <2>3, <2>4, <2>5 DEF JournalClaims, NoEtags
    <2> QED
      BY <1>2, <1>3, <1>6, <2>1, <2>6
  <1>7. CASE e.kind = "part" /\ j.active /\ j.upload = e.upload
    <2> DEFINE etags == [j.etags EXCEPT ![e.part] = e.etag]
               new == [active |-> j.active, upload |-> j.upload, etags |-> etags]
    <2>1. j = [active |-> j.active, upload |-> j.upload, etags |-> j.etags]
      BY <1>1 DEF JournalRows
    <2>2. [j EXCEPT !.etags[e.part] = e.etag] = new
      BY <2>1
    <2>3. journal' = [journal EXCEPT ![r] = new]
      BY <1>7, <2>2 DEF Apply
    <2>4. j.etags \in [1 .. Parts[o] -> Nat] /\ e.part \in 1 .. Parts[o]
      BY <1>1, <1>7 DEF JournalRows, WorkerOK
    <2>5. e.etag <= uploads[j.upload].etags[e.part]
      BY <1>1, <1>7 DEF WorkerClaims
    <2>6. \A p \in 1 .. Parts[o] : etags[p] <= uploads[j.upload].etags[p]
      BY <1>1, <1>7, <2>4, <2>5 DEF JournalClaims
    <2>7. Parts[o] > 0 /\ j.upload # 0 /\ media'[r] # "stored"
      BY <1>1, <1>5, <1>7 DEF JournalClaims
    <2> HIDE DEF etags
    <2>8. JournalClaims(o, new, media'[r], uploads)
      BY <2>6, <2>7 DEF JournalClaims
    <2> HIDE DEF new
    <2>9. journal'[r] = new
      BY <1>1, <2>3
    <2> QED
      BY <1>2, <1>3, <1>7, <2>8, <2>9
  <1>8. CASE e.kind \in {"completed", "aborted"} /\ j.upload = e.upload
    <2>1. ~journal'[r].active
      <3> DEFINE new == [j EXCEPT !.active = FALSE]
      <3>1. journal' = [journal EXCEPT ![r] = new]
        BY <1>8 DEF Apply
      <3>2. new.active = FALSE
        BY <1>1 DEF JournalRows
      <3> HIDE DEF new
      <3> QED
        BY <1>1, <3>1, <3>2
    <2> QED
      BY <1>2, <1>3, <2>1 DEF JournalClaims
  <1>9. CASE ~(e.kind = "created")
             /\ ~(e.kind = "part" /\ j.active /\ j.upload = e.upload)
             /\ ~(e.kind \in {"completed", "aborted"} /\ j.upload = e.upload)
    <2>1. journal' = journal
      BY <1>9 DEF Apply
    <2>2. e.kind # "completed"
      BY <1>1, <1>9 DEF WorkerClaims
    <2>3. media'[r] = "stored" => ~j.active
      BY <1>1, <1>5 DEF WorkerClaims
    <2>4. JournalClaims(o, j, media'[r], uploads)
      BY <1>1, <2>3 DEF JournalClaims
    <2> QED
      BY <1>2, <1>3, <2>1, <2>2, <2>4
  <1> QED
    BY <1>6, <1>7, <1>8, <1>9

LEMMA WorkerStepClaims ==
    ASSUME IInv, ClaimsInv, NEW r \in Rows, WorkerStep(r), BridgeStep
    PROVE  ClaimsInv'
  <1> DEFINE j == journal[r]
             u == Upload(r)
  <1>1. /\ JournalClaims(Key(r), j, media[r], uploads)
        /\ WorkerClaims(Key(r), work[r], j, Ids(Key(r)), uploads)
        /\ WorkerOK(Key(r), work[r], j, Ids(Key(r)), Published)
        /\ j.active => Large(r)
    BY DEF ClaimsInv, IInv, RowsOK, JournalClaims, Large
  <1>2. ASSUME Claims(r, j), UNCHANGED <<journal, media>> PROVE ClaimsInv'
    BY <1>2, OneClaim
  <1>3. CASE Take(r)
    BY <1>2, <1>3, CallClaims DEF Take, Calls, NotR2
  <1>4. CASE HeadKey(r)
    <2>1. Claims(r, j)
      <3>1. CASE Failed(r)
        BY <3>1, EventClaims DEF Failed
      <3>2. CASE Stored(r) /\ ~j.active
        BY <3>2, EventClaims DEF Stored
      <3>3. CASE Call(r, "abort", 0)
        BY <3>3, CallClaims DEF Calls
      <3>4. CASE Call(r, "put", 0) /\ ~Large(r)
        BY <3>4, CallClaims DEF Calls
      <3>5. CASE Call(r, "create", 0) /\ Large(r) /\ ~j.active
        BY <3>5, CallClaims DEF Calls
      <3>6. CASE NextPart(r, j.etags)
        BY <3>6, NextPartClaims
      <3> QED
        BY <1>1, <1>4, <3>1, <3>2, <3>3, <3>4, <3>5, <3>6 DEF HeadKey
    <2> QED
      BY <1>2, <1>4, <2>1 DEF HeadKey, NotR2
  <1>5. CASE Put(r)
    <2>1. ~j.active
      BY <1>1, <1>5 DEF Put, At, WorkerClaims, Large
    <2>2. Claims(r, j)
      BY <1>5, <2>1, EventClaims DEF Put, Stored, Failed
    <2> QED
      BY <1>2, <1>5, <2>2 DEF Put, NotR2
  <1>6. CASE LookUp(r)
    <2>1. CASE IsAbsent(Key(r))
      <3> DEFINE w == [work[r] EXCEPT !.looked = TRUE]
      <3>1. work' = [work EXCEPT ![r] = w]
        BY <1>6, <2>1 DEF LookUp
      <3>2. w.pc = work[r].pc /\ w.event = work[r].event
        BY <1>1 DEF WorkerOK, Workers
      <3> HIDE DEF w
      <3>3. WorkerClaims(Key(r), work[r], j, Ids(Key(r))', uploads')
        BY <1>1, KeyOK, WorkerClaimsGrow DEF IInv
      <3>4. WorkerClaims(Key(r), w, j, Ids(Key(r))', uploads')
        BY <3>2, <3>3 DEF WorkerClaims
      <3>5. Claims(r, j)
        BY <3>1, <3>4 DEF Claims
      <3> QED
        BY <1>2, <1>6, <3>5 DEF LookUp, NotR2
    <2>2. CASE ~IsAbsent(Key(r))
      <3>1. Claims(r, j)
        <4>1. CASE Failed(r)
          BY <4>1, EventClaims DEF Failed
        <4>2. CASE At(r, "create") /\ Stored(r)
          BY <1>1, <4>2, EventClaims DEF Stored, At, WorkerClaims
        <4>3. CASE Write(r, Event(r, "completed"))
          BY <4>3, EventClaims DEF Upload
        <4> QED
          BY <1>6, <2>2, <4>1, <4>2, <4>3 DEF LookUp
      <3> QED
        BY <1>2, <1>6, <3>1 DEF LookUp, NotR2
    <2> QED
      BY <2>1, <2>2
  <1>7. CASE Create(r)
    <2> DEFINE e == [kind |-> "created", upload |-> Len(uploads) + 1,
                     part |-> 0, etag |-> 0]
    <2>1. Parts[Key(r)] > 0
      BY <1>1, <1>7 DEF Create, At, WorkerClaims
    <2>2. WorkerClaims(Key(r), Worker(r, "record", 1, 0, e), j, Ids(Key(r))', uploads')
      BY <2>1 DEF WorkerClaims, Worker
    <2>3. Claims(r, j)
      BY <1>7, <2>2 DEF Claims, Create, Write
    <2> QED
      BY <1>2, <1>7, <2>3 DEF Create, NotR2
  <1>8. CASE UploadPart(r)
    <2> DEFINE p == work[r].part
               e(x) == [kind |-> "part", upload |-> u, part |-> p, etag |-> x]
    <2>1. CASE ~IsOpen(u)
      BY <1>2, <1>8, <2>1, MissingClaims DEF UploadPart, NotR2
    <2>2. CASE IsOpen(u)
      <3>1. PICK x \in NewEtags(u, p) : PutPart(u, p, x) /\ Write(r, e(x))
        BY <1>8, <2>2 DEF UploadPart
      <3>2. p \in 1 .. Parts[Key(r)] /\ UploadFor(u, Key(r)) /\ Key(r) \in Objects
        BY <1>1, <1>8, <2>2, IdsTyped, KeyOK DEF UploadPart, At, WorkerOK
      <3>3. u \in Ids(Key(r)) /\ u \in 1 .. Len(uploads)
        BY <3>2 DEF Ids, UploadFor
      <3>4. u \in Ids(Key(r))'
        BY <3>2, <3>3, BridgePreserves, Grows DEF IInv
      <3>5. uploads[u].etags[p] \in Nat
        BY <3>2, UploadFacts DEF UploadFor, IInv, BridgeInv
      <3>6. x \in Nat
        BY <3>1, <3>5 DEF NewEtags
      <3>7. uploads'[u].etags[p] = x
        <4> DEFINE new == [uploads[u] EXCEPT !.etags[p] = x]
                   etags == [uploads[u].etags EXCEPT ![p] = x]
        <4>1. uploads' = [uploads EXCEPT ![u] = new]
          BY <3>1 DEF PutPart
        <4>2. new = [object |-> uploads[u].object, open |-> uploads[u].open,
                     etags |-> etags]
          BY <3>3, UpdatedRecord, Zenon DEF IInv, BridgeInv
        <4>3. uploads[u].etags \in [1 .. Parts[uploads[u].object] -> Nat]
              /\ p \in 1 .. Parts[uploads[u].object]
          BY <3>2, <3>3, UploadFacts DEF UploadFor, IInv, BridgeInv
        <4>4. etags[p] = x
          BY <4>3
        <4> HIDE DEF etags
        <4>5. new.etags = etags
          BY <4>2
        <4> HIDE DEF new
        <4>6. uploads'[u] = new
          BY <3>3, <4>1 DEF IInv, BridgeInv, BridgeTypes
        <4> QED
          BY <4>4, <4>5, <4>6
      <3>8. WorkerClaims(Key(r), Worker(r, "record", 1, 0, e(x)), j, Ids(Key(r))', uploads')
        BY <3>4, <3>6, <3>7 DEF WorkerClaims, Worker
      <3>9. Claims(r, j)
        BY <3>1, <3>8 DEF Claims, Write
      <3> QED
        BY <1>2, <1>8, <3>9 DEF UploadPart, NotR2
    <2> QED
      BY <2>1, <2>2
  <1>9. CASE Complete(r)
    <2>1. Claims(r, j)
      <3>1. CASE Missing(r)
        BY <3>1, MissingClaims
      <3>2. CASE Write(r, Event(r, "completed"))
        BY <3>2, EventClaims DEF Upload
      <3>3. CASE Retry(r)
        BY <3>3, RetryClaims
      <3> QED
        BY <1>9, <3>1, <3>2, <3>3 DEF Complete
    <2> QED
      BY <1>2, <1>9, <2>1 DEF Complete, NotR2
  <1>10. CASE Abort(r)
    <2>1. Claims(r, j)
      BY <1>10, EventClaims DEF Abort, Upload
    <2> QED
      BY <1>2, <1>10, <2>1 DEF Abort, NotR2
  <1>11. CASE Reject(r)
    <2>1. Claims(r, j)
      BY <1>11, RestingClaims DEF Reject, Claims
    <2> QED
      BY <1>2, <1>11, <2>1 DEF Reject, NotR2
  <1>12. CASE Record(r)
    <2> DEFINE e == work[r].event
    <2>1. At(r, "record") /\ Apply(r, e) /\ GoOn(r, e) /\ UntouchedR2
      BY <1>12 DEF Record
    <2>2. /\ \A s \in Rows : JournalClaims(Key(s), journal'[s], media'[s], uploads)
          /\ e.kind = "completed" => ~journal'[r].active
          /\ \A s \in Rows : s # r => journal'[s] = journal[s]
      BY <2>1, RecordedClaims
    <2>3. e.kind \in Events /\ e.kind # "none"
      BY <1>1, <2>1, WorkerFields DEF WorkerOK, At, EventRows
    <2>4. Claims(r, journal'[r])
      <3>1. CASE e.kind \in {"created", "part"}
        BY <2>1, <3>1, NextPartClaims DEF GoOn
      <3>2. CASE e.kind = "aborted"
        BY <2>1, <3>2, RestingClaims DEF GoOn, Claims
      <3>3. CASE e.kind = "completed"
        BY <2>1, <2>2, <3>3, EventClaims DEF GoOn, Stored
      <3>4. CASE e.kind \in {"stored", "failed"}
        BY <2>1, <3>4, RestingClaims DEF GoOn, Claims
      <3> QED
        BY <2>3, <3>1, <3>2, <3>3, <3>4 DEF Events
    <2>5. PICK w : /\ work' = [work EXCEPT ![r] = w]
                    /\ WorkerClaims(Key(r), w, journal'[r], Ids(Key(r))', uploads')
      BY <2>4 DEF Claims
    <2>6. \A s \in Rows : work'[s] = IF s = r THEN w ELSE work[s]
      BY <2>5 DEF IInv, RowsOK
    <2>7. \A s \in Rows : Ids(Key(s))' = Ids(Key(s)) /\ uploads' = uploads
      BY <2>1 DEF UntouchedR2, Ids, UploadFor, Key
    <2>8. ASSUME NEW s \in Rows
           PROVE  WorkerClaims(Key(s), work'[s], journal'[s], Ids(Key(s))', uploads')
      <3>1. CASE s = r
        BY <2>5, <2>6, <3>1
      <3>2. CASE s # r
        BY <2>2, <2>6, <2>7, <3>2 DEF ClaimsInv
      <3> QED
        BY <3>1, <3>2
    <2> QED
      BY <2>2, <2>7, <2>8 DEF ClaimsInv, Key
  <1> QED
    BY <1>3, <1>4, <1>5, <1>6, <1>7, <1>8, <1>9, <1>10, <1>11, <1>12 DEF WorkerStep

\* A run begins, ends or dies.
LEMMA AllRestClaims ==
    ASSUME IInv, UntouchedR2,
           NEW pc \in [Rows -> {"idle", "waiting", "settled"}],
           work' = [s \in Rows |-> Resting(pc[s])],
           \A s \in Rows : JournalClaims(Key(s), journal'[s], media'[s], uploads)
    PROVE  ClaimsInv'
  <1>1. \A s \in Rows : WorkerClaims(Key(s), work'[s], journal'[s], Ids(Key(s))', uploads')
    BY RestingClaims
  <1> QED
    BY <1>1 DEF ClaimsInv, UntouchedR2, Key

LEMMA ClaimsInvariant ==
    ASSUME IInv, ClaimsInv, [Next]_vars
    PROVE  ClaimsInv'
  <1>1. BridgeStep
    BY Inductive DEF StepOK
  <1>2. ASSUME NEW r \in Rows, WorkerStep(r) PROVE ClaimsInv'
    BY <1>1, <1>2, WorkerStepClaims
  <1>3. CASE Start
    <2> DEFINE pc == [r \in Rows |-> IF r \in Pending THEN "waiting" ELSE "settled"]
    <2>1. pc \in [Rows -> {"idle", "waiting", "settled"}]
      OBVIOUS
    <2>2. work' = [s \in Rows |-> Resting(pc[s])]
      BY <1>3 DEF Start
    <2>3. UntouchedR2 /\ UNCHANGED <<journal, media>>
      BY <1>3 DEF Start
    <2> HIDE DEF pc
    <2> QED
      BY <2>1, <2>2, <2>3, AllRestClaims DEF ClaimsInv
  <1>4. CASE Finish
    <2> DEFINE pc == [r \in Rows |-> "idle"]
    <2>1. pc \in [Rows -> {"idle", "waiting", "settled"}]
      OBVIOUS
    <2>2. work' = [s \in Rows |-> Resting(pc[s])]
      BY <1>4 DEF Finish
    <2>3. UntouchedR2 /\ UNCHANGED <<journal, media>>
      BY <1>4 DEF Finish
    <2> HIDE DEF pc
    <2> QED
      BY <2>1, <2>2, <2>3, AllRestClaims DEF ClaimsInv
  <1>5. ASSUME NEW r \in Rows, Lose(r) PROVE ClaimsInv'
    <2>1. Claims(r, journal[r])
      BY <1>5, RetryClaims DEF Lose
    <2> QED
      BY <1>1, <1>5, <2>1, OneClaim DEF Lose, journalVars
  <1>6. ASSUME NEW r \in Rows, FailAppend(r) PROVE ClaimsInv'
    <2>1. Claims(r, journal[r])
      BY <1>6, RestingClaims DEF FailAppend, Claims
    <2> QED
      BY <1>1, <1>6, <2>1, OneClaim DEF FailAppend
  <1>7. ASSUME NEW q \in late, Late(q) PROVE ClaimsInv'
    BY <1>1, <1>7, NoClaim DEF Late, journalVars
  <1>8. CASE Crash
    <2> DEFINE pc == [r \in Rows |-> "idle"]
    <2>1. pc \in [Rows -> {"idle", "waiting", "settled"}]
      OBVIOUS
    <2>2. work' = [s \in Rows |-> Resting(pc[s])] /\ UntouchedR2
      BY <1>8 DEF Crash
    <2>3. \A s \in Rows : JournalClaims(Key(s), journal'[s], media'[s], uploads)
      <3>1. PICK r \in Rows : Interrupt(r)
        BY <1>8 DEF Crash
      <3>2. CASE UNCHANGED <<journal, media>>
        BY <3>2 DEF ClaimsInv
      <3>3. CASE At(r, "record") /\ Apply(r, work[r].event)
        BY <3>3, RecordedClaims
      <3> QED
        BY <3>1, <3>2, <3>3 DEF Interrupt, journalVars
    <2> HIDE DEF pc
    <2> QED
      BY <2>1, <2>2, <2>3, AllRestClaims
  <1>9. ASSUME NEW u, Expire(u) \/ ExpireEarly(u) PROVE ClaimsInv'
    BY <1>1, <1>9, NoClaim DEF Expire, ExpireEarly, journalVars
  <1>10. CASE UNCHANGED vars
    BY <1>1, <1>10, NoClaim DEF vars
  <1> QED
    BY <1>2, <1>3, <1>4, <1>5, <1>6, <1>7, <1>8, <1>9, <1>10 DEF Next, Environment

\* With what the journal and the workers claim of R2 the invariant stays inductive.
THEOREM ClaimsHold == Spec => [](IInv /\ ClaimsInv)
  <1>1. Init => IInv /\ ClaimsInv
    <2> SUFFICES ASSUME Init PROVE ClaimsInv
      BY Initially
    <2>1. \A r \in Rows : WorkerClaims(Key(r), work[r], journal[r], Ids(Key(r)), uploads)
      BY RestingClaims DEF Init
    <2> QED
      BY <2>1 DEF Init, ClaimsInv, JournalClaims
  <1>2. IInv /\ ClaimsInv /\ [Next]_vars => (IInv /\ ClaimsInv)'
    BY Inductive, ClaimsInvariant DEF StepOK
  <1> QED
    BY <1>1, <1>2, PTL DEF Spec

\* "Skips only recorded parts": for any rows, parts, workers, faults and torn
\* tails, R2 holds every part the journal has of an upload, under that upload's ID.
THEOREM JournalsAreBehind == Spec => []JournalBehindR2
  <1>1. IInv /\ ClaimsInv => JournalBehindR2
    <2> SUFFICES ASSUME IInv, ClaimsInv, NEW r \in Rows, journal[r].active
                 PROVE  /\ journal[r].upload \in DOMAIN uploads
                        /\ uploads[journal[r].upload].object = Key(r)
                        /\ \A p \in DOMAIN journal[r].etags :
                              journal[r].etags[p] <= uploads[journal[r].upload].etags[p]
      BY DEF JournalBehindR2
    <2>1. /\ JournalClaims(Key(r), journal[r], media[r], uploads)
          /\ JournalOK(Key(r), journal[r], Ids(Key(r)))
      BY DEF ClaimsInv, IInv, RowsOK
    <2>2. DOMAIN uploads = 1 .. Len(uploads) /\ DOMAIN journal[r].etags = 1 .. Parts[Key(r)]
      BY <2>1 DEF IInv, BridgeInv, BridgeTypes, JournalOK, JournalRows
    <2> QED
      BY <2>1, <2>2 DEF JournalClaims, JournalOK, Ids, UploadFor
  <1> QED
    BY <1>1, ClaimsHold, PTL

\* A row is recorded as stored only when the upload it had begun has been
\* completed or given up: nothing of its own stays open behind it.
THEOREM StoredRowsLeaveNothingOpen == Spec => []StoredRowsAreClosed
  <1>1. ClaimsInv => StoredRowsAreClosed
    BY DEF ClaimsInv, JournalClaims, StoredRowsAreClosed
  <1> QED
    BY <1>1, ClaimsHold, PTL
-----------------------------------------------------------------------------
(* What faults cost: the uploads that nobody knows of any more.              *)

\* The upload u is row r's: its journal or an event to be recorded has it.
Owns(r, u) ==
    \/ journal[r].active /\ journal[r].upload = u
    \/ work[r].event.kind = "created" /\ work[r].event.upload = u

\* Open uploads that nobody knows of, and requests that may still create one.
Orphans == {u \in 1 .. Len(uploads) : uploads[u].open /\ \A r \in Rows : ~Owns(r, u)}
LateCreates == {q \in late : q.op = "create"}

\* What the workers still may lose after a failed append.
Dead == {r \in Rows : At(r, "dead")}
AtRisk == IF jammed THEN Concurrency - Cardinality(Dead) ELSE 0

Closed(u, ups) == u = 0 \/ (u \in 1 .. Len(ups) /\ ~ups[u].open)

\* An upload is recorded as created only by a row without one, and as completed
\* or aborted only when it is closed.
OwnerOK(w, j, ups) ==
    /\ w.event.kind = "created" => w.pc = "record" /\ ~j.active
    /\ w.event.kind \in {"completed", "aborted"} => Closed(w.event.upload, ups)

OwnersOK == \A r \in Rows : OwnerOK(work[r], journal[r], uploads)
RestOK == ~running => ~jammed /\ \A r \in Rows : At(r, "idle")
TakenOK == IsFiniteSet(Taken) /\ Cardinality(Taken) <= Concurrency
PriceOK ==
    /\ IsFiniteSet(LateCreates)
    /\ Cardinality(Orphans) + Cardinality(LateCreates) + AtRisk <= Concurrency * faults

LeakInv == OwnersOK /\ RestOK /\ TakenOK /\ PriceOK

\* No upload is opened again.
OpensKept ==
    /\ Len(uploads') >= Len(uploads)
    /\ \A u \in 1 .. Len(uploads) : uploads'[u].open => uploads[u].open

LEMMA QuietR2 ==
    ASSUME BridgeInv,
           \/ UNCHANGED uploads
           \/ \E v : uploads' = [uploads EXCEPT ![v].open = FALSE]
           \/ \E v, q, e : uploads' = [uploads EXCEPT ![v].etags[q] = e]
    PROVE  OpensKept /\ Len(uploads') = Len(uploads)
  <1>0. uploads \in Seq(UploadRecords) /\ Len(uploads) \in Nat /\ DOMAIN uploads = 1 .. Len(uploads)
    BY DEF BridgeInv, BridgeTypes
  <1>1. CASE UNCHANGED uploads
    BY <1>0, <1>1 DEF OpensKept
  <1>2. ASSUME NEW v, uploads' = [uploads EXCEPT ![v].open = FALSE]
        PROVE  OpensKept /\ Len(uploads') = Len(uploads)
    <2> DEFINE x == [uploads[v] EXCEPT !.open = FALSE]
    <2>1. uploads' = [uploads EXCEPT ![v] = x]
      BY <1>2
    <2>2. v \in 1 .. Len(uploads) => x.open = FALSE
      BY UpdatedRecord DEF BridgeInv
    <2> HIDE DEF x
    <2>3. Len(uploads') = Len(uploads)
      BY <1>0, <2>1
    <2>4. \A u \in 1 .. Len(uploads) : uploads'[u] = IF u = v THEN x ELSE uploads[u]
      BY <1>0, <2>1
    <2> QED
      BY <1>0, <2>2, <2>3, <2>4 DEF OpensKept
  <1>3. ASSUME NEW v, NEW q, NEW e, uploads' = [uploads EXCEPT ![v].etags[q] = e]
        PROVE  OpensKept /\ Len(uploads') = Len(uploads)
    <2> DEFINE x == [uploads[v] EXCEPT !.etags[q] = e]
    <2>1. uploads' = [uploads EXCEPT ![v] = x]
      BY <1>3
    <2>2. ASSUME v \in 1 .. Len(uploads) PROVE x.open = uploads[v].open
      <3>0. BridgeTypes
        BY DEF BridgeInv
      <3>1. x = [object |-> uploads[v].object, open |-> uploads[v].open,
                 etags |-> [uploads[v].etags EXCEPT ![q] = e]]
        <4>1. \A p, y : [uploads[v] EXCEPT !.etags[p] = y] =
                 [object |-> uploads[v].object, open |-> uploads[v].open,
                  etags |-> [uploads[v].etags EXCEPT ![p] = y]]
          <5>1. /\ [uploads[v] EXCEPT !.open = FALSE] =
                      [object |-> uploads[v].object, open |-> FALSE, etags |-> uploads[v].etags]
                /\ \A p, y : [uploads[v] EXCEPT !.etags[p] = y] =
                      [object |-> uploads[v].object, open |-> uploads[v].open,
                       etags |-> [uploads[v].etags EXCEPT ![p] = y]]
            BY <2>2, <3>0, UpdatedRecord, Zenon
          <5> QED
            BY <5>1, Zenon
        <4> QED
          BY <4>1, Zenon
      <3> HIDE DEF x
      <3> QED
        BY <3>1
    <2> HIDE DEF x
    <2>3. Len(uploads') = Len(uploads)
      BY <1>0, <2>1
    <2>4. \A u \in 1 .. Len(uploads) : uploads'[u] = IF u = v THEN x ELSE uploads[u]
      BY <1>0, <2>1
    <2> QED
      BY <1>0, <2>2, <2>3, <2>4 DEF OpensKept
  <1> QED
    BY <1>1, <1>2, <1>3

LEMMA NewR2 ==
    ASSUME BridgeInv, NEW o, NewUpload(o)
    PROVE  /\ OpensKept /\ Len(uploads') = Len(uploads) + 1 /\ Len(uploads) \in Nat
           /\ \A u \in 1 .. Len(uploads') : u \notin 1 .. Len(uploads) => u = Len(uploads) + 1
  <1>0. uploads \in Seq(UploadRecords) /\ Len(uploads) \in Nat
    BY DEF BridgeInv, BridgeTypes
  <1>1. uploads' = Append(uploads, [object |-> o, open |-> TRUE, etags |-> NoEtags(o)])
    BY DEF NewUpload
  <1>2. Len(uploads') = Len(uploads) + 1 /\ \A u \in 1 .. Len(uploads) : uploads'[u] = uploads[u]
    BY <1>0, <1>1
  <1> QED
    BY <1>0, <1>2 DEF OpensKept

LEMMA DiscardCloses ==
    ASSUME BridgeInv, NEW u \in Nat, Discard(u), u # 0 => u \in 1 .. Len(uploads)
    PROVE  OpensKept /\ Len(uploads') = Len(uploads) /\ Closed(u, uploads')
  <1>0. uploads \in Seq(UploadRecords) /\ Len(uploads) \in Nat /\ DOMAIN uploads = 1 .. Len(uploads)
    BY DEF BridgeInv, BridgeTypes
  <1>1. OpensKept /\ Len(uploads') = Len(uploads)
    BY QuietR2 DEF Discard
  <1>2. CASE ~IsOpen(u)
    <2>1. uploads' = uploads /\ (u # 0 => ~uploads[u].open)
      BY <1>0, <1>2 DEF Discard, IsOpen
    <2> QED
      BY <1>0, <1>1, <2>1 DEF Closed
  <1>3. CASE IsOpen(u)
    <2> DEFINE x == [uploads[u] EXCEPT !.open = FALSE]
    <2>1. uploads' = [uploads EXCEPT ![u] = x] /\ u \in 1 .. Len(uploads)
      BY <1>0, <1>3 DEF Discard, IsOpen
    <2>2. x.open = FALSE
      BY <2>1, UpdatedRecord DEF BridgeInv
    <2> HIDE DEF x
    <2>3. uploads'[u].open = FALSE
      BY <1>0, <2>1, <2>2
    <2> QED
      BY <1>1, <2>1, <2>3 DEF Closed
  <1> QED
    BY <1>1, <1>2, <1>3

LEMMA ClosedStays ==
    ASSUME BridgeInv, OpensKept, NEW u, Closed(u, uploads)
    PROVE  Closed(u, uploads')
  <1>1. Len(uploads) \in Nat
    BY DEF BridgeInv, BridgeTypes
  <1>2. CASE u = 0
    BY <1>2 DEF Closed
  <1>3. CASE u # 0
    <2>1. u \in 1 .. Len(uploads) /\ ~uploads[u].open
      BY <1>3 DEF Closed
    <2>2. Len(uploads') \in Nat \/ Len(uploads') >= Len(uploads)
      BY DEF OpensKept
    <2>3. ~uploads'[u].open
      BY <2>1 DEF OpensKept
    <2> QED
      BY <1>1, <2>1, <2>3 DEF OpensKept, Closed
  <1> QED
    BY <1>2, <1>3

\* What another row claims stands when only r's state changes.
LEMMA OwnersKept ==
    ASSUME IInv, LeakInv, OpensKept, Len(uploads') \in Nat, NEW r \in Rows, NEW w,
           work' = [work EXCEPT ![r] = w],
           \A s \in Rows : s # r => journal'[s] = journal[s],
           OwnerOK(w, journal'[r], uploads')
    PROVE  OwnersOK'
  <1>1. \A s \in Rows : work'[s] = IF s = r THEN w ELSE work[s]
    BY DEF IInv, RowsOK
  <1>2. ASSUME NEW s \in Rows, s # r PROVE OwnerOK(work'[s], journal'[s], uploads')
    <2>1. OwnerOK(work[s], journal[s], uploads) /\ work'[s] = work[s] /\ journal'[s] = journal[s]
      BY <1>1, <1>2 DEF LeakInv, OwnersOK
    <2> QED
      BY <2>1, ClosedStays DEF OwnerOK, IInv
  <1> QED
    BY <1>1, <1>2 DEF OwnersOK

(* Counting.                                                                 *)

LEMMA OrphansAreFinite ==
    ASSUME BridgeInv
    PROVE  IsFiniteSet(Orphans) /\ Cardinality(Orphans) \in Nat
  <1>1. Len(uploads) \in Nat
    BY DEF BridgeInv, BridgeTypes
  <1>2. IsFiniteSet(1 .. Len(uploads))
    BY <1>1, FS_Interval
  <1>3. Orphans \in SUBSET (1 .. Len(uploads))
    BY DEF Orphans
  <1>4. IsFiniteSet(Orphans)
    BY <1>2, <1>3, FS_Subset
  <1> QED
    BY <1>4, FS_CardinalityType

LEMMA SmallerIsFinite ==
    ASSUME NEW S, IsFiniteSet(S), NEW T, T \subseteq S
    PROVE  /\ IsFiniteSet(T) /\ Cardinality(T) \in Nat /\ Cardinality(S) \in Nat
           /\ Cardinality(T) <= Cardinality(S)
  <1>1. T \in SUBSET S
    OBVIOUS
  <1> QED
    BY <1>1, FS_Subset, FS_CardinalityType

LEMMA OneMoreIsFinite ==
    ASSUME NEW S, IsFiniteSet(S), NEW x, NEW T, T \subseteq S \cup {x}
    PROVE  /\ IsFiniteSet(T) /\ Cardinality(T) \in Nat /\ Cardinality(S) \in Nat
           /\ Cardinality(T) <= Cardinality(S) + 1
  <1> DEFINE U == S \cup {x}
  <1>1. /\ IsFiniteSet(U)
        /\ Cardinality(U) = IF x \in S THEN Cardinality(S) ELSE Cardinality(S) + 1
    BY FS_AddElement
  <1>2. Cardinality(S) \in Nat
    BY FS_CardinalityType
  <1>3. Cardinality(U) <= Cardinality(S) + 1
    BY <1>1, <1>2
  <1> HIDE DEF U
  <1>4. T \subseteq U
    BY DEF U
  <1>5. /\ IsFiniteSet(T) /\ Cardinality(T) \in Nat /\ Cardinality(U) \in Nat
        /\ Cardinality(T) <= Cardinality(U)
    BY <1>1, <1>4, SmallerIsFinite
  <1> QED
    BY <1>2, <1>3, <1>5

LEMMA SumIsSmaller ==
    ASSUME NEW S, IsFiniteSet(S), NEW X, IsFiniteSet(X), NEW T, T \subseteq S \cup X
    PROVE  IsFiniteSet(T) /\ Cardinality(T) <= Cardinality(S) + Cardinality(X)
  <1>1. /\ IsFiniteSet(S \cup X) /\ Cardinality(S) \in Nat /\ Cardinality(X) \in Nat
        /\ Cardinality(S \cup X) = Cardinality(S) + Cardinality(X) - Cardinality(S \cap X)
    BY FS_Union, FS_CardinalityType
  <1>2. Cardinality(S \cap X) \in Nat
    <2>1. S \cap X \subseteq S
      OBVIOUS
    <2> QED
      BY <2>1, SmallerIsFinite
  <1>3. IsFiniteSet(T) /\ Cardinality(T) \in Nat /\ Cardinality(T) <= Cardinality(S \cup X)
    BY <1>1, SmallerIsFinite
  <1> QED
    BY <1>1, <1>2, <1>3

LEMMA SomeAreFinite ==
    ASSUME NEW n \in Nat, NEW S, S \subseteq 1 .. n
    PROVE  IsFiniteSet(S) /\ Cardinality(S) \in Nat
  <1>1. IsFiniteSet(1 .. n)
    BY FS_Interval
  <1> QED
    BY <1>1, SmallerIsFinite

\* What the failed workers D of a run leave to the pool to lose.
LEMMA RiskIsBounded ==
    ASSUME NEW T, IsFiniteSet(T), Cardinality(T) <= Concurrency, NEW D, D \subseteq T
    PROVE  /\ Cardinality(D) \in Nat /\ IsFiniteSet(D)
           /\ Concurrency - Cardinality(D) \in 0 .. Concurrency
  <1>1. IsFiniteSet(D) /\ Cardinality(D) \in Nat /\ Cardinality(D) <= Cardinality(T)
    BY SmallerIsFinite
  <1>2. Cardinality(T) \in Nat
    BY FS_CardinalityType
  <1> QED
    BY <1>1, <1>2, RecoveryAssumption

\* A state has its price if the state before it had, and no more is lost than a
\* fault of this step allows.
LEMMA PriceMoves ==
    ASSUME IInv, LeakInv, IsFiniteSet(LateCreates'),
           NEW a \in Int, NEW b \in Int, NEW c \in Int,
           Cardinality(Orphans') \in Nat, AtRisk' \in Nat,
           Cardinality(Orphans') <= Cardinality(Orphans) + a,
           Cardinality(LateCreates') <= Cardinality(LateCreates) + b,
           AtRisk' <= AtRisk + c,
           \/ faults' = faults /\ a + b + c <= 0
           \/ faults' = faults + 1 /\ a + b + c <= Concurrency
    PROVE  PriceOK'
  <1> DEFINE o == Cardinality(Orphans)
             p == Cardinality(Orphans')
             l == Cardinality(LateCreates)
             m == Cardinality(LateCreates')
  <1>1. l \in Nat /\ m \in Nat
    BY FS_CardinalityType DEF LeakInv, PriceOK
  <1>2. o \in Nat
    BY OrphansAreFinite DEF IInv
  <1>3. AtRisk \in Nat
    <2>1. Dead \subseteq Taken
      BY DEF Dead, Taken, At
    <2>2. Concurrency - Cardinality(Dead) \in 0 .. Concurrency
      BY <2>1, RiskIsBounded DEF LeakInv, TakenOK
    <2> QED
      BY <2>2, RecoveryAssumption DEF AtRisk
  <1>4. o + l + AtRisk <= Concurrency * faults
    BY DEF LeakInv, PriceOK
  <1>5. Concurrency * (faults + 1) = Concurrency * faults + Concurrency
        /\ Concurrency * faults \in Int
    <2>1. \A x, y \in Nat : x * (y + 1) = x * y + x /\ x * y \in Int
      OBVIOUS
    <2> QED
      BY <2>1, RecoveryAssumption DEF IInv, OthersOK
  <1>6. p + m + AtRisk' <= Concurrency * faults'
    <2> DEFINE paid == Concurrency * faults
               now == Concurrency * faults'
    <2>1. paid \in Int /\ Concurrency \in Nat
      BY <1>5, RecoveryAssumption
    <2>2. \/ now = paid /\ a + b + c <= 0
          \/ now = paid + Concurrency /\ a + b + c <= Concurrency
      BY <1>5
    <2>3. o + l + AtRisk <= paid
      BY <1>4
    <2> HIDE DEF o, p, l, m, paid, now
    <2>4. p \in Nat /\ p <= o + a /\ m <= l + b
      BY DEF o, p, l, m
    <2>5. p + m + AtRisk' <= now
      BY <1>1, <1>2, <1>3, <2>1, <2>2, <2>3, <2>4
    <2> QED
      BY <2>5 DEF now
  <1> QED
    BY <1>6 DEF PriceOK

-----------------------------------------------------------------------------
(* The steps of one row.                                                     *)

\* The uploads that a step of r leaves behind.
LEMMA OrphansOfStep ==
    ASSUME IInv, OpensKept, NEW r \in Rows, NEW w, work' = [work EXCEPT ![r] = w],
           \A s \in Rows : s # r => journal'[s] = journal[s], NEW X,
           \A u \in 1 .. Len(uploads') :
              uploads'[u].open /\ u \notin X =>
                 Owns(r, u)' \/ (u \in 1 .. Len(uploads) /\ ~Owns(r, u))
    PROVE  Orphans' \subseteq Orphans \cup X
  <1>1. \A s \in Rows : s # r => work'[s] = work[s]
    BY DEF IInv, RowsOK
  <1>2. ASSUME NEW u \in Orphans', u \notin X PROVE u \in Orphans
    <2>1. u \in 1 .. Len(uploads') /\ uploads'[u].open /\ \A s \in Rows : ~Owns(s, u)'
      BY <1>2 DEF Orphans
    <2>2. u \in 1 .. Len(uploads) /\ ~Owns(r, u) /\ uploads[u].open
      BY <1>2, <2>1 DEF OpensKept
    <2>3. \A s \in Rows : s # r => ~Owns(s, u)
      BY <1>1, <2>1 DEF Owns
    <2> QED
      BY <2>2, <2>3 DEF Orphans
  <1> QED
    BY <1>2

\* A worker under way goes on to another request, to what it has to record, or ends;
\* what it leaves behind is in X.
LEMMA RowGoesOn ==
    ASSUME IInv, LeakInv, BridgeInv', OpensKept, NEW r \in Rows, NEW w,
           work' = [work EXCEPT ![r] = w], \A s \in Rows : s # r => journal'[s] = journal[s],
           UNCHANGED running, jammed \/ ~jammed' \/ w.pc = "dead",
           work[r].pc \in Calls \cup {"record"},
           w.pc \in Calls \cup {"record", "settled", "dead"},
           OwnerOK(w, journal'[r], uploads'), NEW X,
           \A u \in 1 .. Len(uploads') :
              uploads'[u].open /\ u \notin X =>
                 Owns(r, u)' \/ (u \in 1 .. Len(uploads) /\ ~Owns(r, u))
    PROVE  /\ OwnersOK' /\ RestOK' /\ TakenOK'
           /\ Orphans' \subseteq Orphans \cup X /\ Cardinality(Orphans') \in Nat
           /\ Dead' = IF w.pc = "dead" THEN Dead \cup {r} ELSE Dead
           /\ r \notin Dead
  <1>1. \A s \in Rows : work'[s] = IF s = r THEN w ELSE work[s]
    BY DEF IInv, RowsOK
  <1>2. Len(uploads') \in Nat
    BY DEF BridgeInv, BridgeTypes
  <1>3. OwnersOK'
    BY <1>2, OwnersKept
  <1>4. running /\ running'
    BY DEF LeakInv, RestOK, At, Calls
  <1>5. Taken' \subseteq Taken
    BY <1>1 DEF Taken, Calls
  <1>6. TakenOK'
    <2>1. /\ IsFiniteSet(Taken') /\ Cardinality(Taken') \in Nat /\ Cardinality(Taken) \in Nat
          /\ Cardinality(Taken') <= Cardinality(Taken)
      BY <1>5, SmallerIsFinite DEF LeakInv, TakenOK
    <2> QED
      BY <2>1, RecoveryAssumption DEF LeakInv, TakenOK
  <1>7. Dead' = (IF w.pc = "dead" THEN Dead \cup {r} ELSE Dead) /\ r \notin Dead
    BY <1>1 DEF Dead, At, Calls
  <1>8. Orphans' \subseteq Orphans \cup X
    BY OrphansOfStep
  <1>9. Cardinality(Orphans') \in Nat
    BY <1>2, SomeAreFinite DEF Orphans
  <1> QED
    BY <1>3, <1>4, <1>6, <1>7, <1>8, <1>9 DEF RestOK

\* The new state of r's worker, when the uploads are ups afterwards.
Moves(r, j, ups) ==
    \E w : /\ work' = [work EXCEPT ![r] = w]
           /\ w.pc \in Calls \cup {"record"} /\ w.event.kind # "created"
           /\ OwnerOK(w, j, ups)

LEMMA CallMoves ==
    ASSUME NEW r \in Rows, NEW j, NEW ups, NEW op \in Calls, NEW part, Call(r, op, part)
    PROVE  Moves(r, j, ups)
  <1>1. LET w == Worker(r, op, 1, part, NoEvent)
        IN  w.pc \in Calls /\ w.event.kind = "none"
    BY DEF Worker, NoEvent
  <1> QED
    BY <1>1 DEF Moves, Call, OwnerOK

LEMMA EventMoves ==
    ASSUME NEW r \in Rows, NEW j, NEW ups,
           NEW kind \in {"completed", "aborted", "stored", "failed"},
           Write(r, Event(r, kind)),
           kind \in {"completed", "aborted"} => Closed(Upload(r), ups)
    PROVE  Moves(r, j, ups)
  <1>1. LET w == Worker(r, "record", 1, 0, Event(r, kind))
        IN  w.pc = "record" /\ w.event.kind = kind /\ w.event.upload = Upload(r)
    BY DEF Worker, Event
  <1> QED
    BY <1>1 DEF Moves, Write, OwnerOK

LEMMA RetryMoves ==
    ASSUME NEW r \in Rows, work[r].pc \in Calls, Retry(r), NEW ups
    PROVE  Moves(r, journal[r], ups)
  <1>1. CASE Failed(r)
    BY <1>1, EventMoves DEF Failed
  <1>2. CASE Again(r)
    <2>1. LET w == Worker(r, work[r].pc, work[r].try + 1, work[r].part, NoEvent)
          IN  w.pc \in Calls /\ w.event.kind = "none"
      BY DEF Worker, NoEvent
    <2> QED
      BY <1>2, <2>1 DEF Moves, Again, OwnerOK
  <1> QED
    BY <1>1, <1>2 DEF Retry

LEMMA MissingMoves ==
    ASSUME NEW r \in Rows, Missing(r), NEW ups, Closed(Upload(r), ups)
    PROVE  Moves(r, journal[r], ups)
  BY EventMoves DEF Missing, Failed

LEMMA NextPartMoves ==
    ASSUME NEW r \in Rows, NEW j, NEW ups, NextPart(r, j.etags)
    PROVE  Moves(r, j, ups)
  BY CallMoves DEF NextPart, Calls

\* The IDs that a row may hold.
LEMMA UploadInRange ==
    ASSUME IInv, NEW r \in Rows
    PROVE  Upload(r) \in Nat /\ (Upload(r) # 0 => Upload(r) \in 1 .. Len(uploads))
  BY IdsTyped DEF IInv, RowsOK, JournalOK, Ids, Upload

LEMMA MissingIsClosed ==
    ASSUME IInv, NEW r \in Rows, ~IsOpen(Upload(r))
    PROVE  Closed(Upload(r), uploads)
  <1>1. DOMAIN uploads = 1 .. Len(uploads)
    BY DEF IInv, BridgeInv, BridgeTypes
  <1> QED
    BY <1>1, UploadInRange DEF IsOpen, Closed

\* The steps of a worker at the bridge, but for the creation of an upload.
LEMMA BridgeMoves ==
    ASSUME IInv, LeakInv, NEW r \in Rows,
           \/ HeadKey(r) \/ Put(r) \/ LookUp(r) \/ UploadPart(r) \/ Complete(r) \/ Abort(r)
    PROVE  /\ OpensKept /\ Len(uploads') = Len(uploads)
           /\ Moves(r, journal[r], uploads') /\ work[r].pc \in Calls /\ NotR2
  <1>1. work[r].pc \in Calls /\ NotR2
    BY DEF HeadKey, Put, LookUp, UploadPart, Complete, Abort, At, Calls
  <1>2. ASSUME UNCHANGED uploads PROVE OpensKept /\ Len(uploads') = Len(uploads)
    BY <1>2, QuietR2 DEF IInv
  <1>3. BridgeInv /\ Upload(r) \in Nat /\ (Upload(r) # 0 => Upload(r) \in 1 .. Len(uploads))
    BY UploadInRange DEF IInv
  <1>4. CASE HeadKey(r)
    <2>1. UNCHANGED uploads
      BY <1>4 DEF HeadKey, UntouchedR2
    <2>2. Moves(r, journal[r], uploads')
      <3>1. CASE \E op \in Calls : Call(r, op, 0)
        BY <3>1, CallMoves
      <3>2. CASE Stored(r) \/ Failed(r)
        BY <3>2, EventMoves DEF Stored, Failed
      <3>3. CASE NextPart(r, journal[r].etags)
        BY <3>3, NextPartMoves
      <3> QED
        BY <1>4, <3>1, <3>2, <3>3 DEF HeadKey, Calls
    <2> QED
      BY <1>1, <1>2, <2>1, <2>2
  <1>5. CASE Put(r)
    <2>1. UNCHANGED uploads
      BY <1>5 DEF Put, PutIfAbsent
    <2>2. Moves(r, journal[r], uploads')
      BY <1>5, EventMoves DEF Put, Stored, Failed
    <2> QED
      BY <1>1, <1>2, <2>1, <2>2
  <1>6. CASE LookUp(r)
    <2>1. CASE IsAbsent(Key(r))
      <3> DEFINE w == [work[r] EXCEPT !.looked = TRUE]
      <3>1. work' = [work EXCEPT ![r] = w] /\ UNCHANGED uploads
        BY <1>6, <2>1 DEF LookUp, UntouchedR2
      <3>2. w.pc = work[r].pc /\ w.event = work[r].event
        BY DEF IInv, RowsOK, Workers
      <3> HIDE DEF w
      <3>3. w.event.kind # "created" /\ OwnerOK(w, journal[r], uploads)
        BY <1>1, <3>2 DEF LeakInv, OwnersOK, OwnerOK, Calls
      <3>4. Moves(r, journal[r], uploads')
        BY <1>1, <3>1, <3>2, <3>3 DEF Moves
      <3> QED
        BY <1>1, <1>2, <3>1, <3>4
    <2>2. CASE ~IsAbsent(Key(r)) /\ At(r, "complete")
      <3>1. Discard(Upload(r))
        BY <1>6, <2>2 DEF LookUp
      <3>2. OpensKept /\ Len(uploads') = Len(uploads) /\ Closed(Upload(r), uploads')
        BY <1>3, <3>1, DiscardCloses
      <3>3. Moves(r, journal[r], uploads')
        <4>1. CASE Failed(r)
          BY <4>1, EventMoves DEF Failed
        <4>2. CASE Stored(r)
          BY <4>2, EventMoves DEF Stored
        <4>3. CASE Write(r, Event(r, "completed"))
          BY <3>2, <4>3, EventMoves
        <4> QED
          BY <1>6, <2>2, <4>1, <4>2, <4>3 DEF LookUp
      <3> QED
        BY <1>1, <3>2, <3>3
    <2>3. CASE ~IsAbsent(Key(r)) /\ ~At(r, "complete")
      <3>1. UNCHANGED uploads /\ (Failed(r) \/ Stored(r))
        BY <1>6, <2>3 DEF LookUp, UntouchedR2, At
      <3>2. Moves(r, journal[r], uploads')
        BY <3>1, EventMoves DEF Failed, Stored
      <3> QED
        BY <1>1, <1>2, <3>1, <3>2
    <2> QED
      BY <2>1, <2>2, <2>3
  <1>7. CASE UploadPart(r)
    <2>1. CASE ~IsOpen(Upload(r))
      <3>1. UNCHANGED uploads /\ Missing(r)
        BY <1>7, <2>1 DEF UploadPart, UntouchedR2
      <3>2. Closed(Upload(r), uploads')
        BY <2>1, <3>1, MissingIsClosed
      <3> QED
        BY <1>1, <1>2, <3>1, <3>2, MissingMoves
    <2>2. CASE IsOpen(Upload(r))
      <3>1. PICK e \in NewEtags(Upload(r), work[r].part) :
               /\ PutPart(Upload(r), work[r].part, e)
               /\ Write(r, [kind |-> "part", upload |-> Upload(r), part |-> work[r].part, etag |-> e])
        BY <1>7, <2>2 DEF UploadPart
      <3>2. OpensKept /\ Len(uploads') = Len(uploads)
        BY <1>3, <3>1, QuietR2 DEF PutPart
      <3>3. LET w == Worker(r, "record", 1, 0, [kind |-> "part", upload |-> Upload(r),
                                                part |-> work[r].part, etag |-> e])
            IN  w.pc = "record" /\ w.event.kind = "part"
        BY DEF Worker
      <3>4. Moves(r, journal[r], uploads')
        BY <3>1, <3>3 DEF Moves, Write, OwnerOK
      <3> QED
        BY <1>1, <3>2, <3>4
    <2> QED
      BY <2>1, <2>2
  <1>8. CASE Complete(r)
    <2>1. CASE ~IsOpen(Upload(r))
      <3>1. UNCHANGED uploads /\ Missing(r)
        BY <1>8, <2>1 DEF Complete, UntouchedR2
      <3>2. Closed(Upload(r), uploads')
        BY <2>1, <3>1, MissingIsClosed
      <3> QED
        BY <1>1, <1>2, <3>1, <3>2, MissingMoves
    <2>2. CASE IsOpen(Upload(r)) /\ Accepts(Upload(r), journal[r].etags)
      <3>1. /\ Assemble(Upload(r), journal[r].etags)
            /\ Write(r, Event(r, "completed"))
        BY <1>8, <2>2 DEF Complete
      <3>2. uploads' = [uploads EXCEPT ![Upload(r)].open = FALSE]
        BY <3>1 DEF Assemble
      <3>3. OpensKept /\ Len(uploads') = Len(uploads)
        BY <1>3, <3>2, QuietR2
      <3>4. Closed(Upload(r), uploads')
        <4> DEFINE x == [uploads[Upload(r)] EXCEPT !.open = FALSE]
        <4>1. uploads' = [uploads EXCEPT ![Upload(r)] = x] /\ Upload(r) \in 1 .. Len(uploads)
          BY <1>3, <2>2, <3>2 DEF IsOpen, BridgeInv, BridgeTypes
        <4>2. x.open = FALSE
          BY <1>3, <4>1, UpdatedRecord DEF BridgeInv
        <4> HIDE DEF x
        <4>3. uploads'[Upload(r)].open = FALSE
          BY <1>3, <4>1, <4>2 DEF BridgeInv, BridgeTypes
        <4> QED
          BY <3>3, <4>1, <4>3 DEF Closed
      <3> QED
        BY <1>1, <3>1, <3>3, <3>4, EventMoves
    <2>3. CASE IsOpen(Upload(r)) /\ ~Accepts(Upload(r), journal[r].etags)
      <3>1. UNCHANGED uploads /\ Retry(r)
        BY <1>8, <2>3 DEF Complete, UntouchedR2
      <3> QED
        BY <1>1, <1>2, <3>1, RetryMoves
    <2> QED
      BY <2>1, <2>2, <2>3
  <1>9. CASE Abort(r)
    <2>1. Discard(Upload(r)) /\ Write(r, Event(r, "completed"))
      BY <1>9 DEF Abort
    <2>2. OpensKept /\ Len(uploads') = Len(uploads) /\ Closed(Upload(r), uploads')
      BY <1>3, <2>1, DiscardCloses
    <2> QED
      BY <1>1, <2>1, <2>2, EventMoves
  <1> QED
    BY <1>4, <1>5, <1>6, <1>7, <1>8, <1>9

\* With no more orphans, requests and risk than before, the price stands.
LEMMA NothingLost ==
    ASSUME IInv, LeakInv, Orphans' \subseteq Orphans, LateCreates' \subseteq LateCreates,
           Cardinality(Orphans') \in Nat, AtRisk' \in Nat, AtRisk' <= AtRisk,
           faults' = faults \/ faults' = faults + 1
    PROVE  PriceOK'
  <1>1. Cardinality(Orphans') <= Cardinality(Orphans) + 0
    BY OrphansAreFinite, SmallerIsFinite DEF IInv
  <1>2. /\ IsFiniteSet(LateCreates')
        /\ Cardinality(LateCreates') <= Cardinality(LateCreates) + 0
    BY SmallerIsFinite DEF LeakInv, PriceOK
  <1>3. AtRisk' <= AtRisk + 0
    <2>1. Dead \subseteq Taken
      BY DEF Dead, Taken, At
    <2>2. AtRisk \in Nat
      BY <2>1, RiskIsBounded, RecoveryAssumption DEF LeakInv, TakenOK, AtRisk
    <2> QED
      BY <2>2
  <1>4. 0 + 0 + 0 <= 0 /\ 0 + 0 + 0 <= Concurrency /\ 0 \in Int
    BY RecoveryAssumption
  <1> QED
    BY <1>1, <1>2, <1>3, <1>4, PriceMoves

LEMMA RiskIsANumber ==
    ASSUME TakenOK
    PROVE  AtRisk \in Nat /\ AtRisk <= Concurrency
  <1>1. Dead \subseteq Taken
    BY DEF Dead, Taken, At
  <1>2. Concurrency - Cardinality(Dead) \in 0 .. Concurrency
    BY <1>1, RiskIsBounded DEF TakenOK
  <1> QED
    BY <1>2, RecoveryAssumption DEF AtRisk

LEMMA BridgeLeaks ==
    ASSUME IInv, IInv', LeakInv, NEW r \in Rows,
           \/ HeadKey(r) \/ Put(r) \/ LookUp(r) \/ UploadPart(r) \/ Complete(r) \/ Abort(r)
    PROVE  LeakInv'
  <1>1. /\ OpensKept /\ Len(uploads') = Len(uploads)
        /\ Moves(r, journal[r], uploads') /\ work[r].pc \in Calls /\ NotR2
    BY BridgeMoves
  <1>2. PICK w : /\ work' = [work EXCEPT ![r] = w]
                 /\ w.pc \in Calls \cup {"record"} /\ w.event.kind # "created"
                 /\ OwnerOK(w, journal[r], uploads')
    BY <1>1 DEF Moves
  <1>3. /\ UNCHANGED <<journal, running, jammed, late, faults>>
        /\ w.pc # "dead"
    BY <1>1, <1>2 DEF NotR2, Calls
  <1>4. ASSUME NEW u \in 1 .. Len(uploads')
        PROVE  Owns(r, u)' \/ (u \in 1 .. Len(uploads) /\ ~Owns(r, u))
    <2>1. work'[r] = w /\ journal'[r] = journal[r]
      BY <1>2, <1>3 DEF IInv, RowsOK
    <2>2. work[r].event.kind # "created"
      BY <1>1 DEF LeakInv, OwnersOK, OwnerOK, Calls
    <2> QED
      BY <1>1, <2>1, <2>2 DEF Owns
  <1>5. /\ OwnersOK' /\ RestOK' /\ TakenOK'
        /\ Orphans' \subseteq Orphans \cup {} /\ Cardinality(Orphans') \in Nat
        /\ Dead' = Dead
    <2>1. BridgeInv'
      BY DEF IInv
    <2> HIDE DEF OwnersOK, OwnerOK, Owns
    <2> QED
      BY <1>1, <1>2, <1>3, <1>4, <2>1, RowGoesOn
  <1>6. AtRisk' = AtRisk /\ LateCreates' = LateCreates /\ AtRisk \in Nat
    BY <1>3, <1>5, RiskIsANumber DEF AtRisk, LateCreates, LeakInv
  <1>7. PriceOK'
    BY <1>3, <1>5, <1>6, NothingLost
  <1> QED
    BY <1>5, <1>7 DEF LeakInv

LEMMA CreateLeaks ==
    ASSUME IInv, IInv', ClaimsInv, LeakInv, NEW r \in Rows, Create(r)
    PROVE  LeakInv'
  <1> DEFINE new == Len(uploads) + 1
             e == [kind |-> "created", upload |-> new, part |-> 0, etag |-> 0]
             w == Worker(r, "record", 1, 0, e)
  <1>1. /\ At(r, "create") /\ NewUpload(Key(r)) /\ NotR2
        /\ work' = [work EXCEPT ![r] = w]
    BY DEF Create, Write
  <1>2. w.pc = "record" /\ w.event.kind = "created" /\ w.event.upload = new
    BY DEF Worker
  <1> HIDE DEF w
  <1>3. /\ OpensKept /\ Len(uploads') = new /\ Len(uploads) \in Nat
        /\ \A u \in 1 .. Len(uploads') : u \notin 1 .. Len(uploads) => u = new
    BY <1>1, NewR2 DEF IInv
  <1>4. ~journal[r].active
    BY <1>1 DEF ClaimsInv, WorkerClaims, At
  <1>5. OwnerOK(w, journal'[r], uploads')
    BY <1>1, <1>2, <1>4 DEF OwnerOK, NotR2
  <1>6. work[r].event.kind # "created"
    BY <1>1 DEF LeakInv, OwnersOK, OwnerOK, At
  <1>7. ASSUME NEW u \in 1 .. Len(uploads')
        PROVE  Owns(r, u)' \/ (u \in 1 .. Len(uploads) /\ ~Owns(r, u))
    <2>1. work'[r] = w
      BY <1>1 DEF IInv, RowsOK
    <2> QED
      BY <1>2, <1>3, <1>4, <1>6, <2>1 DEF Owns
  <1>8. /\ UNCHANGED <<journal, running, jammed, late, faults>>
        /\ work[r].pc \in Calls /\ BridgeInv'
    BY <1>1 DEF NotR2, At, Calls, IInv
  <1>9. /\ OwnersOK' /\ RestOK' /\ TakenOK'
        /\ Orphans' \subseteq Orphans \cup {} /\ Cardinality(Orphans') \in Nat
        /\ Dead' = Dead
    <2> HIDE DEF OwnersOK, OwnerOK, Owns
    <2> QED
      BY <1>1, <1>2, <1>3, <1>5, <1>7, <1>8, RowGoesOn
  <1>10. AtRisk' = AtRisk /\ LateCreates' = LateCreates /\ AtRisk \in Nat
    BY <1>8, <1>9, RiskIsANumber DEF AtRisk, LateCreates, LeakInv
  <1>11. PriceOK'
    BY <1>8, <1>9, <1>10, NothingLost
  <1> QED
    BY <1>9, <1>11 DEF LeakInv

\* What a row owned it still owns when its event is in the journal.
LEMMA OwnedIsRecorded ==
    ASSUME IInv, LeakInv, NEW r \in Rows, At(r, "record"), Apply(r, work[r].event),
           NEW u \in 1 .. Len(uploads), uploads[u].open, Owns(r, u)
    PROVE  journal'[r].active /\ journal'[r].upload = u
  <1> DEFINE e == work[r].event
             j == journal[r]
  <1>1. /\ e.kind = "created" => ~j.active
        /\ e.kind \in {"completed", "aborted"} => Closed(e.upload, uploads)
    BY DEF LeakInv, OwnersOK, OwnerOK
  <1>2. /\ j = [active |-> j.active, upload |-> j.upload, etags |-> j.etags]
        /\ DOMAIN journal = Rows
    BY DEF IInv, RowsOK, JournalOK, JournalRows
  <1>3. CASE e.kind = "created"
    <2> DEFINE new == [active |-> TRUE, upload |-> e.upload, etags |-> NoEtags(Key(r))]
    <2>1. journal' = [journal EXCEPT ![r] = new]
      BY <1>3 DEF Apply
    <2>2. new.active /\ new.upload = e.upload
      OBVIOUS
    <2> HIDE DEF new
    <2>3. e.upload = u
      BY <1>1, <1>3 DEF Owns
    <2> QED
      BY <1>2, <2>1, <2>2, <2>3
  <1>4. CASE e.kind # "created"
    <2>1. j.active /\ j.upload = u
      BY <1>4 DEF Owns
    <2>2. CASE e.kind = "part" /\ j.active /\ j.upload = e.upload
      <3> DEFINE new == [active |-> j.active, upload |-> j.upload,
                         etags |-> [j.etags EXCEPT ![e.part] = e.etag]]
      <3>1. journal' = [journal EXCEPT ![r].etags[e.part] = e.etag]
        BY <2>2 DEF Apply
      <3>2. [j EXCEPT !.etags[e.part] = e.etag] = new
        BY <1>2
      <3>3. journal' = [journal EXCEPT ![r] = new]
        BY <3>1, <3>2
      <3>4. new.active = j.active /\ new.upload = j.upload
        OBVIOUS
      <3> HIDE DEF new
      <3> QED
        BY <1>2, <2>1, <3>3, <3>4
    <2>3. CASE e.kind \in {"completed", "aborted"} /\ j.upload = e.upload
      BY <1>1, <2>1, <2>3 DEF Closed
    <2>4. CASE journal' = journal
      BY <2>1, <2>4
    <2> QED
      BY <1>4, <2>2, <2>3, <2>4 DEF Apply
  <1> QED
    BY <1>3, <1>4

LEMMA RecordLeaks ==
    ASSUME IInv, IInv', LeakInv, NEW r \in Rows, Record(r)
    PROVE  LeakInv'
  <1> DEFINE e == work[r].event
  <1>1. /\ At(r, "record") /\ ~jammed /\ Apply(r, e) /\ GoOn(r, e) /\ UNCHANGED uploads
        /\ UNCHANGED <<running, jammed, late, faults>>
    BY DEF Record, UntouchedR2
  <1>2. OpensKept
    BY <1>1, QuietR2 DEF IInv
  <1>3. \A s \in Rows : s # r => journal'[s] = journal[s]
    BY <1>1, Applied
  <1>4. PICK w : /\ work' = [work EXCEPT ![r] = w]
                 /\ w.pc \in Calls \cup {"record", "settled"}
                 /\ OwnerOK(w, journal'[r], uploads')
    <2>1. e \in EventRows /\ e.kind # "none"
      BY <1>1, WorkerFields DEF IInv, RowsOK, WorkerOK, At
    <2>2. CASE e.kind \in {"created", "part"}
      <3>1. NextPart(r, journal'[r].etags)
        BY <1>1, <2>2 DEF GoOn
      <3> DEFINE j == journal'[r]
                 ups == uploads'
      <3> HIDE DEF j, ups
      <3>2. NextPart(r, j.etags)
        BY <3>1 DEF j
      <3>3. Moves(r, j, ups)
        BY <3>2, NextPartMoves
      <3> QED
        BY <3>3 DEF Moves, j, ups
    <2>3. CASE e.kind = "aborted"
      <3> DEFINE w == [Resting("head") EXCEPT !.restart = FALSE]
      <3>1. work' = [work EXCEPT ![r] = w]
        BY <1>1, <2>3 DEF GoOn
      <3>2. w.pc = "head" /\ w.event.kind = "none"
        BY DEF Resting, NoEvent
      <3> HIDE DEF w
      <3>3. OwnerOK(w, journal'[r], uploads')
        BY <3>2 DEF OwnerOK
      <3> QED
        BY <3>1, <3>2, <3>3 DEF Calls
    <2>4. CASE e.kind = "completed"
      <3>1. Stored(r)
        BY <1>1, <2>4 DEF GoOn
      <3> DEFINE j == journal'[r]
                 ups == uploads'
      <3> HIDE DEF j, ups
      <3>2. Moves(r, j, ups)
        BY <3>1, EventMoves DEF Stored
      <3> QED
        BY <3>2 DEF Moves, j, ups
    <2>5. CASE e.kind \in {"stored", "failed"}
      <3> DEFINE w == Resting("settled")
      <3>1. work' = [work EXCEPT ![r] = w]
        BY <1>1, <2>5 DEF GoOn
      <3>2. w.pc = "settled" /\ w.event.kind = "none"
        BY DEF Resting, NoEvent
      <3> HIDE DEF w
      <3>3. OwnerOK(w, journal'[r], uploads')
        BY <3>2 DEF OwnerOK
      <3> QED
        BY <3>1, <3>2, <3>3
    <2> QED
      BY <2>1, <2>2, <2>3, <2>4, <2>5 DEF EventRows, Events
  <1>5. ASSUME NEW u \in 1 .. Len(uploads'), uploads'[u].open
        PROVE  Owns(r, u)' \/ (u \in 1 .. Len(uploads) /\ ~Owns(r, u))
    <2>1. CASE Owns(r, u)
      <3>1. u \in 1 .. Len(uploads) /\ uploads[u].open
        BY <1>1, <1>5
      <3>2. journal'[r].active /\ journal'[r].upload = u
        BY <1>1, <2>1, <3>1, OwnedIsRecorded
      <3> QED
        BY <3>2 DEF Owns
    <2> QED
      BY <1>1, <2>1
  <1>6. w.pc # "dead" /\ work[r].pc \in Calls \cup {"record"} /\ BridgeInv'
    BY <1>1, <1>4 DEF Calls, At, IInv
  <1>7. /\ OwnersOK' /\ RestOK' /\ TakenOK'
        /\ Orphans' \subseteq Orphans \cup {} /\ Cardinality(Orphans') \in Nat
        /\ Dead' = Dead
    <2> HIDE DEF OwnersOK, OwnerOK, Owns
    <2> QED
      BY <1>1, <1>2, <1>3, <1>4, <1>5, <1>6, RowGoesOn
  <1>8. AtRisk' = AtRisk /\ LateCreates' = LateCreates /\ AtRisk \in Nat
    BY <1>1, <1>7, RiskIsANumber DEF AtRisk, LateCreates, LeakInv
  <1>9. PriceOK'
    BY <1>1, <1>7, <1>8, NothingLost
  <1> QED
    BY <1>7, <1>9 DEF LeakInv

\* A worker that cannot record its event dies, and leaves at most one upload behind.
LEMMA DyingLeaks ==
    ASSUME IInv, IInv', LeakInv, NEW r \in Rows, At(r, "record"), NEW w,
           work' = [work EXCEPT ![r] = w], w.pc = "dead", w.event.kind = "none",
           UNCHANGED <<journal, uploads, running>>
    PROVE  /\ OwnersOK' /\ RestOK' /\ TakenOK' /\ Cardinality(Orphans') \in Nat
           /\ Cardinality(Orphans') <= Cardinality(Orphans) + 1
           /\ Cardinality(Dead) \in Nat /\ Cardinality(Dead') = Cardinality(Dead) + 1
           /\ Concurrency - Cardinality(Dead') \in 0 .. Concurrency
  <1> DEFINE x == work[r].event.upload
  <1>3. OpensKept /\ OwnerOK(w, journal'[r], uploads')
    BY QuietR2 DEF IInv, OwnerOK
  <1>4. \A u \in 1 .. Len(uploads') : uploads'[u].open /\ u \notin {x} =>
           Owns(r, u)' \/ (u \in 1 .. Len(uploads) /\ ~Owns(r, u))
    BY DEF Owns
  <1>5. /\ work[r].pc \in Calls \cup {"record"} /\ BridgeInv'
        /\ UNCHANGED running /\ \A s \in Rows : s # r => journal'[s] = journal[s]
        /\ w.pc \in Calls \cup {"record", "settled", "dead"}
        /\ (jammed \/ ~jammed' \/ w.pc = "dead") /\ OpensKept
    BY <1>3 DEF At, IInv
  <1>0. PICK X : X = {x}
    OBVIOUS
  <1>13. \A u \in 1 .. Len(uploads') : uploads'[u].open /\ u \notin X =>
           Owns(r, u)' \/ (u \in 1 .. Len(uploads) /\ ~Owns(r, u))
    BY <1>0, <1>4
  <1>14. /\ OwnersOK' /\ RestOK' /\ TakenOK'
        /\ Orphans' \subseteq Orphans \cup X /\ Cardinality(Orphans') \in Nat
        /\ Dead' = (IF w.pc = "dead" THEN Dead \cup {r} ELSE Dead) /\ r \notin Dead
    <2> HIDE DEF OwnersOK, OwnerOK, Owns
    <2> QED
      <3>1. OwnersOK' /\ RestOK' /\ TakenOK'
        <4> HIDE DEF IInv, LeakInv, OpensKept, At, Calls, Dead, RestOK, TakenOK, Orphans,
                     BridgeInv
        <4> QED
          BY <1>3, <1>5, <1>13, RowGoesOn
      <3>2. Orphans' \subseteq Orphans \cup X
        BY <1>3, <1>5, <1>13, OrphansOfStep
      <3>3. Len(uploads') \in Nat
        BY <1>5 DEF BridgeInv, BridgeTypes
      <3>4. Cardinality(Orphans') \in Nat
        BY <3>3, SomeAreFinite DEF Orphans
      <3>5. Dead' = Dead \cup {r} /\ r \notin Dead
        <4>1. \A s \in Rows : work'[s] = IF s = r THEN w ELSE work[s]
          BY DEF IInv, RowsOK
        <4> QED
          BY <4>1 DEF Dead, At
      <3> QED
        BY <3>1, <3>2, <3>4, <3>5
  <1>6. /\ OwnersOK' /\ RestOK' /\ TakenOK'
        /\ Orphans' \subseteq Orphans \cup {x} /\ Cardinality(Orphans') \in Nat
        /\ Dead' = Dead \cup {r} /\ r \notin Dead
    BY <1>0, <1>14
  <1>7. Cardinality(Orphans') <= Cardinality(Orphans) + 1
    BY <1>6, OneMoreIsFinite, OrphansAreFinite DEF IInv
  <1>8. Dead \subseteq Taken
    BY DEF Dead, Taken, At
  <1>9. IsFiniteSet(Dead) /\ Cardinality(Dead) \in Nat
    BY <1>8, SmallerIsFinite DEF LeakInv, TakenOK
  <1>10. Cardinality(Dead') = Cardinality(Dead) + 1
    BY <1>6, <1>9, FS_AddElement
  <1>11. Dead' \subseteq Taken'
    BY DEF Dead, Taken, At
  <1>12. Concurrency - Cardinality(Dead') \in 0 .. Concurrency
    BY <1>6, <1>11, RiskIsBounded DEF TakenOK
  <1> QED
    BY <1>6, <1>7, <1>9, <1>10, <1>12

LEMMA RejectLeaks ==
    ASSUME IInv, IInv', LeakInv, NEW r \in Rows, Reject(r)
    PROVE  LeakInv'
  <1>1. /\ At(r, "record") /\ jammed /\ work' = [work EXCEPT ![r] = Resting("dead")]
        /\ UNCHANGED <<journal, uploads, running, jammed, late, faults>>
    BY DEF Reject, UntouchedR2, NotR2
  <1>2. /\ OwnersOK' /\ RestOK' /\ TakenOK' /\ Cardinality(Orphans') \in Nat
        /\ Cardinality(Orphans') <= Cardinality(Orphans) + 1
        /\ Cardinality(Dead) \in Nat /\ Cardinality(Dead') = Cardinality(Dead) + 1
        /\ Concurrency - Cardinality(Dead') \in 0 .. Concurrency
    <2> DEFINE w == Resting("dead")
    <2>1. work' = [work EXCEPT ![r] = w] /\ w.pc = "dead" /\ w.event.kind = "none"
      BY <1>1 DEF Resting, NoEvent
    <2> HIDE DEF w
    <2> QED
      BY <1>1, <2>1, DyingLeaks
  <1>3. AtRisk' \in Nat /\ AtRisk' <= AtRisk + (-1)
    <2>1. AtRisk = Concurrency - Cardinality(Dead) /\ AtRisk' = Concurrency - Cardinality(Dead')
      BY <1>1 DEF AtRisk
    <2> QED
      BY <1>2, <2>1, RecoveryAssumption
  <1>4. /\ LateCreates' = LateCreates /\ IsFiniteSet(LateCreates)
        /\ Cardinality(LateCreates) \in Nat
    BY <1>1, FS_CardinalityType DEF LateCreates, LeakInv, PriceOK
  <1>5. 1 + 0 + (-1) <= 0 /\ -1 \in Int /\ 1 \in Int /\ 0 \in Int
        /\ Cardinality(LateCreates') <= Cardinality(LateCreates) + 0
    BY <1>4
  <1>6. PriceOK'
    BY <1>1, <1>2, <1>3, <1>4, <1>5, PriceMoves
  <1> QED
    BY <1>2, <1>6 DEF LeakInv

LEMMA FailAppendLeaks ==
    ASSUME IInv, IInv', LeakInv, NEW r \in Rows, FailAppend(r)
    PROVE  LeakInv'
  <1>1. /\ At(r, "record") /\ ~jammed /\ jammed'
        /\ work' = [work EXCEPT ![r] = Resting("dead")]
        /\ UNCHANGED <<journal, uploads, running, late>> /\ faults' = faults + 1
    BY DEF FailAppend, UntouchedR2, Fault
  <1>2. /\ OwnersOK' /\ RestOK' /\ TakenOK' /\ Cardinality(Orphans') \in Nat
        /\ Cardinality(Orphans') <= Cardinality(Orphans) + 1
        /\ Cardinality(Dead) \in Nat /\ Cardinality(Dead') = Cardinality(Dead) + 1
        /\ Concurrency - Cardinality(Dead') \in 0 .. Concurrency
    <2> DEFINE w == Resting("dead")
    <2>1. work' = [work EXCEPT ![r] = w] /\ w.pc = "dead" /\ w.event.kind = "none"
      BY <1>1 DEF Resting, NoEvent
    <2> HIDE DEF w
    <2> QED
      BY <1>1, <2>1, DyingLeaks
  <1> DEFINE c == Concurrency - 1
  <1>3. AtRisk' \in Nat /\ AtRisk' <= AtRisk + c /\ c \in Int /\ 1 + 0 + c <= Concurrency
    <2>1. AtRisk = 0 /\ AtRisk' = Concurrency - Cardinality(Dead')
      BY <1>1 DEF AtRisk
    <2> QED
      BY <1>2, <2>1, RecoveryAssumption
  <1>4. /\ LateCreates' = LateCreates /\ IsFiniteSet(LateCreates)
        /\ Cardinality(LateCreates) \in Nat
    BY <1>1, FS_CardinalityType DEF LateCreates, LeakInv, PriceOK
  <1>5. 1 \in Int /\ 0 \in Int /\ Cardinality(LateCreates') <= Cardinality(LateCreates) + 0
    BY <1>4
  <1> HIDE DEF c
  <1>6. PriceOK'
    BY <1>1, <1>2, <1>3, <1>4, <1>5, PriceMoves
  <1> QED
    BY <1>2, <1>6 DEF LeakInv

LEMMA LoseLeaks ==
    ASSUME IInv, IInv', LeakInv, NEW r \in Rows, Lose(r)
    PROVE  LeakInv'
  <1>1. /\ work[r].pc \in Calls /\ Retry(r) /\ faults' = faults + 1
        /\ UNCHANGED <<journal, uploads, running, jammed>>
        /\ late' \subseteq late \cup {Request(r)}
    BY DEF Lose, UntouchedR2, Fault, journalVars, runVars
  <1>2. OpensKept
    BY <1>1, QuietR2 DEF IInv
  <1> DEFINE ups == uploads'
  <1> HIDE DEF ups
  <1>3. Moves(r, journal[r], ups)
    BY <1>1, RetryMoves
  <1>4. PICK w : /\ work' = [work EXCEPT ![r] = w]
                 /\ w.pc \in Calls \cup {"record"} /\ w.event.kind # "created"
                 /\ OwnerOK(w, journal[r], ups)
    BY <1>3 DEF Moves
  <1>5. w.pc # "dead" /\ BridgeInv'
    BY <1>4 DEF Calls, IInv
  <1>6. ASSUME NEW u \in 1 .. Len(uploads')
        PROVE  Owns(r, u)' \/ (u \in 1 .. Len(uploads) /\ ~Owns(r, u))
    <2>1. work[r].event.kind # "created"
      BY <1>1 DEF LeakInv, OwnersOK, OwnerOK, Calls
    <2> QED
      BY <1>1, <2>1 DEF Owns
  <1>7. OwnerOK(w, journal'[r], uploads')
    BY <1>1, <1>4 DEF ups
  <1>8. /\ OwnersOK' /\ RestOK' /\ TakenOK'
        /\ Orphans' \subseteq Orphans \cup {} /\ Cardinality(Orphans') \in Nat
        /\ Dead' = Dead
    <2> HIDE DEF OwnersOK, OwnerOK, Owns
    <2> QED
      BY <1>1, <1>2, <1>4, <1>5, <1>6, <1>7, RowGoesOn
  <1>9. AtRisk' = AtRisk /\ AtRisk \in Nat
    BY <1>1, <1>8, RiskIsANumber DEF AtRisk, LeakInv
  <1>10. LateCreates' \subseteq LateCreates \cup {Request(r)}
    BY <1>1 DEF LateCreates
  <1>11. IsFiniteSet(LateCreates') /\ Cardinality(LateCreates') <= Cardinality(LateCreates) + 1
    BY <1>10, OneMoreIsFinite DEF LeakInv, PriceOK
  <1>12. /\ Cardinality(Orphans') <= Cardinality(Orphans) + 0
         /\ AtRisk' <= AtRisk + 0 /\ 0 + 1 + 0 <= Concurrency
    BY <1>8, <1>9, OrphansAreFinite, SmallerIsFinite, RecoveryAssumption DEF IInv
  <1>13. 0 \in Int /\ 1 \in Int
    OBVIOUS
  <1>14. PriceOK'
    BY <1>1, <1>8, <1>9, <1>11, <1>12, <1>13, PriceMoves
  <1> QED
    BY <1>8, <1>14 DEF LeakInv

LEMMA TakeLeaks ==
    ASSUME IInv, IInv', LeakInv, NEW r \in Rows, Take(r)
    PROVE  LeakInv'
  <1> DEFINE w == Worker(r, "head", 1, 0, NoEvent)
  <1>1. /\ At(r, "waiting") /\ Cardinality(Taken) < Concurrency
        /\ work' = [work EXCEPT ![r] = w]
        /\ UNCHANGED <<journal, uploads, running, jammed, late, faults>>
    BY DEF Take, Call, UntouchedR2, NotR2
  <1>2. w.pc = "head" /\ w.event.kind = "none"
    BY DEF Worker, NoEvent
  <1> HIDE DEF w
  <1>3. \A s \in Rows : work'[s] = IF s = r THEN w ELSE work[s]
    BY <1>1 DEF IInv, RowsOK
  <1>4. OpensKept /\ Len(uploads') \in Nat
    BY <1>1, QuietR2 DEF IInv, BridgeInv, BridgeTypes
  <1>5. OwnerOK(w, journal'[r], uploads')
    BY <1>2 DEF OwnerOK
  <1>6. OwnersOK'
    BY <1>1, <1>4, <1>5, OwnersKept
  <1>7. RestOK'
    BY <1>1 DEF LeakInv, RestOK, At
  <1>8. TakenOK'
    <2>1. Taken' \subseteq Taken \cup {r}
      BY <1>3 DEF Taken
    <2>2. /\ IsFiniteSet(Taken') /\ Cardinality(Taken') \in Nat /\ Cardinality(Taken) \in Nat
          /\ Cardinality(Taken') <= Cardinality(Taken) + 1
      BY <2>1, OneMoreIsFinite DEF LeakInv, TakenOK
    <2> QED
      BY <1>1, <2>2, RecoveryAssumption DEF TakenOK
  <1>9. Dead' = Dead
    BY <1>1, <1>2, <1>3 DEF Dead, At
  <1>10. work[r].event.kind # "created"
    BY <1>1 DEF LeakInv, OwnersOK, OwnerOK, At
  <1>11. \A u \in 1 .. Len(uploads') : uploads'[u].open /\ u \notin {} =>
           Owns(r, u)' \/ (u \in 1 .. Len(uploads) /\ ~Owns(r, u))
    BY <1>1, <1>10 DEF Owns
  <1>12. Orphans' \subseteq Orphans \cup {} /\ Cardinality(Orphans') \in Nat
    <2>1. Orphans' \subseteq Orphans \cup {}
      <3> HIDE DEF Owns
      <3> QED
        BY <1>1, <1>4, <1>11, OrphansOfStep
    <2> QED
      BY <2>1, <1>4, SomeAreFinite DEF Orphans
  <1>13. AtRisk' = AtRisk /\ LateCreates' = LateCreates /\ AtRisk \in Nat
    BY <1>1, <1>9, RiskIsANumber DEF AtRisk, LateCreates, LeakInv
  <1>14. PriceOK'
    BY <1>1, <1>12, <1>13, NothingLost
  <1> QED
    BY <1>6, <1>7, <1>8, <1>14 DEF LeakInv

-----------------------------------------------------------------------------
(* The steps of all rows and of the environment.                             *)

\* A run begins or ends: nobody has anything to record or to lose.
LEMMA RestLeaks ==
    ASSUME IInv, IInv', LeakInv, Start \/ Finish
    PROVE  LeakInv'
  <1>1. PICK pc \in [Rows -> {"idle", "waiting", "settled"}] :
            work' = [s \in Rows |-> Resting(pc[s])]
    <2>1. CASE Start
      <3> DEFINE pc == [s \in Rows |-> IF s \in Pending THEN "waiting" ELSE "settled"]
      <3> WITNESS pc \in [Rows -> {"idle", "waiting", "settled"}]
      <3> QED
        BY <2>1 DEF Start
    <2>2. CASE Finish
      <3> DEFINE pc == [s \in Rows |-> "idle"]
      <3> WITNESS pc \in [Rows -> {"idle", "waiting", "settled"}]
      <3> QED
        BY <2>2 DEF Finish
    <2> QED
      BY <2>1, <2>2
  <1>2. /\ ~jammed' /\ UNCHANGED <<journal, uploads, late, faults>>
        /\ \A s \in Rows : ~At(s, "record")
        /\ running' \/ \A s \in Rows : work'[s] = Resting("idle")
    <2>1. CASE Start
      BY <2>1 DEF Start, UntouchedR2, LeakInv, RestOK, At
    <2>2. CASE Finish
      BY <2>2 DEF Finish, UntouchedR2
    <2> QED
      BY <2>1, <2>2
  <1>3. \A s \in Rows : /\ work'[s].pc = pc[s] /\ work'[s].event.kind = "none"
                        /\ work'[s].pc \notin Calls \cup {"record", "dead"}
    BY <1>1 DEF Resting, NoEvent, Calls
  <1>4. OwnersOK'
    BY <1>3 DEF OwnersOK, OwnerOK
  <1>5. RestOK'
    BY <1>2 DEF RestOK, At, Resting
  <1>6. TakenOK'
    <2>1. Taken' = {}
      BY <1>3 DEF Taken
    <2> QED
      BY <2>1, FS_EmptySet, RecoveryAssumption DEF TakenOK
  <1>7. Orphans' \subseteq Orphans
    <2>1. \A s \in Rows : \A u : Owns(s, u) => Owns(s, u)'
      BY <1>2 DEF Owns, LeakInv, OwnersOK, OwnerOK, At
    <2> QED
      BY <1>2, <2>1 DEF Orphans
  <1>8. Cardinality(Orphans') \in Nat
    <2>1. Len(uploads') \in Nat
      BY DEF IInv, BridgeInv, BridgeTypes
    <2> QED
      BY <2>1, SomeAreFinite DEF Orphans
  <1>9. AtRisk' = 0 /\ 0 <= AtRisk /\ LateCreates' = LateCreates
    BY <1>2, RiskIsANumber DEF AtRisk, LateCreates, LeakInv
  <1>10. PriceOK'
    BY <1>2, <1>7, <1>8, <1>9, NothingLost
  <1> QED
    BY <1>4, <1>5, <1>6, <1>10 DEF LeakInv

\* A step that no worker takes opens at most the upload x.
LEMMA BridgeActs ==
    ASSUME IInv, IInv', LeakInv, OpensKept, UNCHANGED <<work, journal, running, jammed>>,
           NEW x, \A u \in 1 .. Len(uploads') : u \notin 1 .. Len(uploads) => u = x
    PROVE  /\ OwnersOK' /\ RestOK' /\ TakenOK' /\ Cardinality(Orphans') \in Nat
           /\ Orphans' \subseteq Orphans \cup {x} /\ AtRisk' = AtRisk /\ AtRisk \in Nat
           /\ Len(uploads') = Len(uploads) => Orphans' \subseteq Orphans
  <1>1. OwnersOK'
    <2>1. ASSUME NEW s \in Rows PROVE OwnerOK(work'[s], journal'[s], uploads')
      <3>1. OwnerOK(work[s], journal[s], uploads)
        BY DEF LeakInv, OwnersOK
      <3> QED
        BY <3>1, ClosedStays DEF OwnerOK, IInv
    <2> QED
      BY <2>1 DEF OwnersOK
  <1>2. RestOK' /\ TakenOK' /\ AtRisk' = AtRisk
    BY DEF LeakInv, RestOK, TakenOK, Taken, AtRisk, Dead, At
  <1>3. AtRisk \in Nat
    BY RiskIsANumber DEF LeakInv
  <1>4. Len(uploads') \in Nat /\ Len(uploads) \in Nat
    BY DEF IInv, BridgeInv, BridgeTypes
  <1>5. Cardinality(Orphans') \in Nat
    BY <1>4, SomeAreFinite DEF Orphans
  <1>6. \A s \in Rows : \A u : Owns(s, u)' <=> Owns(s, u)
    BY DEF Owns
  <1>7. Orphans' \subseteq Orphans \cup {x}
    BY <1>6 DEF Orphans, OpensKept
  <1>8. ASSUME Len(uploads') = Len(uploads) PROVE Orphans' \subseteq Orphans
    BY <1>6, <1>8 DEF Orphans, OpensKept
  <1> QED
    BY <1>1, <1>2, <1>3, <1>5, <1>7, <1>8

\* ... and if it opens none and creates no request, nothing is lost.
LEMMA QuietLeaks ==
    ASSUME IInv, IInv', LeakInv, OpensKept, Len(uploads') = Len(uploads),
           UNCHANGED <<work, journal, running, jammed>>,
           IsFiniteSet(LateCreates'), Cardinality(LateCreates') <= Cardinality(LateCreates),
           faults' = faults \/ faults' = faults + 1
    PROVE  LeakInv'
  <1>1. /\ OwnersOK' /\ RestOK' /\ TakenOK' /\ Cardinality(Orphans') \in Nat
        /\ Orphans' \subseteq Orphans /\ AtRisk' = AtRisk /\ AtRisk \in Nat
    <2>1. \A u \in 1 .. Len(uploads') : u \notin 1 .. Len(uploads) => u = 0
      OBVIOUS
    <2> QED
      BY <2>1, BridgeActs
  <1>2. Cardinality(LateCreates') \in Nat /\ Cardinality(LateCreates) \in Nat
    BY FS_CardinalityType DEF LeakInv, PriceOK
  <1>3. /\ Cardinality(Orphans') <= Cardinality(Orphans) + 0
        /\ Cardinality(LateCreates') <= Cardinality(LateCreates) + 0
        /\ AtRisk' <= AtRisk + 0 /\ 0 + 0 + 0 <= 0 /\ 0 + 0 + 0 <= Concurrency /\ 0 \in Int
    BY <1>1, <1>2, OrphansAreFinite, SmallerIsFinite, RecoveryAssumption DEF IInv
  <1>4. PriceOK'
    BY <1>1, <1>3, PriceMoves
  <1> QED
    BY <1>1, <1>4 DEF LeakInv

LEMMA LateLeaks ==
    ASSUME IInv, IInv', LeakInv, NEW q \in late, Late(q)
    PROVE  LeakInv'
  <1>1. UNCHANGED <<work, journal, running, jammed, faults>>
    BY DEF Late, journalVars, runVars
  <1>2. /\ IsFiniteSet(LateCreates) /\ Cardinality(LateCreates) \in Nat
    BY FS_CardinalityType DEF LeakInv, PriceOK
  <1>3. ASSUME OpensKept, Len(uploads') = Len(uploads), late' \subseteq late
        PROVE  LeakInv'
    <2>1. LateCreates' \subseteq LateCreates
      BY <1>3 DEF LateCreates
    <2>2. IsFiniteSet(LateCreates') /\ Cardinality(LateCreates') <= Cardinality(LateCreates)
      BY <1>2, <2>1, SmallerIsFinite
    <2> QED
      BY <1>1, <1>3, <2>2, QuietLeaks
  <1>4. ASSUME UNCHANGED uploads PROVE OpensKept /\ Len(uploads') = Len(uploads)
    BY <1>4, QuietR2 DEF IInv
  <1>5. ASSUME NEW u, Discard(u) PROVE OpensKept /\ Len(uploads') = Len(uploads)
    BY <1>5, QuietR2 DEF IInv, Discard
  <1>6. CASE LatePut(q)
    BY <1>3, <1>4, <1>6 DEF LatePut, PutIfAbsent
  <1>7. CASE LateAbort(q)
    BY <1>3, <1>5, <1>7 DEF LateAbort
  <1>8. CASE LatePart(q)
    <2>1. OpensKept /\ Len(uploads') = Len(uploads)
      <3>1. CASE IsOpen(q.upload)
        <4>1. PICK e : PutPart(q.upload, q.part, e)
          BY <1>8, <3>1 DEF LatePart
        <4> QED
          BY <4>1, QuietR2 DEF PutPart, IInv
      <3>2. CASE ~IsOpen(q.upload)
        BY <1>4, <1>8, <3>2 DEF LatePart, UntouchedR2
      <3> QED
        BY <3>1, <3>2
    <2> QED
      BY <1>3, <1>8, <2>1 DEF LatePart
  <1>9. CASE LateLookUp(q)
    <2>1. CASE IsAbsent(q.object)
      <3> DEFINE x == [q EXCEPT !.looked = TRUE]
      <3>1. late' = (late \ {q}) \cup {x} /\ UNCHANGED uploads
        BY <1>9, <2>1 DEF LateLookUp, UntouchedR2
      <3>2. x.op = q.op
        <4>1. q = [op |-> q.op, object |-> q.object, upload |-> q.upload, part |-> q.part,
                   etags |-> q.etags, looked |-> q.looked]
          BY DEF IInv, LateOK, RequestOK
        <4> QED
          BY <4>1
      <3> HIDE DEF x
      <3>3. /\ IsFiniteSet(LateCreates')
            /\ Cardinality(LateCreates') <= Cardinality(LateCreates)
        <4>1. CASE q.op = "create"
          <5> DEFINE rest == LateCreates \ {q}
          <5>1. LateCreates' = rest \cup {x} /\ q \in LateCreates
            BY <3>1, <3>2, <4>1 DEF LateCreates
          <5>2. IsFiniteSet(rest) /\ Cardinality(rest) = Cardinality(LateCreates) - 1
            BY <1>2, <5>1, FS_RemoveElement
          <5> HIDE DEF rest
          <5>3. /\ IsFiniteSet(rest \cup {x})
                /\ Cardinality(rest \cup {x}) <= Cardinality(rest) + 1
            BY <5>2, OneMoreIsFinite
          <5> QED
            BY <1>2, <5>1, <5>2, <5>3
        <4>2. CASE q.op # "create"
          <5>1. LateCreates' \subseteq LateCreates
            BY <3>1, <3>2, <4>2 DEF LateCreates
          <5> QED
            BY <1>2, <5>1, SmallerIsFinite
        <4> QED
          BY <4>1, <4>2
      <3> QED
        BY <1>1, <1>4, <3>1, <3>3, QuietLeaks
    <2>2. CASE ~IsAbsent(q.object)
      <3>1. OpensKept /\ Len(uploads') = Len(uploads)
        BY <1>4, <1>5, <1>9, <2>2 DEF LateLookUp, UntouchedR2
      <3> QED
        BY <1>3, <1>9, <2>2, <3>1 DEF LateLookUp
    <2> QED
      BY <2>1, <2>2
  <1>10. CASE LateCreate(q)
    <2> DEFINE new == Len(uploads) + 1
    <2>1. /\ NewUpload(q.object) /\ late' = late \ {q} /\ q.op = "create"
      BY <1>10 DEF LateCreate
    <2>2. OpensKept /\ \A u \in 1 .. Len(uploads') : u \notin 1 .. Len(uploads) => u = new
      BY <2>1, NewR2 DEF IInv
    <2> HIDE DEF new
    <2>3. /\ OwnersOK' /\ RestOK' /\ TakenOK' /\ Cardinality(Orphans') \in Nat
          /\ Orphans' \subseteq Orphans \cup {new} /\ AtRisk' = AtRisk /\ AtRisk \in Nat
      BY <1>1, <2>2, BridgeActs
    <2>4. Cardinality(Orphans') <= Cardinality(Orphans) + 1
      BY <2>3, OneMoreIsFinite, OrphansAreFinite DEF IInv
    <2>5. LateCreates' = LateCreates \ {q} /\ q \in LateCreates
      BY <2>1 DEF LateCreates
    <2>6. IsFiniteSet(LateCreates') /\ Cardinality(LateCreates') = Cardinality(LateCreates) - 1
      BY <1>2, <2>5, FS_RemoveElement
    <2>7. /\ Cardinality(LateCreates') <= Cardinality(LateCreates) + (-1)
          /\ AtRisk' <= AtRisk + 0 /\ 1 + (-1) + 0 <= 0 /\ 1 \in Int /\ -1 \in Int /\ 0 \in Int
      BY <1>2, <2>3, <2>6
    <2>8. PriceOK'
      BY <1>1, <2>3, <2>4, <2>6, <2>7, PriceMoves
    <2> QED
      BY <2>3, <2>8 DEF LeakInv
  <1>11. CASE LateComplete(q)
    <2>1. OpensKept /\ Len(uploads') = Len(uploads)
      <3>1. CASE Accepts(q.upload, q.etags)
        <4>1. uploads' = [uploads EXCEPT ![q.upload].open = FALSE]
          BY <1>11, <3>1 DEF LateComplete, Assemble
        <4> QED
          BY <4>1, QuietR2 DEF IInv
      <3>2. CASE ~Accepts(q.upload, q.etags)
        BY <1>4, <1>11, <3>2 DEF LateComplete, UntouchedR2
      <3> QED
        BY <3>1, <3>2
    <2> QED
      BY <1>3, <1>11, <2>1 DEF LateComplete
  <1> QED
    BY <1>6, <1>7, <1>8, <1>9, <1>10, <1>11 DEF Late

LEMMA ExpireLeaks ==
    ASSUME IInv, IInv', LeakInv,
           (\E u : Expire(u) \/ ExpireEarly(u)) \/ UNCHANGED vars
    PROVE  LeakInv'
  <1>1. UNCHANGED <<work, journal, running, jammed, late>>
        /\ (faults' = faults \/ faults' = faults + 1)
    BY DEF Expire, ExpireEarly, Fault, journalVars, runVars, vars
  <1>2. OpensKept /\ Len(uploads') = Len(uploads)
    BY QuietR2 DEF IInv, Expire, ExpireEarly, Discard, vars
  <1>3. LateCreates' = LateCreates /\ IsFiniteSet(LateCreates) /\ Cardinality(LateCreates) \in Nat
    BY <1>1, FS_CardinalityType DEF LateCreates, LeakInv, PriceOK
  <1> QED
    BY <1>1, <1>2, <1>3, QuietLeaks

LEMMA ImageIsSmaller ==
    ASSUME NEW S, IsFiniteSet(S), NEW f, NEW T, T = {f[x] : x \in S}
    PROVE  IsFiniteSet(T) /\ Cardinality(T) \in Nat /\ Cardinality(T) <= Cardinality(S)
  <1> DEFINE g == [x \in S |-> f[x]]
  <1>1. g \in Surjection(S, T)
    BY DEF Surjection
  <1> QED
    BY <1>1, FS_Surjection, FS_CardinalityType

\* Two sets of workers that are apart are no more than the pool.
LEMMA PoolIsShared ==
    ASSUME TakenOK, NEW A, NEW B, A \subseteq Taken, B \subseteq Taken, A \cap B = {}
    PROVE  /\ IsFiniteSet(A) /\ IsFiniteSet(B) /\ Cardinality(A) \in Nat /\ Cardinality(B) \in Nat
           /\ Cardinality(A) + Cardinality(B) <= Concurrency
  <1>1. /\ IsFiniteSet(A) /\ Cardinality(A) \in Nat /\ IsFiniteSet(B) /\ Cardinality(B) \in Nat
    BY SmallerIsFinite DEF TakenOK
  <1>2. Cardinality(A \cup B) = Cardinality(A) + Cardinality(B)
    <2>1. Cardinality(A \cap B) = 0
      BY FS_EmptySet
    <2>2. Cardinality(A \cup B) = Cardinality(A) + Cardinality(B) - Cardinality(A \cap B)
      BY <1>1, FS_Union
    <2> QED
      BY <1>1, <2>1, <2>2
  <1>3. Cardinality(A \cup B) <= Cardinality(Taken) /\ Cardinality(Taken) \in Nat
        /\ Cardinality(A \cup B) \in Nat
    <2>1. A \cup B \subseteq Taken
      OBVIOUS
    <2> QED
      BY <2>1, SmallerIsFinite DEF TakenOK
  <1> QED
    BY <1>1, <1>2, <1>3, RecoveryAssumption DEF TakenOK

\* A kill costs each worker the upload whose ID it has not recorded, or one that its
\* request creates later.
LEMMA CrashLeaks ==
    ASSUME IInv, IInv', LeakInv, Crash
    PROVE  LeakInv'
  <1> DEFINE A == {r \in Rows : At(r, "record")}
             B == {r \in Rows : At(r, "create")}
             X == {work[r].event.upload : r \in A}
             Y == {Request(r) : r \in B}
  <1>1. /\ faults' = faults + 1 /\ ~running' /\ ~jammed' /\ UNCHANGED uploads
        /\ work' = [s \in Rows |-> Resting("idle")]
        /\ late' = late \cup {Request(r) : r \in {s \in Rows : work[s].pc \in Calls \ {"head"}}}
    BY DEF Crash, Fault, UntouchedR2
  <1>2. PICK r \in Rows : Interrupt(r)
    BY DEF Crash
  <1>3. \A s \in Rows : work'[s] = Resting("idle")
    BY <1>1
  <1>4. \A s \in Rows : work'[s].pc = "idle" /\ work'[s].event.kind = "none"
    BY <1>3 DEF Resting, NoEvent
  <1>5. OwnersOK' /\ RestOK'
    BY <1>1, <1>4 DEF OwnersOK, OwnerOK, RestOK, At
  <1>6. TakenOK'
    <2>1. Taken' = {}
      BY <1>4 DEF Taken, Calls
    <2> QED
      BY <2>1, FS_EmptySet, RecoveryAssumption DEF TakenOK
  <1>7. Cardinality(Orphans') \in Nat
    <2>1. Len(uploads') \in Nat
      BY DEF IInv, BridgeInv, BridgeTypes
    <2> QED
      BY <2>1, SomeAreFinite DEF Orphans
  <1>8. Orphans' \subseteq Orphans \cup X
    <2> SUFFICES ASSUME NEW u \in Orphans', u \notin Orphans
                 PROVE  u \in X
      OBVIOUS
    <2>1. /\ u \in 1 .. Len(uploads) /\ uploads[u].open
          /\ \A s \in Rows : ~(journal'[s].active /\ journal'[s].upload = u)
      BY <1>1 DEF Orphans, Owns
    <2>2. PICK s \in Rows : Owns(s, u)
      BY <2>1 DEF Orphans
    <2>3. CASE work[s].event.kind = "created" /\ work[s].event.upload = u
      <3>1. At(s, "record")
        BY <2>3 DEF LeakInv, OwnersOK, OwnerOK, At
      <3> QED
        BY <2>3, <3>1
    <2>4. CASE journal[s].active /\ journal[s].upload = u
      <3>1. journal'[s].active /\ journal'[s].upload = u
        <4>1. CASE UNCHANGED journal
          BY <2>4, <4>1
        <4>2. CASE At(r, "record") /\ Apply(r, work[r].event)
          <5>1. CASE s = r
            BY <2>1, <2>2, <4>2, <5>1, OwnedIsRecorded
          <5>2. CASE s # r
            <6>1. journal'[s] = journal[s]
              BY <4>2, <5>2, Applied
            <6> QED
              BY <2>4, <6>1
          <5> QED
            BY <5>1, <5>2
        <4> QED
          BY <1>2, <4>1, <4>2 DEF Interrupt, journalVars
      <3> QED
        BY <2>1, <3>1
    <2> QED
      BY <2>2, <2>3, <2>4 DEF Owns
  <1>9. LateCreates' \subseteq LateCreates \cup Y
    <2> SUFFICES ASSUME NEW q \in late', q.op = "create", q \notin late
                 PROVE  q \in Y
      BY DEF LateCreates
    <2>1. PICK s \in Rows : q = Request(s)
      BY <1>1
    <2>2. work[s].pc = "create"
      BY <2>1 DEF Request
    <2> QED
      BY <2>1, <2>2 DEF At
  <1>10. /\ IsFiniteSet(A) /\ IsFiniteSet(B) /\ Cardinality(A) \in Nat /\ Cardinality(B) \in Nat
         /\ Cardinality(A) + Cardinality(B) <= Concurrency
    <2>1. A \subseteq Taken /\ B \subseteq Taken /\ A \cap B = {}
      BY DEF Taken, Calls, At
    <2> HIDE DEF A, B
    <2> QED
      BY <2>1, PoolIsShared DEF LeakInv
  <1>11. IsFiniteSet(X) /\ Cardinality(X) \in Nat /\ Cardinality(X) <= Cardinality(A)
    <2> DEFINE f == [s \in Rows |-> work[s].event.upload]
    <2>1. X = {f[s] : s \in A}
      OBVIOUS
    <2> HIDE DEF A, X, f
    <2> QED
      BY <1>10, <2>1, ImageIsSmaller
  <1>12. IsFiniteSet(Y) /\ Cardinality(Y) \in Nat /\ Cardinality(Y) <= Cardinality(B)
    <2> DEFINE f == [s \in Rows |-> Request(s)]
    <2>1. Y = {f[s] : s \in B}
      OBVIOUS
    <2> HIDE DEF B, Y, f
    <2> QED
      BY <1>10, <2>1, ImageIsSmaller
  <1> HIDE DEF A, B, X, Y
  <1>13. Cardinality(Orphans') <= Cardinality(Orphans) + Cardinality(X)
    BY <1>8, <1>11, OrphansAreFinite, SumIsSmaller DEF IInv
  <1>14. /\ IsFiniteSet(LateCreates')
         /\ Cardinality(LateCreates') <= Cardinality(LateCreates) + Cardinality(Y)
    BY <1>9, <1>12, SumIsSmaller DEF LeakInv, PriceOK
  <1>15. /\ AtRisk' \in Nat /\ AtRisk' <= AtRisk + 0
    <2>1. AtRisk' = 0 /\ AtRisk \in Nat
      BY <1>1, RiskIsANumber DEF AtRisk, LeakInv
    <2> QED
      BY <2>1
  <1>16. /\ Cardinality(X) \in Int /\ Cardinality(Y) \in Int /\ 0 \in Int
         /\ Cardinality(X) + Cardinality(Y) + 0 <= Concurrency
    BY <1>10, <1>11, <1>12, RecoveryAssumption
  <1>17. PriceOK'
    BY <1>1, <1>7, <1>13, <1>14, <1>15, <1>16, PriceMoves
  <1> QED
    BY <1>5, <1>6, <1>17 DEF LeakInv

LEMMA LeaksInvariant ==
    ASSUME IInv, IInv', ClaimsInv, LeakInv, [Next]_vars
    PROVE  LeakInv'
  <1>1. ASSUME NEW r \in Rows, WorkerStep(r) PROVE LeakInv'
    BY <1>1, TakeLeaks, BridgeLeaks, CreateLeaks, RecordLeaks, RejectLeaks DEF WorkerStep
  <1>2. ASSUME NEW r \in Rows, Lose(r) \/ FailAppend(r) PROVE LeakInv'
    BY <1>2, LoseLeaks, FailAppendLeaks
  <1>3. ASSUME NEW q \in late, Late(q) PROVE LeakInv'
    BY <1>3, LateLeaks
  <1>4. CASE (\E u : Expire(u) \/ ExpireEarly(u)) \/ UNCHANGED vars
    BY <1>4, ExpireLeaks
  <1>5. CASE Start \/ Finish
    BY <1>5, RestLeaks
  <1> QED
    BY <1>1, <1>2, <1>3, <1>4, <1>5, CrashLeaks DEF Next, Environment

LEMMA LeaksBegin ==
    ASSUME Init
    PROVE  LeakInv
  <1>1. /\ \A r \in Rows : work[r].pc = "idle" /\ work[r].event.kind = "none"
        /\ ~running /\ ~jammed /\ faults = 0 /\ late = {} /\ Len(uploads) = 0
    BY DEF Init, BridgeInit, Resting, NoEvent
  <1>2. OwnersOK /\ RestOK
    BY <1>1 DEF OwnersOK, OwnerOK, RestOK, At
  <1>3. Taken = {} /\ Orphans = {} /\ LateCreates = {} /\ AtRisk = 0
    BY <1>1 DEF Taken, Calls, Orphans, LateCreates, AtRisk
  <1>4. IsFiniteSet({}) /\ Cardinality({}) = 0
    BY FS_EmptySet
  <1> QED
    BY <1>1, <1>2, <1>3, <1>4, RecoveryAssumption DEF LeakInv, TakenOK, PriceOK

LEMMA ClaimsBegin ==
    ASSUME Init
    PROVE  ClaimsInv
  <1>1. \A r \in Rows : WorkerClaims(Key(r), work[r], journal[r], Ids(Key(r)), uploads)
    BY RestingClaims DEF Init
  <1> QED
    BY <1>1 DEF Init, ClaimsInv, JournalClaims

\* Each open upload that neither a journal nor an event knows, each late request that
\* may create one and each worker a failed append may stop is paid for by a fault.
THEOREM LeaksHold == Spec => [](IInv /\ ClaimsInv /\ LeakInv)
  <1>1. Init => IInv /\ ClaimsInv /\ LeakInv
    BY Initially, ClaimsBegin, LeaksBegin
  <1>2. IInv /\ ClaimsInv /\ LeakInv /\ [Next]_vars => (IInv /\ ClaimsInv /\ LeakInv)'
    BY Inductive, ClaimsInvariant, LeaksInvariant DEF StepOK
  <1> QED
    BY <1>1, <1>2, PTL DEF Spec

LEMMA LeaksArePaid ==
    ASSUME IInv, LeakInv
    PROVE  LeaksNeedFaults
  <1> SUFFICES ASSUME ~running
               PROVE  Cardinality(Leaked) <= Concurrency * faults
    BY DEF LeaksNeedFaults
  <1>1. DOMAIN uploads = 1 .. Len(uploads)
    BY DEF IInv, BridgeInv, BridgeTypes
  <1>2. \A r \in Rows : work[r].event.kind # "created"
    BY DEF LeakInv, RestOK, OwnersOK, OwnerOK, At
  <1>3. Leaked \subseteq Orphans
    BY <1>1, <1>2 DEF Leaked, Orphans, Resumable, Owns, IsOpen
  <1>4. Cardinality(Leaked) <= Cardinality(Orphans) /\ Cardinality(Leaked) \in Nat
    BY <1>3, OrphansAreFinite, SmallerIsFinite DEF IInv
  <1>5. Cardinality(Orphans) + Cardinality(LateCreates) + AtRisk <= Concurrency * faults
    BY DEF LeakInv, PriceOK
  <1>6. AtRisk = 0 /\ Cardinality(LateCreates) \in Nat /\ Cardinality(Orphans) \in Nat
    BY FS_CardinalityType, OrphansAreFinite DEF AtRisk, LeakInv, RestOK, PriceOK, IInv
  <1>7. Concurrency * faults \in Int
    <2>1. \A x, y \in Nat : x * y \in Int
      OBVIOUS
    <2> QED
      BY <2>1, RecoveryAssumption DEF IInv, OthersOK
  <1> DEFINE paid == Concurrency * faults
  <1> HIDE DEF paid
  <1>8. Cardinality(Leaked) <= paid
    BY <1>4, <1>5, <1>6, <1>7 DEF paid
  <1> QED
    BY <1>8 DEF paid

\* "Reuses a known upload ID": between runs, at most one open upload per worker and
\* fault is unknown to the journal, for any rows, workers, attempts and torn tails.
THEOREM LeaksAreThePriceOfFaults == Spec => []LeaksNeedFaults
  <1>1. IInv /\ LeakInv => LeaksNeedFaults
    BY LeaksArePaid
  <1> QED
    BY <1>1, LeaksHold, PTL
=============================================================================
