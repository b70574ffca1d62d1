-------------------------- MODULE MultipartBridge ---------------------------
(***************************************************************************)
(* The temporary Worker in front of a media bucket and the bucket itself.  *)
(* The bridge offers put-if-absent and create, upload-part, complete and   *)
(* abort of multipart uploads; its create and complete handlers look the   *)
(* key up first and call R2 in a second step.  R2 is external: an upload   *)
(* is gone once completed, aborted or expired, and a part that is uploaded *)
(* again may or may not keep its etag.                                     *)
(***************************************************************************)
EXTENDS Naturals, Sequences

CONSTANTS
    Objects,     \* content-addressed keys
    Parts,       \* [Objects -> Nat], 0 for an object sent in one request
    Foreign,     \* keys that hold an object with other metadata
    MaxUploads   \* bound: multipart uploads ever created

ASSUME BridgeAssumption ==
    /\ Parts \in [Objects -> Nat]
    /\ Foreign \subseteq Objects
    /\ MaxUploads \in Nat

VARIABLES
    bucket,      \* what each key holds, and the upload that put it there
    uploads      \* the multipart uploads, in the order of their IDs

Absent == [state |-> "absent", upload |-> 0, parts |-> {}]
InTheWay == [state |-> "foreign", upload |-> 0, parts |-> {}]
NoEtags(o) == [p \in 1 .. Parts[o] |-> 0]

BridgeTypeOK ==
    /\ bucket \in [Objects -> [state : {"absent", "foreign", "stored"},
                               upload : Nat, parts : SUBSET Nat]]
    /\ \A u \in DOMAIN uploads :
          /\ uploads[u].object \in Objects /\ uploads[u].open \in BOOLEAN
          /\ uploads[u].etags \in [1 .. Parts[uploads[u].object] -> Nat]
    /\ Len(uploads) <= MaxUploads

BridgeInit ==
    /\ bucket = [o \in Objects |-> IF o \in Foreign THEN InTheWay ELSE Absent]
    /\ uploads = <<>>

IsAbsent(o) == bucket[o].state = "absent"
Matches(o) == bucket[o].state = "stored"
IsOpen(u) == u \in DOMAIN uploads /\ uploads[u].open

\* put with etagDoesNotMatch "*".
PutIfAbsent(o) ==
    /\ bucket' = IF IsAbsent(o)
                   THEN [bucket EXCEPT ![o] =
                            [state |-> "stored", upload |-> 0, parts |-> 1 .. Parts[o]]]
                   ELSE bucket
    /\ UNCHANGED uploads

NewUpload(o) ==
    /\ Len(uploads) < MaxUploads
    /\ uploads' = Append(uploads, [object |-> o, open |-> TRUE, etags |-> NoEtags(o)])
    /\ UNCHANGED bucket

\* The etag a part gets: the next one, or the one its bytes had before.
NewEtags(u, p) == {uploads[u].etags[p] + 1, uploads[u].etags[p]} \ {0}

PutPart(u, p, e) ==
    /\ uploads' = [uploads EXCEPT ![u].etags[p] = e]
    /\ UNCHANGED bucket

\* R2 assembles the listed parts when it holds each with the listed etag.
Accepts(u, list) ==
    IsOpen(u) /\ \A p \in DOMAIN list : list[p] # 0 => uploads[u].etags[p] = list[p]

Listed(list) == {p \in DOMAIN list : list[p] # 0}

Assemble(u, list) ==
    /\ bucket' = [bucket EXCEPT ![uploads[u].object] =
                     [state |-> "stored", upload |-> u, parts |-> Listed(list)]]
    /\ uploads' = [uploads EXCEPT ![u].open = FALSE]

Discard(u) ==
    /\ uploads' = IF IsOpen(u) THEN [uploads EXCEPT ![u].open = FALSE] ELSE uploads
    /\ UNCHANGED bucket

UntouchedR2 == UNCHANGED <<bucket, uploads>>
=============================================================================
