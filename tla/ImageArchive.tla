---------------------------- MODULE ImageArchive ----------------------------
(***************************************************************************)
(* The image ZIP of an address: the plan made of the references of its     *)
(* archive, the sequential download of each image, and the ZIP written to  *)
(* the memory of the browser or to a file the visitor chose, while the     *)
(* network, the disk and the visitor interfere.                            *)
(*                                                                         *)
(* An image is its URL; a content-addressed URL says the digest of the     *)
(* bytes, and a reference may say how many bytes there are (0: not said).  *)
(***************************************************************************)
EXTENDS Naturals, SequencesExt, FiniteSetsExt

CONSTANTS
    References, \* what an archive may refer to: sets of [url, bytes, order]
    Pinned,     \* the URLs of public images of its snapshots, a set
    Addressed,  \* those that name the digest of their bytes
    Stored,     \* the number of bytes of each image at the media host
    MaxZip,     \* 4 GiB
    MaxBlob,    \* 256 MiB
    MaxImages,  \* 65,532
    MaxAttempts \* of one image, 3

VARIABLES
    refs,       \* the references of the archive at hand
    plan,       \* the plan: made, and its images in the order of their paths
    job,        \* createPersonalImageArchiveZip
    file,       \* the destination: the chosen file or the browser's memory
    aborted     \* the signal of the call

vars == <<refs, plan, job, file, aborted>>

ImageArchiveAssumption ==
    /\ IsFiniteSet(Pinned) /\ Pinned \subseteq Nat
    /\ Addressed \subseteq Pinned /\ DOMAIN Stored = Pinned
    /\ \A r \in References : IsFiniteSet(r) /\ \A x \in r : x.bytes \in Nat
    /\ MaxAttempts \in Nat \ {0} /\ MaxZip \in Nat \ {0} /\ MaxBlob \in Nat /\ MaxImages \in Nat

----------------------------------------------------------------------------
(* The plan.                                                               *)

(* References that are not to an image of the snapshots are left out.      *)
Kept(r) == {x \in r : x.url \in Pinned}

Lengths(r, url) == {x.bytes : x \in {y \in Kept(r) : y.url = url}} \ {0}

Conflicts(r) == \E url \in Pinned : Cardinality(Lengths(r, url)) > 1

(* The length of an image is known if one of its references says it.       *)
Expected(r, url) == IF Lengths(r, url) = {} THEN 0 ELSE Max(Lengths(r, url))

Referenced(r) == {url \in Pinned : \E x \in r : x.url = url}

(* Each image once, by path: the ith one has i - 1 before it.              *)
Planned(r) ==
    [i \in 1..Cardinality(Referenced(r)) |->
        LET url == CHOOSE u \in Referenced(r) : Cardinality({v \in Referenced(r) : v < u}) = i - 1
        IN [url |-> url, bytes |-> Expected(r, url)]]

KnownBytes(entries) == FoldSeq(LAMBDA e, n : e.bytes + n, 0, entries)

Idle == [at |-> "idle", index |-> 1, attempt |-> 1, length |-> 0, got |-> 0, good |-> TRUE,
         zip |-> <<>>, out |-> 0]
NoFile == [kind |-> "none", state |-> "none"]

Init ==
    /\ refs \in References
    /\ plan = [made |-> FALSE, entries |-> <<>>]
    /\ job = Idle /\ file = NoFile /\ aborted = FALSE

BuildPlan ==
    /\ job.at = "idle" /\ ~plan.made
    /\ LET entries == Planned(refs)
           refused == Conflicts(refs) \/ KnownBytes(entries) >= MaxZip \/ Len(entries) > MaxImages
       IN IF refused THEN job' = [job EXCEPT !.at = "error"] /\ UNCHANGED plan
          ELSE plan' = [made |-> TRUE, entries |-> entries] /\ UNCHANGED job
    /\ UNCHANGED <<refs, file, aborted>>

(* The visitor saves: to a file where the browser has a picker.            *)
Save(kind) ==
    /\ job.at = "idle" /\ plan.made /\ plan.entries # <<>>
    /\ IF kind = "memory" /\ KnownBytes(plan.entries) >= MaxBlob
       THEN job' = [job EXCEPT !.at = "error"] /\ file' = NoFile
       ELSE job' = [job EXCEPT !.at = "loading"] /\ file' = [kind |-> kind, state |-> "open"]
    /\ UNCHANGED <<refs, plan, aborted>>

----------------------------------------------------------------------------
(* The ZIP.                                                                *)

Entry == plan.entries[job.index]

(* What is pushed is counted and written before the loop goes on.          *)
Fits(bytes) ==
    /\ job.out + bytes < MaxZip
    /\ file.kind = "memory" => job.out + bytes <= MaxBlob

Fail == job' = [job EXCEPT !.at = "failing"]

(* The ZIP and hash code is loaded on first use, before the try block: a   *)
(* page of an earlier deployment may not find it any more.                 *)
LoadCode ==
    /\ job.at = "loading"
    /\ \/ job' = [job EXCEPT !.at = "asking"]
       \/ job' = [job EXCEPT !.at = "error"]
    /\ UNCHANGED <<refs, plan, file, aborted>>

Again ==
    IF job.attempt < MaxAttempts THEN [job EXCEPT !.attempt = @ + 1]
    ELSE [job EXCEPT !.at = "failing"]

(* The answer names a length, which may not be that of the plan; a network *)
(* error or a busy host is tried again, another status ends the archive.   *)
FetchImage ==
    /\ job.at = "asking" /\ job.index <= Len(plan.entries)
    /\ IF aborted THEN Fail
       ELSE \/ \E length \in {Stored[Entry.url], Stored[Entry.url] + 1} :
                  job' = IF Entry.bytes \notin {0, length} THEN [job EXCEPT !.at = "failing"]
                         ELSE [job EXCEPT !.at = "reading", !.length = length, !.got = 0, !.good = TRUE]
            \/ job' = Again
            \/ Fail
    /\ UNCHANGED <<refs, plan, file, aborted>>

(* A chunk of the body: hashed, pushed into the ZIP and written.           *)
ReadChunk ==
    /\ job.at = "reading" /\ job.got < job.length
    /\ IF aborted \/ ~Fits(1) THEN Fail
       ELSE \/ \E good \in BOOLEAN :
                  job' = [job EXCEPT !.got = @ + 1, !.out = @ + 1, !.good = @ /\ good]
            \/ Fail
    /\ UNCHANGED <<refs, plan, file, aborted>>

(* Digests are compared where the URL names one.                           *)
Verifies ==
    /\ job.got > 0 /\ job.got = job.length /\ Entry.bytes \in {0, job.got}
    /\ Entry.url \in Addressed => job.good /\ job.got = Stored[Entry.url]

(* The body ends, maybe short of its length.                               *)
CloseEntry ==
    /\ job.at = "reading"
    /\ IF Verifies /\ ~aborted
       THEN job' = [job EXCEPT !.at = "asking", !.index = @ + 1, !.attempt = 1,
                               !.zip = Append(@, [url |-> Entry.url, bytes |-> job.got,
                                                  whole |-> job.got = job.length, good |-> job.good])]
       ELSE Fail
    /\ UNCHANGED <<refs, plan, file, aborted>>

(* The manifest, the directory, and the destination is closed.             *)
Finish ==
    /\ job.at = "asking" /\ job.index > Len(plan.entries)
    /\ \/ /\ ~aborted
          /\ job' = [job EXCEPT !.at = "done"] /\ file' = [file EXCEPT !.state = "closed"]
       \/ Fail /\ UNCHANGED file
    /\ UNCHANGED <<refs, plan, aborted>>

(* The archive is given up: the destination is aborted, if it can be.      *)
CleanUp ==
    /\ job.at = "failing"
    /\ job' = [job EXCEPT !.at = "error"]
    /\ file' = [file EXCEPT !.state = "aborted"]
    /\ UNCHANGED <<refs, plan, aborted>>

Abort ==
    /\ ~aborted /\ job.at \in {"loading", "asking", "reading"}
    /\ aborted' = TRUE
    /\ UNCHANGED <<refs, plan, job, file>>

Work == BuildPlan \/ LoadCode \/ FetchImage \/ ReadChunk \/ CloseEntry \/ Finish \/ CleanUp

Next == Work \/ (\E kind \in {"memory", "file"} : Save(kind)) \/ Abort

Spec == Init /\ [][Next]_vars
FairSpec == Spec /\ WF_vars(Work)

----------------------------------------------------------------------------
TypeOK ==
    /\ refs \in References /\ plan.made \in BOOLEAN
    /\ job.at \in {"idle", "loading", "asking", "reading", "failing", "done", "error"}
    /\ job.attempt \in 1..MaxAttempts /\ job.index \in 1..(Len(plan.entries) + 1)
    /\ file.state \in {"none", "open", "closed", "aborted"}

(* Every public image an archive refers to is planned once, with the       *)
(* length that any of its references says it has, and no other image.      *)
PlanIsTheArchive ==
    plan.made =>
        /\ \A x \in Kept(refs) : \E e \in Range(plan.entries) :
              e.url = x.url /\ x.bytes \in {0, e.bytes}
        /\ \A i, j \in DOMAIN plan.entries :
              plan.entries[i].url = plan.entries[j].url => i = j
        /\ \A e \in Range(plan.entries) : \E x \in refs : x.url = e.url /\ e.url \in Pinned

(* "No incomplete archive is returned": what the visitor keeps has every   *)
(* image of the plan, each as long as it was said to be, with the digest   *)
(* its URL names, within what the format and the browser can hold.         *)
SavedIsWhole ==
    file.state = "closed" =>
        /\ job.at = "done" /\ job.out < MaxZip /\ (file.kind = "memory" => job.out <= MaxBlob)
        /\ Len(job.zip) = Len(plan.entries)
        /\ \A i \in DOMAIN job.zip :
            LET image == job.zip[i]
            IN /\ image.url = plan.entries[i].url /\ image.whole
               /\ plan.entries[i].bytes \in {0, image.bytes}
               /\ image.url \in Addressed => image.good /\ image.bytes = Stored[image.url]

=============================================================================
