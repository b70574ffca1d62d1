--------------------------- MODULE JsonlCheckpoint ---------------------------
(***************************************************************************)
(* The checkpoint of the artwork upload: an append-only JSONL file on a    *)
(* disk that keeps what has been synced, and its in-memory index.  The     *)
(* file is a sequence of tokens: whole JSON records, newlines, and the     *)
(* fragment an interrupted write leaves of a record.                       *)
(***************************************************************************)
EXTENDS Naturals, Sequences, FiniteSets

CONSTANTS
    Keys,       \* object keys
    SyncEvery,  \* records between two syncs
    TornTails   \* may an interrupted write leave part of its line behind?

CheckpointAssumption ==
    /\ "header" \notin Keys /\ "newline" \notin Keys /\ "fragment" \notin Keys
    /\ SyncEvery \in Nat \ {0}
    /\ TornTails \in BOOLEAN

VARIABLES
    file,       \* the tokens of the file
    synced,     \* how many of them are on the disk for good
    unsynced,   \* records written since the last sync
    chain,      \* keys whose records wait for their turn to be written
    jammed,     \* a write has failed: all later ones are rejected
    completed   \* the index: keys with a record

checkpointVars == <<file, synced, unsynced, chain, jammed, completed>>

CheckpointTypeOK ==
    /\ file \in Seq(Keys \cup {"header", "newline", "fragment"})
    /\ synced \in 0 .. Len(file)
    /\ unsynced \in 0 .. SyncEvery - 1
    /\ chain \in Seq(Keys)
    /\ jammed \in BOOLEAN
    /\ completed \subseteq Keys

CheckpointInit ==
    /\ file = <<>> /\ synced = 0 /\ unsynced = 0
    /\ chain = <<>> /\ jammed = FALSE /\ completed = {}

Line(record) == <<record, "newline">>
-----------------------------------------------------------------------------
(* Reading the file.                                                         *)

LineStarts(f) == {i \in DOMAIN f : f[i] # "newline" /\ (i > 1 => f[i - 1] = "newline")}

\* JSON.parse rejects the line of token i: a fragment, or two records joined.
Invalid(f, i) ==
    /\ f[i] # "newline"
    /\ \/ f[i] = "fragment"
       \/ \E j \in {i - 1, i + 1} \cap DOMAIN f : f[j] # "newline"

HasInvalid(f) == \E i \in DOMAIN f : Invalid(f, i)

\* The lines that remain when an invalid last line is dropped.
Kept(f) ==
    IF HasInvalid(f)
      THEN LET last == CHOOSE s \in LineStarts(f) : \A t \in LineStarts(f) : t <= s
           IN  SubSeq(f, 1, last - 1)
      ELSE f

Records(f) == {f[i] : i \in DOMAIN Kept(f)} \cap Keys

\* #load accepts an invalid line only as the last one, and needs its header.
Readable(f) ==
    /\ \A i \in DOMAIN f : Invalid(f, i) => \A s \in LineStarts(f) : s <= i
    /\ Kept(f) # <<>> /\ Kept(f)[1] = "header"

\* open: the file is read and, after a dropped line, written anew.
Load ==
    /\ Readable(file)
    /\ file' = Kept(file)
    /\ synced' = IF HasInvalid(file) THEN 0 ELSE synced
    /\ completed' = Records(file)
    /\ chain' = <<>> /\ jammed' = FALSE /\ unsynced' = 0

\* open: killed while the file is written anew, in place.
KilledInRepair ==
    /\ Readable(file) /\ HasInvalid(file)
    /\ \E n \in 0 .. Len(Kept(file)) - 1 :
          file' \in {SubSeq(Kept(file), 1, n)} \cup
                   (IF Kept(file)[n + 1] = "newline" THEN {}
                    ELSE {SubSeq(Kept(file), 1, n) \o <<"fragment">>})
    /\ synced' = 0
    /\ UNCHANGED <<unsynced, chain, jammed, completed>>

\* open: a new file gets its header, synced at once.
WriteHeader ==
    /\ file' = file \o Line("header")
    /\ synced' = Len(file')
    /\ completed' = {} /\ chain' = <<>> /\ jammed' = FALSE /\ unsynced' = 0
-----------------------------------------------------------------------------
(* Writing it.                                                               *)

\* record: the index first, then the write in its turn.
Enqueue(k) ==
    /\ completed' = completed \cup {k}
    /\ chain' = Append(chain, k)
    /\ UNCHANGED <<file, synced, unsynced, jammed>>

WriteNext ==
    /\ chain # <<>> /\ ~jammed
    /\ file' = file \o Line(Head(chain))
    /\ IF unsynced + 1 >= SyncEvery
         THEN synced' = Len(file') /\ unsynced' = 0
         ELSE synced' = synced /\ unsynced' = unsynced + 1
    /\ chain' = Tail(chain)
    /\ UNCHANGED <<jammed, completed>>

RejectNext ==
    /\ chain # <<>> /\ jammed
    /\ chain' = Tail(chain)
    /\ UNCHANGED <<file, synced, unsynced, jammed, completed>>

\* What is left when the write of a line stops halfway.
Torn(f, record) ==
    {f} \cup (IF TornTails THEN {f \o <<"fragment">>, f \o <<record>>} ELSE {})

FailNext ==
    /\ chain # <<>> /\ ~jammed
    /\ file' \in Torn(file, Head(chain))
    /\ chain' = Tail(chain) /\ jammed' = TRUE
    /\ UNCHANGED <<synced, unsynced, completed>>

\* close waits for the chain and syncs; after a failed write it throws.
Close ==
    /\ synced' = IF jammed THEN synced ELSE Len(file)
    /\ unsynced' = IF jammed THEN unsynced ELSE 0
    /\ UNCHANGED <<file, chain, jammed, completed>>

Forget == chain' = <<>> /\ jammed' = FALSE /\ completed' = {} /\ unsynced' = 0

\* The process is killed during the write of a record, or of none.
Killed(writing) ==
    /\ file' \in {file} \cup UNION {Torn(file, w) \cup {file \o Line(w)} : w \in writing}
    /\ synced' = synced
    /\ Forget

\* The machine loses power: of what was not synced a prefix survives.
LineEnds == {0} \cup {i \in DOMAIN file : file[i] = "newline"}

Surviving(n) ==
    (IF n \in LineEnds \/ TornTails THEN {SubSeq(file, 1, n)} ELSE {}) \cup
    (IF TornTails /\ n < Len(file) /\ n + 1 \notin LineEnds
       THEN {SubSeq(file, 1, n) \o <<"fragment">>} ELSE {})

PowerLost ==
    /\ \E n \in synced .. Len(file) : file' \in Surviving(n)
    /\ synced' = Len(file')
    /\ Forget
=============================================================================
