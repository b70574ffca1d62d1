--------------------------- MODULE CollectorBackfill ---------------------------
(***************************************************************************)
(* drop_collector_refs of a holdings database that was published before    *)
(* the table existed: one insert per range of owner addresses, journalled  *)
(* in the database, ranges split while the database gives up on them.      *)
(*                                                                         *)
(* An address is a string of AddressDigits digits in base Base, and a      *)
(* prefix one of its first digits.                                         *)
(***************************************************************************)
EXTENDS Naturals, SequencesExt, FiniteSetsExt

CONSTANTS
    Base,          \* 16
    AddressDigits, \* 40
    MaxPrefix,     \* 4
    Tokens,        \* the owner of each token of the snapshot, a function
    MaxFaults      \* bound: requests that fail

VARIABLES
    refs,          \* the tokens that have a reference
    journal,       \* drop_collector_backfill
    job,           \* the process
    faults

vars == <<refs, journal, job, faults>>

Digits == 0..(Base - 1)
Addresses == [1..AddressDigits -> Digits]
Ranges == UNION {[1..n -> Digits] : n \in 1..MaxPrefix}

BackfillAssumption ==
    /\ Base \in Nat \ {0, 1} /\ AddressDigits \in Nat /\ MaxPrefix \in 1..AddressDigits
    /\ MaxFaults \in Nat
    /\ Tokens \in [DOMAIN Tokens -> Addresses] /\ IsFiniteSet(DOMAIN Tokens)

(* Strings of one length are compared from the left.                       *)
Precedes(a, b) ==
    \E i \in 1..AddressDigits : a[i] < b[i] /\ \A j \in 1..(i - 1) : a[j] = b[j]

(* A prefix with zeros up to the length of an address, and the number      *)
(* after a prefix, of as many digits, unless it is the last.               *)
Padded(prefix) == [i \in 1..AddressDigits |-> IF i <= Len(prefix) THEN prefix[i] ELSE 0]
IsLast(prefix) == \A i \in DOMAIN prefix : prefix[i] = Base - 1
Following(prefix) ==
    LET carry == Max({i \in DOMAIN prefix : prefix[i] # Base - 1})
    IN [i \in DOMAIN prefix |-> IF i < carry THEN prefix[i]
                                ELSE IF i = carry THEN prefix[i] + 1 ELSE 0]

(* The range of a prefix ends where the next begins; the last is open.     *)
InRange(prefix) ==
    {t \in DOMAIN Tokens : /\ ~Precedes(Tokens[t], Padded(prefix))
                           /\ IsLast(prefix) \/ Precedes(Tokens[t], Padded(Following(prefix)))}

(* Tokens that were loaded after the migration have theirs already.        *)
Init ==
    /\ refs \in {{}, {t \in DOMAIN Tokens : \A i \in 1..AddressDigits : Tokens[t][i] = 0}}
    /\ journal = {} /\ faults = 0
    /\ job = [at |-> "idle", todo |-> <<>>, known |-> {}]

(* The journal is read once; the ranges are taken in order.                *)
Start ==
    /\ job.at \in {"idle", "failed"}
    /\ job' = [at |-> "running", todo |-> [i \in 1..Base |-> <<i - 1>>], known |-> journal]
    /\ UNCHANGED <<refs, journal, faults>>

Children(prefix) == [i \in 1..Base |-> Append(prefix, i - 1)]

(* A range is covered by itself, by one it lies in, or by all its parts.   *)
Covered(prefix, known) ==
    LET inside == {p \in Ranges : IsPrefix(prefix, p)}
    IN \/ \E p \in known : IsPrefix(p, prefix)
       \/ \A p \in {q \in inside : Len(q) = MaxPrefix} : \E k \in known : IsPrefix(k, p)

Done == [job EXCEPT !.todo = Tail(@)]

Skip ==
    /\ job.at = "running" /\ job.todo # <<>> /\ Covered(Head(job.todo), job.known)
    /\ job' = Done
    /\ UNCHANGED <<refs, journal, faults>>

Pending == job.at = "running" /\ job.todo # <<>> /\ ~Covered(Head(job.todo), job.known)

(* Rows first, then the journal.                                           *)
Fill ==
    /\ Pending
    /\ refs' = refs \cup InRange(Head(job.todo))
    /\ journal' = journal \cup {Head(job.todo)}
    /\ job' = [Done EXCEPT !.known = @ \cup {Head(job.todo)}]
    /\ UNCHANGED faults

(* The request fails after some rows, or after all of it with its answer   *)
(* lost.  A failure of memory or time splits the range, unless it is as    *)
(* small as they get; another one ends the process.                        *)
Fail ==
    /\ Pending /\ faults < MaxFaults
    /\ faults' = faults + 1
    /\ LET p == Head(job.todo)
       IN /\ \/ UNCHANGED <<refs, journal>>
             \/ refs' = refs \cup InRange(p) /\ journal' \in {journal, journal \cup {p}}
          /\ \/ /\ Len(p) < MaxPrefix
                /\ job' = [job EXCEPT !.todo = Children(p) \o Tail(@)]
             \/ job' = [job EXCEPT !.at = "failed"]

(* As many references as tokens, or the backfill is incomplete.            *)
Finish ==
    /\ job.at = "running" /\ job.todo = <<>>
    /\ job' = [job EXCEPT !.at = IF Cardinality(refs) = Cardinality(DOMAIN Tokens)
                                 THEN "done" ELSE "incomplete"]
    /\ UNCHANGED <<refs, journal, faults>>

Run == Start \/ Skip \/ Fill \/ Finish

Next == Run \/ Fail

Spec == Init /\ [][Next]_vars
FairSpec == Spec /\ WF_vars(Run)

----------------------------------------------------------------------------
TypeOK ==
    /\ refs \subseteq DOMAIN Tokens /\ journal \subseteq Ranges /\ faults \in 0..MaxFaults
    /\ job.at \in {"idle", "running", "failed", "done", "incomplete"}
    /\ Range(job.todo) \subseteq Ranges /\ job.known \subseteq journal

(* "Completed ranges are journaled, so the same command resumes safely":   *)
(* a journalled range has every reference of its addresses, and however    *)
(* the ranges were split and resumed, none is left out at the end.         *)
JournalCoversRanges ==
    /\ \A p \in journal : \A t \in DOMAIN Tokens :
          IsPrefix(p, Tokens[t]) => t \in refs
    /\ job.at # "incomplete"

=============================================================================
