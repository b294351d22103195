----------------------------- MODULE MemoryStore -----------------------------
(***************************************************************************)
(* MemoryStore of snapshot_store.hpp: entries_, a map to immutable shared  *)
(* snapshots, and used_bytes_, the running total of their record sizes.    *)
(* put and get run to completion; a put that throws changes nothing.       *)
(***************************************************************************)
EXTENDS Integers, FiniteSets, Functions

CONSTANTS
  Keys, Snapshots, Identities, IdentityOf, Readers, None, \* see SnapshotStore
  Bytes,             \* function: record size of each snapshot
  MaxBlob, MaxStore, \* Limits
  Width              \* how many values a uint64_t has

ASSUME MemoryStoreAssumption ==
  /\ IdentityOf \in [Snapshots -> Identities]
  /\ None \notin Snapshots
  /\ Bytes \in [Snapshots -> Nat \ {0}]
  /\ MaxBlob \in Nat \ {0} /\ MaxStore \in Nat \ {0} \* valid_limits
  /\ Width \in Nat /\ MaxBlob < Width /\ MaxStore < Width

VARIABLES
  entries, \* entries[k]: the snapshot under key k, or None
  used,    \* used_bytes_
  answer   \* answer[r]: what reader r's last get returned

vars == <<entries, used, answer>>

\* A put is acknowledged as soon as its entry is there.
Abstract == INSTANCE SnapshotStore WITH stored <- entries, acked <- entries

TypeOK ==
  /\ entries \in [Keys -> Snapshots \cup {None}]
  /\ used \in Nat
  /\ answer \in [Readers -> Abstract!Answers \cup {Abstract!NoAnswer}]

Init ==
  /\ entries = [k \in Keys |-> None]
  /\ used = 0
  /\ answer = [r \in Readers |-> Abstract!NoAnswer]

\* Addition of uint64_t.
Plus(m, n) == (m + n) % Width

\* Mutant: a second put of a key replaces the entry.
PutReplacing(k, s) ==
  /\ Bytes[s] <= MaxBlob
  /\ used <= MaxStore /\ Bytes[s] <= MaxStore - used
  /\ entries' = [entries EXCEPT ![k] = s]
  /\ used' = Plus(used, Bytes[s])
  /\ UNCHANGED answer

\* Mutant: the quota is compared with the sum, which may have wrapped.
PutAdding(k, s) ==
  /\ Bytes[s] <= MaxBlob
  /\ entries[k] = None
  /\ Plus(used, Bytes[s]) <= MaxStore
  /\ entries' = [entries EXCEPT ![k] = s]
  /\ used' = Plus(used, Bytes[s])
  /\ UNCHANGED answer

\* record_size, the duplicate check and check_quota, written as in the code:
\* the addition is never formed before it is known to fit.
Put(k, s) ==
  /\ Bytes[s] <= MaxBlob
  /\ entries[k] = None
  /\ used <= MaxStore /\ Bytes[s] <= MaxStore - used
  /\ entries' = [entries EXCEPT ![k] = s]
  /\ used' = Plus(used, Bytes[s])
  /\ UNCHANGED answer

Get(r, k, id) ==
  LET s == entries[k]
      status == IF s = None THEN "miss"
                ELSE IF IdentityOf[s] = id THEN "hit" ELSE "incompatible" IN
  /\ answer' = [answer EXCEPT ![r] =
       Abstract!Answer(status, k, id, IF status = "hit" THEN s ELSE None)]
  /\ UNCHANGED <<entries, used>>

Next ==
  \/ \E k \in Keys, s \in Snapshots : Put(k, s)
  \/ \E r \in Readers, k \in Keys, id \in Identities : Get(r, k, id)

Spec == Init /\ [][Next]_vars

-----------------------------------------------------------------------------
(* Properties. *)

Held == {k \in Keys : entries[k] # None}

\* used_bytes_ is what the entries add up to, and stays within the quota, with
\* limits and sizes up to the largest uint64_t: no total is ever formed that
\* wraps and lets in more than the quota.
Accounting ==
  /\ used = SumFunction([k \in Held |-> Bytes[entries[k]]])
  /\ used <= MaxStore

\* MemoryStore is a snapshot store that loses nothing.
Refinement == Abstract!Spec
=============================================================================
