---------------------------- MODULE SnapshotStore ----------------------------
(***************************************************************************)
(* What a snapshot store promises its callers, whichever backend keeps the *)
(* bytes: a map from keys to immutable snapshots that is only ever         *)
(* extended, a put that is acknowledged at most once per key, and a get    *)
(* that returns a snapshot only under the exact identity it was put with.  *)
(* MemoryStore and FileStore are shown to implement this specification.    *)
(***************************************************************************)
CONSTANTS
  Keys,        \* names a caller may put and get
  Snapshots,   \* immutable snapshots (identity and state)
  Identities,  \* identities a caller may ask for
  IdentityOf,  \* function: the identity of each snapshot
  Readers,     \* callers of get
  None         \* no snapshot

VARIABLES
  stored,  \* stored[k]: the snapshot a get of k finds, or None
  acked,   \* acked[k]: the snapshot whose put of k returned normally, or None
  answer   \* answer[r]: what reader r's last get returned

vars == <<stored, acked, answer>>

Answers == [status : {"miss", "hit", "incompatible", "corrupt"},
            key : Keys, identity : Identities, snap : Snapshots \cup {None}]
NoAnswer == [status |-> "none"]

Answer(status, k, id, s) ==
  [status |-> status, key |-> k, identity |-> id, snap |-> s]

Init ==
  /\ stored = [k \in Keys |-> None]
  /\ acked = [k \in Keys |-> None]
  /\ answer = [r \in Readers |-> NoAnswer]

\* A put makes its snapshot visible, whole, under a key that held nothing.
Publish(k, s) ==
  /\ stored[k] = None
  /\ stored' = [stored EXCEPT ![k] = s]
  /\ acked' \in {acked, [acked EXCEPT ![k] = s]}
  /\ UNCHANGED answer

\* The put of a visible snapshot returns to its caller.
Acknowledge(k) ==
  /\ stored[k] # None
  /\ acked' = [acked EXCEPT ![k] = stored[k]]
  /\ UNCHANGED <<stored, answer>>

\* The host stops: what nobody was promised may disappear.
LoseUnacknowledged ==
  /\ \E L \in SUBSET {k \in Keys : acked[k] = None} :
       stored' = [k \in Keys |-> IF k \in L THEN None ELSE stored[k]]
  /\ answer' = [r \in Readers |-> NoAnswer]
  /\ UNCHANGED acked

\* What a get of k under identity id may answer. An I/O error, or a file the
\* store did not write, is reported as corrupt and never as a miss or a hit.
Replies(k, id) ==
  {Answer("corrupt", k, id, None)} \cup
  (CASE stored[k] = None            -> {Answer("miss", k, id, None)}
     [] stored[k] # None /\ IdentityOf[stored[k]] = id
                                    -> {Answer("hit", k, id, stored[k])}
     [] OTHER                       -> {Answer("incompatible", k, id, None)})

Get(r, k, id) ==
  /\ answer' \in {[answer EXCEPT ![r] = a] : a \in Replies(k, id)}
  /\ UNCHANGED <<stored, acked>>

Next ==
  \/ \E k \in Keys, s \in Snapshots : Publish(k, s)
  \/ \E k \in Keys : Acknowledge(k)
  \/ LoseUnacknowledged
  \/ \E r \in Readers, k \in Keys, id \in Identities : Get(r, k, id)

Spec == Init /\ [][Next]_vars
=============================================================================
