--------------------------- MODULE MemoryStore_proofs ---------------------------
(***************************************************************************)
(* What MemoryStore guarantees for any keys, snapshots and limits.         *)
(***************************************************************************)
EXTENDS MemoryStore, FoldTheorems

\* The running total never exceeds the quota.
WithinQuota == used <= MaxStore

\* The map is finite, whatever the set of possible keys.
Counted ==
  /\ IsFiniteSet(Held)
  /\ used = SumFunction([k \in Held |-> Bytes[entries[k]]])

IInv == TypeOK /\ WithinQuota /\ Counted

\* An answer of the shape a get gives is one of the abstract answers.
LEMMA AnswerTyped ==
  ASSUME NEW k \in Keys, NEW id \in Identities, NEW s \in Snapshots \cup {None},
         NEW status \in {"miss", "hit", "incompatible"}
  PROVE  Abstract!Answer(status, k, id, s) \in Abstract!Answers
  BY DEF Abstract!Answer, Abstract!Answers

\* A total within the quota does not wrap.
LEMMA NoWrap ==
  ASSUME NEW m \in Nat, NEW n \in Nat, m <= MaxStore, n <= MaxStore - m
  PROVE  Plus(m, n) = m + n
<1>1. m + n \in Nat /\ Width \in Nat /\ m + n < Width
  BY MemoryStoreAssumption
<1>2. \A a, w \in Nat : a < w => a % w = a
  OBVIOUS
<1> QED BY <1>1, <1>2 DEF Plus

\* What put adds to the total is what the new entry adds to the sum.
LEMMA PutCounts ==
  ASSUME IInv, NEW k \in Keys, NEW s \in Snapshots, Put(k, s)
  PROVE  Counted'
<1> DEFINE E == [e \in Keys |-> IF e = k THEN s ELSE entries[e]]
           H == {e \in Keys : E[e] # None}
           F == [e \in Held |-> Bytes[entries[e]]]
           G == [e \in H |-> Bytes[E[e]]]
<1>1. entries' = E /\ entries[k] = None /\ used' = used + Bytes[s]
  <2>1. Bytes[s] \in Nat /\ used \in Nat
    BY MemoryStoreAssumption DEF IInv, TypeOK
  <2>2. used' = used + Bytes[s]
    BY <2>1, NoWrap DEF Put
  <2> QED BY <2>2 DEF Put, IInv, TypeOK
<1>2. H = Held \cup {k} /\ k \notin Held /\ H \ {k} = Held
  BY <1>1, MemoryStoreAssumption DEF Held
<1>3. IsFiniteSet(H)
  <2>1. IsFiniteSet(Held)
    BY DEF IInv, Counted
  <2> HIDE DEF H
  <2> QED BY ONLY <2>1, <1>2, FS_AddElement
<1>4. \A e \in H : G[e] \in Int
  BY MemoryStoreAssumption DEF IInv, TypeOK
<1>5. G[k] = Bytes[s] /\ \A e \in Held : G[e] = F[e]
  BY <1>1, <1>2
<1>6. DOMAIN F = Held /\ DOMAIN G = H
  OBVIOUS
<1>7. used = SumFunctionOnSet(F, Held)
  BY <1>6 DEF IInv, Counted, SumFunction
<1>8. SumFunctionOnSet(G, Held) = SumFunctionOnSet(F, Held)
  <2> HIDE DEF F, G, H
  <2> QED BY <1>5, SumSame DEF IInv, Counted
<1>9. SumFunctionOnSet(G, H) = G[k] + SumFunctionOnSet(G, Held)
  <2>1. k \in H
    BY <1>2
  <2> HIDE DEF F, G, H
  <2>2. SumFunctionOnSet(G, H) = G[k] + SumFunctionOnSet(G, H \ {k})
    BY <2>1, <1>3, <1>4, SumRemove
  <2> QED BY <2>2, <1>2
<1>10. Bytes[s] \in Int /\ used \in Int
  BY MemoryStoreAssumption DEF IInv, TypeOK
<1>11. used' = SumFunctionOnSet(G, H)
  <2> HIDE DEF F, G, H
  <2> QED BY <1>1, <1>5, <1>7, <1>8, <1>9, <1>10
<1>12. Held' = H /\ [e \in H |-> Bytes[entries'[e]]] = G
  BY <1>1 DEF Held
<1> QED BY <1>3, <1>6, <1>11, <1>12 DEF Counted, SumFunction

\* put and get keep the types and the quota; check_quota compares with what is
\* left of the quota, so that no sum beyond it is ever formed.
LEMMA InductiveStep ==
  IInv /\ [Next]_vars => IInv'
<1> SUFFICES ASSUME IInv, [Next]_vars PROVE IInv'
  OBVIOUS
<1>1. ASSUME NEW k \in Keys, NEW s \in Snapshots, Put(k, s) PROVE IInv'
  <2>1. Bytes[s] \in Nat /\ used \in Nat /\ MaxStore \in Nat
    BY MemoryStoreAssumption DEF IInv, TypeOK
  <2>2. used' \in Nat /\ used' <= MaxStore
    <3>1. used' = used + Bytes[s]
      BY <1>1, <2>1, NoWrap DEF Put
    <3> QED BY <1>1, <2>1, <3>1 DEF Put
  <2>3. entries' \in [Keys -> Snapshots \cup {None}] /\ answer' = answer
    BY <1>1 DEF Put, IInv, TypeOK
  <2>4. Counted'
    BY <1>1, PutCounts
  <2> QED BY <2>2, <2>3, <2>4 DEF IInv, TypeOK, WithinQuota
<1>2. ASSUME NEW r \in Readers, NEW k \in Keys, NEW id \in Identities, Get(r, k, id)
      PROVE  IInv'
  <2> DEFINE s == entries[k]
             status == IF s = None THEN "miss"
                       ELSE IF IdentityOf[s] = id THEN "hit" ELSE "incompatible"
             a == Abstract!Answer(status, k, id, IF status = "hit" THEN s ELSE None)
  <2>1. a \in Abstract!Answers
    <3>1. /\ status \in {"miss", "hit", "incompatible"}
          /\ (IF status = "hit" THEN s ELSE None) \in Snapshots \cup {None}
      BY DEF IInv, TypeOK
    <3> HIDE DEF status, s
    <3> QED BY <3>1, AnswerTyped
  <2>2. answer' = [answer EXCEPT ![r] = a] /\ UNCHANGED <<entries, used>>
    BY <1>2 DEF Get
  <2> HIDE DEF a
  <2>3. Counted'
    BY <2>2 DEF IInv, Counted, Held
  <2> QED BY <2>1, <2>2, <2>3 DEF IInv, TypeOK, WithinQuota
<1>3. CASE UNCHANGED vars
  BY <1>3 DEF vars, IInv, TypeOK, WithinQuota, Counted, Held
<1> QED BY <1>1, <1>2, <1>3 DEF Next

\* An empty store has the types and is within any quota.
LEMMA InitInvariant == Init => IInv
<1> SUFFICES ASSUME Init PROVE IInv
  OBVIOUS
<1>1. TypeOK /\ WithinQuota
  BY MemoryStoreAssumption DEF Init, TypeOK, WithinQuota
<1>2. Held = {}
  BY DEF Init, Held
<1>3. SumFunction([k \in Held |-> Bytes[entries[k]]]) = 0
  <2> DEFINE F == [k \in Held |-> Bytes[entries[k]]]
  <2>1. DOMAIN F = {}
    BY <1>2
  <2> HIDE DEF F
  <2>2. SumFunction(F) = 0
    BY <2>1, SumOfNone DEF SumFunction
  <2> QED BY <2>2 DEF F
<1>4. Counted
  BY <1>2, <1>3, FS_EmptySet DEF Init, Counted
<1> QED BY <1>1, <1>4 DEF IInv

\* The store's variables keep their types.
THEOREM TypeCorrect == Spec => []TypeOK
<1>1. IInv => TypeOK
  BY DEF IInv
<1> QED BY <1>1, InitInvariant, InductiveStep, PTL DEF Spec

\* used_bytes_ is what the entries add up to, for any keys and record sizes, and
\* never exceeds max_store_bytes, whatever is put.
THEOREM AccountsExactly == Spec => []Accounting
<1>1. IInv => Accounting
  BY DEF IInv, WithinQuota, Counted, Accounting
<1> QED BY <1>1, InitInvariant, InductiveStep, PTL DEF Spec

\* MemoryStore keeps the promises of a snapshot store and loses nothing.
THEOREM ImplementsSnapshotStore == Spec => Refinement
<1>1. Init => Abstract!Init
  BY DEF Init, Abstract!Init
<1>2. IInv /\ [Next]_vars => [Abstract!Next]_(Abstract!vars)
  <2> SUFFICES ASSUME IInv, [Next]_vars
               PROVE  Abstract!Next \/ UNCHANGED <<entries, answer>>
    BY DEF Abstract!vars
  <2>1. ASSUME NEW k \in Keys, NEW s \in Snapshots, Put(k, s) PROVE Abstract!Next
    <3>1. Abstract!Publish(k, s)
      BY <2>1 DEF Put, Abstract!Publish
    <3> QED BY <3>1 DEF Abstract!Next
  <2>2. ASSUME NEW r \in Readers, NEW k \in Keys, NEW id \in Identities, Get(r, k, id)
        PROVE  Abstract!Next
    <3> DEFINE s == entries[k]
               status == IF s = None THEN "miss"
                         ELSE IF IdentityOf[s] = id THEN "hit" ELSE "incompatible"
               a == Abstract!Answer(status, k, id, IF status = "hit" THEN s ELSE None)
    <3>1. a \in Abstract!Replies(k, id)
      BY DEF Abstract!Replies
    <3>2. answer' = [answer EXCEPT ![r] = a] /\ UNCHANGED entries
      BY <2>2 DEF Get
    <3> HIDE DEF a
    <3>3. Abstract!Get(r, k, id)
      BY <3>1, <3>2 DEF Abstract!Get
    <3> QED BY <3>3 DEF Abstract!Next
  <2>3. CASE UNCHANGED vars
    BY <2>3 DEF vars
  <2> QED BY <2>1, <2>2, <2>3 DEF Next
<1> QED BY <1>1, <1>2, InitInvariant, InductiveStep, PTL
        DEF Spec, Refinement, Abstract!Spec
=============================================================================
