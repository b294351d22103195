--------------------------- MODULE FileStore_proofs ---------------------------
(***************************************************************************)
(* What FileStore guarantees for any number of writers, readers, keys,     *)
(* snapshots, inodes and process ids.                                      *)
(***************************************************************************)
EXTENDS FileStore, FoldTheorems

\* The stages of a put that owns a staging file.
Staged == {"write", "seal", "sync", "publish"}

\* A put under way knows what it puts; it names a staging file exactly while
\* it may write, rename or unlink one.
PutKnown ==
  \A w \in Writers : /\ pc[w] # "idle" => job[w] \in Jobs
                     /\ pc[w] \in Staged <=> tmp[w] # None

\* The staging name leads to the inode the put created, and in no directory a
\* power loss may leave does another name.
OwnFile ==
  \A w \in Writers : tmp[w] # None =>
    /\ tmp[w] \in Names \ Keys
    /\ ino[w] \in Inodes \ ForeignInodes
    /\ dir[tmp[w]] = ino[w]
    /\ \A v \in onDisk, n \in Names : v[n] = ino[w] => n = tmp[w]

\* No two puts hold one inode.
OneOwner ==
  \A u, w \in Writers : u # w /\ ino[u] # None => ino[u] # ino[w]

\* How far the record of a staged put has come.
Written ==
  \A w \in Writers : tmp[w] # None =>
    /\ data[ino[w]].snap = job[w].snap
    /\ pc[w] = "write" => data[ino[w]].len < Bytes[job[w].snap]
    /\ pc[w] # "write" => data[ino[w]].len = Bytes[job[w].snap]
    /\ pc[w] \in {"sync", "publish"} => data[ino[w]].sealed
    /\ pc[w] = "publish" => data[ino[w]].synced

\* After the rename the key leads to the record.
Linked ==
  \A w \in Writers : pc[w] = "dirsync" =>
    /\ ino[w] \in Inodes \ ForeignInodes
    /\ dir[job[w].key] = ino[w]
    /\ data[ino[w]].snap = job[w].snap

\* Since the last directory fsync no key lost its entry or changed it, and
\* nothing happened to the files of others.
Journal ==
  /\ dir \in onDisk
  /\ \A v \in onDisk :
       /\ \A k \in Keys : v[k] # None => dir[k] = v[k]
       /\ \A n \in Names : v[n] \in ForeignInodes \/ dir[n] \in ForeignInodes
                             => v[n] = dir[n]

ForeignSynced == \A f \in ForeignInodes : data[f].synced

\* A get that has opened its file knows the question and the inode.
Reading ==
  \A r \in Readers : rpc[r] = "read" => ask[r] \in Questions /\ rino[r] \in Inodes

IInv ==
  /\ TypeOK /\ PutKnown /\ OwnFile /\ OneOwner /\ Written /\ Linked
  /\ Journal /\ ForeignSynced /\ Reading /\ PublishedComplete /\ AckedDurable

\* A put that has staged a file knows its job, its name and its inode.
LEMMA StagedFacts ==
  ASSUME IInv, NEW w \in Writers, pc[w] \in Staged
  PROVE  /\ job[w] \in Jobs
         /\ tmp[w] # None /\ tmp[w] \in Names /\ tmp[w] \notin Keys
         /\ ino[w] \in Inodes /\ ino[w] \notin ForeignInodes
         /\ dir[tmp[w]] = ino[w]
         /\ data[ino[w]] \in Files
  BY DEF IInv, PutKnown, OwnFile, Staged, TypeOK

\* What the writes, the fsync and a power loss do to a file leaves a file.
LEMMA FileChanges ==
  ASSUME NEW f \in Files
  PROVE  /\ [f EXCEPT !.len = @ + 1] \in Files
         /\ [f EXCEPT !.sealed = TRUE] \in Files
         /\ [f EXCEPT !.synced = TRUE] \in Files
         /\ \A b \in BOOLEAN : [f EXCEPT !.snap = IF b THEN Garbage ELSE @,
                                          !.synced = TRUE] \in Files
<1>1. [f EXCEPT !.len = @ + 1] \in Files
  BY DEF Files
<1>2. [f EXCEPT !.sealed = TRUE] \in Files
  BY DEF Files
<1>3. [f EXCEPT !.synced = TRUE] \in Files
  BY DEF Files
<1>4. ASSUME NEW b \in BOOLEAN
      PROVE  [f EXCEPT !.snap = IF b THEN Garbage ELSE @, !.synced = TRUE] \in Files
  <2>1. [f EXCEPT !.snap = Garbage, !.synced = TRUE] \in Files
    BY DEF Files
  <2>2. [f EXCEPT !.snap = f.snap, !.synced = TRUE] \in Files
    BY DEF Files
  <2> QED BY <2>1, <2>2
<1> QED BY <1>1, <1>2, <1>3, <1>4

\* None is no inode, no snapshot and no name.
LEMMA NoneFacts == None \notin Inodes /\ None \notin Snapshots /\ None \notin Names
  BY FileStoreAssumption

\* Every step keeps the types; the actions that write through ino[w] or dir[tmp[w]]
\* need the rest of the invariant for it.
LEMMA TypeStep ==
  IInv /\ [Next]_vars => TypeOK'
<1> SUFFICES ASSUME IInv, [Next]_vars PROVE TypeOK'
  OBVIOUS
<1> USE FileStoreAssumption DEF IInv
<1>1. ASSUME NEW w \in Writers, PutBegin(w) PROVE TypeOK'
  BY <1>1 DEF PutBegin, TypeOK, Goto, getVars, Stages, Jobs
<1>2. ASSUME NEW w \in Writers, CheckExisting(w) PROVE TypeOK'
  BY <1>2 DEF CheckExisting, TypeOK, Goto, getVars, Stages
<1>3. ASSUME NEW w \in Writers, CheckQuota(w) PROVE TypeOK'
  BY <1>3 DEF CheckQuota, TypeOK, Goto, getVars, Stages
<1>4. ASSUME NEW w \in Writers, CheckSpace(w) PROVE TypeOK'
  BY <1>4 DEF CheckSpace, TypeOK, Goto, getVars, Stages
<1>5. ASSUME NEW w \in Writers, FailEarly(w) PROVE TypeOK'
  BY <1>5 DEF FailEarly, TypeOK, Return, getVars, Stages
<1>6. ASSUME NEW w \in Writers, CreateStaging(w) PROVE TypeOK'
  <2>0. /\ pc[w] = "create" /\ seq[w] <= MaxSeq
        /\ seq' = [seq EXCEPT ![w] = @ + 1]
        /\ UNCHANGED <<pid, acked, getVars>>
    BY <1>6 DEF CreateStaging
  <2>1. PICK name \in Names : name = <<pid[w], seq[w]>>
    <3>1. pid[w] \in Pids /\ seq[w] \in 0 .. MaxSeq
      BY <2>0 DEF TypeOK
    <3>2. <<pid[w], seq[w]>> \in Pids \X (0 .. MaxSeq)
      BY <3>1
    <3> QED BY <3>2 DEF Names
  <2>2. job[w] \in Jobs
    BY <2>0 DEF PutKnown
  <2>s. seq' \in [Writers -> 0 .. MaxSeq + 1]
    BY <2>0 DEF TypeOK
  <2>3. CASE \E i \in Inodes : /\ data' = [data EXCEPT ![i] = NewFile(job[w].snap)]
                               /\ SetDirectory([dir EXCEPT ![name] = i])
                               /\ ino' = [ino EXCEPT ![w] = i]
                               /\ tmp' = [tmp EXCEPT ![w] = name]
                               /\ Goto(w, "write")
                               /\ UNCHANGED <<job, tries>>
    <3>0. PICK i \in Inodes : /\ data' = [data EXCEPT ![i] = NewFile(job[w].snap)]
                               /\ SetDirectory([dir EXCEPT ![name] = i])
                               /\ ino' = [ino EXCEPT ![w] = i]
                               /\ tmp' = [tmp EXCEPT ![w] = name]
                               /\ Goto(w, "write")
                               /\ UNCHANGED <<job, tries>>
      BY <2>3
    <3>1. NewFile(job[w].snap) \in Files
      BY <2>2 DEF NewFile, Files, Jobs
    <3>2. data' \in [Inodes -> Files]
      BY <3>0, <3>1 DEF TypeOK
    <3>3. dir' \in Directories /\ onDisk' \subseteq Directories
      <4>1. dir \in Directories /\ onDisk \subseteq Directories
        BY DEF TypeOK
      <4>2. [dir EXCEPT ![name] = i] \in Directories
        BY <4>1, <2>1 DEF Directories
      <4> QED BY ONLY <3>0, <4>1, <4>2 DEF SetDirectory
    <3>4. /\ pc' \in [Writers -> Stages] /\ job' = job /\ tries' = tries
          /\ tmp' \in [Writers -> Names \cup {None}] /\ ino' \in [Writers -> Inodes \cup {None}]
      BY <3>0, <2>1 DEF TypeOK, Goto, Stages
    <3>5. pid' = pid /\ acked' = acked /\ UNCHANGED getVars
      BY <2>0
    <3>6. TypeOK
      OBVIOUS
    <3> QED BY ONLY <2>s, <3>2, <3>3, <3>4, <3>5, <3>6 DEF TypeOK, getVars
  <2>4. CASE /\ tries[w] + 1 < MaxAttempts
             /\ tries' = [tries EXCEPT ![w] = @ + 1]
             /\ UNCHANGED <<dir, onDisk, data, pc, job, tmp, ino>>
    BY <2>4, <2>0, <2>s DEF TypeOK, getVars
  <2>5. CASE Return(w) /\ UNCHANGED <<dir, onDisk, data>>
    BY <2>5, <2>0, <2>s DEF TypeOK, Return, Stages, getVars
  <2> QED BY <1>6, <2>1, <2>3, <2>4, <2>5 DEF CreateStaging
<1>7. ASSUME NEW w \in Writers, WriteChunk(w) PROVE TypeOK'
  <2>1. pc[w] \in Staged BY <1>7 DEF WriteChunk, Staged
  <2>2. data' \in [Inodes -> Files]
    <3>1. [data[ino[w]] EXCEPT !.len = @ + 1] \in Files
      BY <2>1, StagedFacts, FileChanges
    <3>2. data' = [data EXCEPT ![ino[w]] = [data[ino[w]] EXCEPT !.len = @ + 1]]
      BY <1>7 DEF WriteChunk
    <3> QED BY <3>1, <3>2, <2>1, StagedFacts DEF TypeOK
  <2> QED BY <1>7, <2>2 DEF WriteChunk, TypeOK, Goto, Stages, getVars
<1>8. ASSUME NEW w \in Writers, WriteChecksum(w) PROVE TypeOK'
  <2>1. pc[w] \in Staged BY <1>8 DEF WriteChecksum, Staged
  <2>2. data' \in [Inodes -> Files]
    <3>1. [data[ino[w]] EXCEPT !.sealed = TRUE] \in Files
      BY <2>1, StagedFacts, FileChanges
    <3>2. data' = [data EXCEPT ![ino[w]] = [data[ino[w]] EXCEPT !.sealed = TRUE]]
      BY <1>8 DEF WriteChecksum
    <3> QED BY <3>1, <3>2, <2>1, StagedFacts DEF TypeOK
  <2> QED BY <1>8, <2>2 DEF WriteChecksum, TypeOK, Goto, Stages, getVars
<1>9. ASSUME NEW w \in Writers, SyncFile(w) PROVE TypeOK'
  <2>1. pc[w] \in Staged BY <1>9 DEF SyncFile, Staged
  <2>2. data' \in [Inodes -> Files]
    <3>1. [data[ino[w]] EXCEPT !.synced = TRUE] \in Files
      BY <2>1, StagedFacts, FileChanges
    <3>2. data' = [data EXCEPT ![ino[w]] = [data[ino[w]] EXCEPT !.synced = TRUE]]
      BY <1>9 DEF SyncFile
    <3> QED BY <3>1, <3>2, <2>1, StagedFacts DEF TypeOK
  <2> QED BY <1>9, <2>2 DEF SyncFile, TypeOK, Goto, Stages, getVars
<1>10. ASSUME NEW w \in Writers, Rename(w) PROVE TypeOK'
  <2>1. pc[w] \in Staged BY <1>10 DEF Rename, Staged
  <2>2. dir' \in Directories /\ onDisk' \subseteq Directories
    BY <1>10, <2>1, StagedFacts DEF Rename, TypeOK, Directories, SetDirectory
  <2> QED BY <1>10, <2>2 DEF Rename, TypeOK, Goto, Stages, getVars
<1>11. ASSUME NEW w \in Writers, FailStaged(w) PROVE TypeOK'
  <2>1. pc[w] \in Staged BY <1>11 DEF FailStaged, Staged
  <2>2. dir' \in Directories /\ onDisk' \subseteq Directories
    BY <1>11, <2>1, StagedFacts DEF FailStaged, TypeOK, Directories, SetDirectory
  <2> QED BY <1>11, <2>2 DEF FailStaged, TypeOK, Return, Stages, getVars
<1>12. ASSUME NEW w \in Writers, SyncDirectory(w) PROVE TypeOK'
  BY <1>12 DEF SyncDirectory, TypeOK, Journal, PutKnown, Return, getVars, Stages, Jobs
<1>13. ASSUME NEW w \in Writers, FailDirectorySync(w) PROVE TypeOK'
  BY <1>13 DEF FailDirectorySync, TypeOK, Return, getVars, Stages
<1>14. ASSUME NEW r \in Readers, GetOpen(r) PROVE TypeOK'
  <2>1. ASSUME NEW q \in Questions, NEW st \in {"miss", "corrupt"}, Reply(r, q, st, None)
        PROVE  /\ answer' \in [Readers -> Abstract!Answers \cup {Abstract!NoAnswer}]
               /\ rpc' \in [Readers -> {"idle", "read"}]
               /\ ask' \in [Readers -> Questions \cup {None}]
               /\ rino' \in [Readers -> Inodes \cup {None}]
    <3>1. Abstract!Answer(st, q.key, q.identity, None) \in Abstract!Answers
      BY <2>1 DEF Abstract!Answer, Abstract!Answers, Questions
    <3> QED BY <2>1, <3>1 DEF Reply, TypeOK
  <2>2. /\ answer' \in [Readers -> Abstract!Answers \cup {Abstract!NoAnswer}]
               /\ rpc' \in [Readers -> {"idle", "read"}]
               /\ ask' \in [Readers -> Questions \cup {None}]
               /\ rino' \in [Readers -> Inodes \cup {None}]
    <3>0. PICK q \in Questions :
       \/ dir[q.key] = None /\ Reply(r, q, "miss", None)
       \/ Reply(r, q, "corrupt", None)
       \/ /\ dir[q.key] # None
          /\ ask' = [ask EXCEPT ![r] = q]
          /\ rino' = [rino EXCEPT ![r] = dir[q.key]]
          /\ rpc' = [rpc EXCEPT ![r] = "read"]
          /\ UNCHANGED answer
      BY <1>14 DEF GetOpen
    <3>1. q.key \in Names
      BY DEF Questions, Names
    <3>2. dir[q.key] \in Inodes \cup {None}
      BY <3>1 DEF TypeOK, Directories
    <3> QED BY <3>0, <2>1, <3>2 DEF TypeOK
  <2> QED BY <1>14, <2>2 DEF GetOpen, TypeOK, putVars
<1>15. ASSUME NEW r \in Readers, GetRead(r) PROVE TypeOK'
  <2> DEFINE f == data[rino[r]]
             q == ask[r]
  <2>1. q \in Questions /\ f \in Files
    BY <1>15 DEF GetRead, TypeOK, Reading
  <2>2. Verdict(f, q.identity) \in {"miss", "hit", "incompatible", "corrupt"}
    BY DEF Verdict
  <2>3. Verdict(f, q.identity) = "hit" => f.snap \in Snapshots
    BY DEF Verdict, Complete
  <2>4. ASSUME NEW st \in {"miss", "hit", "incompatible", "corrupt"},
               NEW s \in Snapshots \cup {None}, Reply(r, q, st, s)
        PROVE  /\ answer' \in [Readers -> Abstract!Answers \cup {Abstract!NoAnswer}]
               /\ rpc' \in [Readers -> {"idle", "read"}]
               /\ ask' \in [Readers -> Questions \cup {None}]
               /\ rino' \in [Readers -> Inodes \cup {None}]
    <3>1. Abstract!Answer(st, q.key, q.identity, s) \in Abstract!Answers
      BY <2>1 DEF Abstract!Answer, Abstract!Answers, Questions
    <3> QED BY <2>4, <3>1 DEF Reply, TypeOK
  <2>5. \E st \in {"miss", "hit", "incompatible", "corrupt"} :
          \E s \in Snapshots \cup {None} : Reply(r, q, st, s)
    BY <1>15, <2>2, <2>3 DEF GetRead
  <2> QED BY <1>15, <2>4, <2>5 DEF GetRead, TypeOK, putVars
<1>16. CASE PowerLoss
  <2>1. dir' \in Directories /\ onDisk' \subseteq Directories
    BY <1>16 DEF PowerLoss, TypeOK
  <2>2. data' \in [Inodes -> Files]
    <3>1. PICK L \in SUBSET Inodes :
            data' = [i \in Inodes |-> [data[i] EXCEPT
                      !.snap = IF i \in L THEN Garbage ELSE @, !.synced = TRUE]]
      BY <1>16 DEF PowerLoss
    <3>2. ASSUME NEW i \in Inodes
          PROVE  [data[i] EXCEPT !.snap = IF i \in L THEN Garbage ELSE @,
                                 !.synced = TRUE] \in Files
      BY FileChanges DEF TypeOK
    <3> QED BY <3>1, <3>2
  <2>3. answer' \in [Readers -> Abstract!Answers \cup {Abstract!NoAnswer}]
    BY <1>16 DEF PowerLoss
  <2>4. seq' \in [Writers -> 0 .. MaxSeq + 1] /\ tries' \in [Writers -> 0 .. MaxAttempts]
    <3>1. 0 \in 0 .. MaxSeq + 1 /\ 0 \in 0 .. MaxAttempts
      BY FileStoreAssumption
    <3> QED BY <1>16, <3>1 DEF PowerLoss
  <2> QED BY <1>16, <2>1, <2>2, <2>3, <2>4 DEF PowerLoss, TypeOK, Stages
<1>17. ASSUME NEW w \in Writers, Crash(w) PROVE TypeOK'
  BY <1>17 DEF Crash, TypeOK, Return, getVars, Stages
<1>18. CASE UNCHANGED vars
  BY <1>18 DEF TypeOK, vars, putVars, getVars
<1> QED
  BY <1>1, <1>2, <1>3, <1>4, <1>5, <1>6, <1>7, <1>8, <1>9, <1>10, <1>11, <1>12,
     <1>13, <1>14, <1>15, <1>16, <1>17, <1>18 DEF Next, PutStep, GetStep

\* The conjuncts of IInv beyond types.
Coherent ==
  /\ PutKnown /\ OwnFile /\ OneOwner /\ Written /\ Linked
  /\ Journal /\ ForeignSynced /\ Reading /\ PublishedComplete /\ AckedDurable

\* A staging name is a name of the directory and never a key.
LEMMA NameFacts ==
  /\ Keys \subseteq Names
  /\ \A p \in Pids, q \in 0 .. MaxSeq : <<p, q>> \in Names \ Keys
  BY KeyAssumption DEF Names

\* openat with O_EXCL succeeded: a fresh inode under a name nothing had.
LEMMA NewStaging ==
  ASSUME IInv, TypeOK', NEW w \in Writers, CreateStaging(w),
         NEW name \in Names \ Keys, dir[name] = None,
         NEW i \in Inodes, ~InUse(i),
         data' = [data EXCEPT ![i] = NewFile(job[w].snap)],
         SetDirectory([dir EXCEPT ![name] = i]),
         ino' = [ino EXCEPT ![w] = i],
         tmp' = [tmp EXCEPT ![w] = name],
         Goto(w, "write"), UNCHANGED job
  PROVE  OwnFile' /\ Linked' /\ Journal' /\ PublishedComplete' /\ AckedDurable'
<1>1. /\ pc[w] = "create" /\ UNCHANGED <<acked, rpc, ask, rino>>
  BY DEF CreateStaging, getVars
<1>2. /\ i \notin ForeignInodes
      /\ \A v \in onDisk, n \in Names : v[n] # i
      /\ \A u \in Writers : ino[u] # i
  BY DEF InUse
<1>3. /\ \A n \in Names : dir'[n] = IF n = name THEN i ELSE dir[n]
      /\ dir \in onDisk /\ dir' \in onDisk'
      /\ \A v \in onDisk' : v \in onDisk \/ v = dir'
  BY DEF SetDirectory, IInv, Journal, TypeOK, Directories
<1>4. \A j \in Inodes : j # i => data'[j] = data[j]
  BY DEF IInv, TypeOK
<1>5. Keys \subseteq Names /\ None \notin Inodes
  BY NameFacts, NoneFacts
<1>6. OwnFile'
  <2> SUFFICES ASSUME NEW u \in Writers, tmp'[u] # None
               PROVE  /\ tmp'[u] \in Names \ Keys
                      /\ ino'[u] \in Inodes \ ForeignInodes
                      /\ dir'[tmp'[u]] = ino'[u]
                      /\ \A v \in onDisk', n \in Names : v[n] = ino'[u] => n = tmp'[u]
    BY DEF OwnFile
  <2>1. CASE u = w
    BY <2>1, <1>2, <1>3 DEF IInv, TypeOK
  <2>2. CASE u # w
    <3>1. tmp'[u] = tmp[u] /\ ino'[u] = ino[u]
      BY <2>2 DEF IInv, TypeOK
    <3>2. /\ tmp[u] \in Names \ Keys /\ ino[u] \in Inodes \ ForeignInodes
          /\ dir[tmp[u]] = ino[u]
          /\ \A v \in onDisk, n \in Names : v[n] = ino[u] => n = tmp[u]
      BY <3>1 DEF IInv, OwnFile
    <3>3. tmp[u] # name
      BY <3>2, <1>5
    <3> QED BY <3>1, <3>2, <3>3, <1>2, <1>3
  <2> QED BY <2>1, <2>2
<1>7. Linked'
  <2> SUFFICES ASSUME NEW u \in Writers, pc'[u] = "dirsync"
               PROVE  /\ ino'[u] \in Inodes \ ForeignInodes
                      /\ dir'[job'[u].key] = ino'[u]
                      /\ data'[ino'[u]].snap = job'[u].snap
    BY DEF Linked
  <2>1. u # w /\ pc[u] = "dirsync" /\ ino'[u] = ino[u] /\ job'[u] = job[u]
    BY DEF Goto, IInv, TypeOK
  <2>2. /\ ino[u] \in Inodes \ ForeignInodes /\ dir[job[u].key] = ino[u]
        /\ data[ino[u]].snap = job[u].snap /\ job[u].key \in Keys
    BY <2>1 DEF IInv, Linked, PutKnown, Jobs
  <2> QED BY <2>1, <2>2, <1>2, <1>3, <1>4, <1>5
<1>8. Journal'
  <2>1. ASSUME NEW v \in onDisk'
        PROVE  /\ \A k \in Keys : v[k] # None => dir'[k] = v[k]
               /\ \A n \in Names : v[n] \in ForeignInodes \/ dir'[n] \in ForeignInodes
                                     => v[n] = dir'[n]
    <3>1. CASE v = dir'
      BY <3>1
    <3>2. CASE v \in onDisk
      BY <3>2, <1>2, <1>3, <1>5, FileStoreAssumption DEF IInv, Journal
    <3> QED BY <3>1, <3>2, <1>3
  <2> QED BY <2>1, <1>3 DEF Journal
<1>9. ASSUME NEW v \in onDisk', NEW k \in Keys
      PROVE  \E u \in onDisk : u[k] = v[k] /\ (v[k] \in Inodes => data'[v[k]] = data[v[k]])
  BY <1>2, <1>3, <1>4, <1>5
<1>10. PublishedComplete'
  BY <1>9 DEF IInv, PublishedComplete, Complete
<1>11. AckedDurable'
  BY <1>1, <1>9 DEF IInv, AckedDurable
<1> QED BY <1>6, <1>7, <1>8, <1>10, <1>11

\* The staging name is taken, tried again under the next number, or given up.
LEMMA CreateKeeps ==
  ASSUME IInv, TypeOK', NEW w \in Writers, CreateStaging(w)
  PROVE  Coherent'
<1>1. /\ pc[w] = "create" /\ UNCHANGED <<acked, rpc, ask, rino>>
      /\ job[w] \in Jobs
  BY DEF CreateStaging, getVars, IInv, PutKnown
<1>2. CASE /\ UNCHANGED <<dir, onDisk, data>>
           /\ Return(w) \/ UNCHANGED <<pc, job, tmp, ino>>
  <2>1. PutKnown' /\ OwnFile' /\ OneOwner' /\ Written' /\ Linked'
    <3>1. PutKnown' /\ OneOwner'
      <4>1. PutKnown'
        BY <1>2 DEF IInv, PutKnown, TypeOK, Return, Staged
      <4>2. OneOwner'
        BY <1>2 DEF IInv, OneOwner, TypeOK, Return, Staged
      <4> QED BY <4>1, <4>2
    <3>2. OwnFile'
      BY <1>2 DEF IInv, OwnFile, TypeOK, Return
    <3>3. Written'
      BY <1>2 DEF IInv, Written, TypeOK, Return
    <3>4. Linked'
      BY <1>2 DEF IInv, Linked, TypeOK, Return
    <3> QED BY <3>1, <3>2, <3>3, <3>4
  <2>2. /\ Journal' /\ ForeignSynced' /\ Reading'
        /\ PublishedComplete' /\ AckedDurable'
    BY <1>1, <1>2
       DEF IInv, Journal, ForeignSynced, Reading, PublishedComplete, AckedDurable, Complete
  <2> QED BY <2>1, <2>2 DEF Coherent
<1>3. CASE \E i \in Inodes :
             /\ dir[<<pid[w], seq[w]>>] = None /\ ~InUse(i)
             /\ data' = [data EXCEPT ![i] = NewFile(job[w].snap)]
             /\ SetDirectory([dir EXCEPT ![<<pid[w], seq[w]>>] = i])
             /\ ino' = [ino EXCEPT ![w] = i]
             /\ tmp' = [tmp EXCEPT ![w] = <<pid[w], seq[w]>>]
             /\ Goto(w, "write") /\ UNCHANGED job
  <2>1. PICK name \in Names \ Keys : name = <<pid[w], seq[w]>>
    <3>1. pid[w] \in Pids /\ seq[w] \in 0 .. MaxSeq
      BY DEF CreateStaging, IInv, TypeOK
    <3> QED BY <3>1, NameFacts
  <2>2. PICK i \in Inodes :
          /\ dir[name] = None /\ ~InUse(i)
          /\ data' = [data EXCEPT ![i] = NewFile(job[w].snap)]
          /\ SetDirectory([dir EXCEPT ![name] = i])
          /\ ino' = [ino EXCEPT ![w] = i]
          /\ tmp' = [tmp EXCEPT ![w] = name]
          /\ Goto(w, "write") /\ UNCHANGED job
    BY <1>3, <2>1
  <2>3. OwnFile' /\ Linked' /\ Journal' /\ PublishedComplete' /\ AckedDurable'
    BY <2>2, NewStaging
  <2>4. PutKnown'
    BY <1>1, <2>2, NoneFacts DEF IInv, PutKnown, Staged, TypeOK, Goto
  <2>5. OneOwner'
    BY <2>2 DEF IInv, OneOwner, TypeOK, InUse
  <2>6. /\ i \notin ForeignInodes /\ \A u \in Writers : ino[u] # i
    BY <2>2 DEF InUse
  <2>7. ForeignSynced'
    BY <2>2, <2>6, FileStoreAssumption DEF IInv, ForeignSynced, TypeOK
  <2>8. Reading'
    BY <1>1 DEF IInv, Reading
  <2>9. Written'
    <3> SUFFICES ASSUME NEW u \in Writers, tmp'[u] # None
                 PROVE  /\ data'[ino'[u]].snap = job'[u].snap
                        /\ pc'[u] = "write" => data'[ino'[u]].len < Bytes[job'[u].snap]
                        /\ pc'[u] # "write" => data'[ino'[u]].len = Bytes[job'[u].snap]
                        /\ pc'[u] \in {"sync", "publish"} => data'[ino'[u]].sealed
                        /\ pc'[u] = "publish" => data'[ino'[u]].synced
      BY DEF Written
    <3>1. CASE u = w
      <4>1. pc'[u] = "write" /\ ino'[u] = i /\ data'[i] = NewFile(job[w].snap)
        BY <2>2, <3>1 DEF IInv, TypeOK, Goto
      <4>2. Bytes[job[w].snap] \in Nat \ {0}
        BY <1>1, FileStoreAssumption DEF Jobs
      <4> QED BY <2>2, <3>1, <4>1, <4>2 DEF NewFile
    <3>2. CASE u # w
      <4>1. /\ pc'[u] = pc[u] /\ ino'[u] = ino[u] /\ tmp'[u] = tmp[u] /\ job'[u] = job[u]
        BY <2>2, <3>2 DEF IInv, TypeOK, Goto
      <4>2. data'[ino[u]] = data[ino[u]]
        BY <4>1, <2>2, <2>6 DEF IInv, OwnFile, TypeOK
      <4> QED BY <4>1, <4>2 DEF IInv, Written
    <3> QED BY <3>1, <3>2
  <2> QED BY <2>3, <2>4, <2>5, <2>7, <2>8, <2>9 DEF Coherent
<1> QED BY <1>2, <1>3 DEF CreateStaging

\* Removing a staging name, or not.
LEMMA UnlinkKeeps ==
  ASSUME IInv, NEW w \in Writers, pc[w] \in Staged,
         \/ SetDirectory([dir EXCEPT ![tmp[w]] = None])
         \/ UNCHANGED <<dir, onDisk>>,
         UNCHANGED <<data, acked>>
  PROVE  /\ \A n \in Names \ {tmp[w]} : dir'[n] = dir[n]
         /\ \A v \in onDisk' : \/ v \in onDisk
                               \/ v = dir' /\ v[tmp[w]] = None
         /\ Journal' /\ PublishedComplete' /\ AckedDurable'
<1>1. /\ tmp[w] \in Names \ Keys /\ dir[tmp[w]] \notin ForeignInodes
      /\ dir[tmp[w]] \in Inodes
  BY StagedFacts
<1>2. /\ \A n \in Names \ {tmp[w]} : dir'[n] = dir[n]
      /\ \A v \in onDisk' : v \in onDisk \/ (v = dir' /\ v[tmp[w]] = None)
      /\ dir' \in onDisk'
      /\ dir' # dir => dir'[tmp[w]] = None
  BY <1>1 DEF SetDirectory, IInv, Journal, TypeOK, Directories
<1>3. Keys \subseteq Names /\ None \notin Inodes /\ None \notin ForeignInodes
  BY NameFacts, NoneFacts, FileStoreAssumption
<1>4. ASSUME NEW v \in onDisk'
      PROVE  /\ \A k \in Keys : v[k] # None => dir'[k] = v[k]
             /\ \A n \in Names : v[n] \in ForeignInodes \/ dir'[n] \in ForeignInodes
                                   => v[n] = dir'[n]
  <2>1. CASE v = dir'
    BY <2>1
  <2>2. CASE v \in onDisk
    <3>1. ASSUME NEW k \in Keys, v[k] # None PROVE dir'[k] = v[k]
      BY <2>2, <3>1, <1>1, <1>2, <1>3 DEF IInv, Journal
    <3>2. ASSUME NEW n \in Names, v[n] \in ForeignInodes \/ dir'[n] \in ForeignInodes
          PROVE  v[n] = dir'[n]
      <4>1. CASE n = tmp[w]
        BY <2>2, <3>2, <4>1, <1>1, <1>2, <1>3 DEF IInv, Journal
      <4>2. CASE n # tmp[w]
        BY <2>2, <3>2, <4>2, <1>2 DEF IInv, Journal
      <4> QED BY <4>1, <4>2
    <3> QED BY <3>1, <3>2
  <2> QED BY <2>1, <2>2, <1>2
<1>5. ASSUME NEW v \in onDisk', NEW k \in Keys
      PROVE  \E u \in onDisk : u[k] = v[k]
  <2>1. dir \in onDisk BY DEF IInv, Journal
  <2> QED BY <2>1, <1>1, <1>2, <1>3
<1>6. Journal' /\ PublishedComplete' /\ AckedDurable'
  <2>1. Journal'
    BY <1>2, <1>4 DEF Journal
  <2>2. PublishedComplete'
    BY <1>5 DEF IInv, PublishedComplete, Complete
  <2>3. AckedDurable'
    BY <1>5 DEF IInv, AckedDurable
  <2> QED BY <2>1, <2>2, <2>3
<1> QED BY <1>2, <1>6

\* A put fails with its file staged.
LEMMA FailStagedKeeps ==
  ASSUME IInv, TypeOK', NEW w \in Writers, FailStaged(w)
  PROVE  Coherent'
<1>1. /\ pc[w] \in Staged
      /\ SetDirectory([dir EXCEPT ![tmp[w]] = None]) \/ UNCHANGED <<dir, onDisk>>
      /\ Return(w)
      /\ UNCHANGED <<data, acked, rpc, ask, rino>>
  BY DEF FailStaged, Staged, getVars
<1>2. /\ \A n \in Names \ {tmp[w]} : dir'[n] = dir[n]
      /\ \A v \in onDisk' : \/ v \in onDisk
                            \/ v = dir' /\ v[tmp[w]] = None
      /\ Journal' /\ PublishedComplete' /\ AckedDurable'
  BY <1>1, UnlinkKeeps
<1>3. PutKnown' /\ OneOwner' /\ Written' /\ ForeignSynced' /\ Reading'
  BY <1>1 DEF IInv, PutKnown, OneOwner, Written, ForeignSynced, Reading, TypeOK,
              Return, Staged
<1>4. /\ tmp[w] \in Names \ Keys /\ ino[w] \in Inodes /\ dir[tmp[w]] = ino[w]
      /\ Keys \subseteq Names /\ None \notin Inodes
  BY <1>1, StagedFacts, NameFacts, NoneFacts
<1>5. OwnFile'
  <2> SUFFICES ASSUME NEW u \in Writers, tmp'[u] # None
               PROVE  /\ tmp'[u] \in Names \ Keys
                      /\ ino'[u] \in Inodes \ ForeignInodes
                      /\ dir'[tmp'[u]] = ino'[u]
                      /\ \A v \in onDisk', n \in Names : v[n] = ino'[u] => n = tmp'[u]
    BY DEF OwnFile
  <2>1. u # w /\ tmp'[u] = tmp[u] /\ ino'[u] = ino[u]
    BY <1>1 DEF Return, IInv, TypeOK
  <2>2. /\ tmp[u] \in Names \ Keys /\ ino[u] \in Inodes \ ForeignInodes
        /\ dir[tmp[u]] = ino[u]
        /\ \A v \in onDisk, n \in Names : v[n] = ino[u] => n = tmp[u]
    BY <2>1 DEF IInv, OwnFile
  <2>3. tmp[u] # tmp[w]
    BY <2>1, <2>2, <1>4 DEF IInv, OneOwner
  <2>4. dir \in onDisk BY DEF IInv, Journal
  <2> QED BY <2>1, <2>2, <2>3, <2>4, <1>2, <1>4
<1>6. Linked'
  BY <1>1, <1>2, <1>4 DEF Return, IInv, TypeOK, Linked, PutKnown, Jobs
<1> QED BY <1>2, <1>3, <1>5, <1>6 DEF Coherent

\* Writing to a staging file touches no published file.
LEMMA WriteKeeps ==
  ASSUME IInv, NEW w \in Writers, pc[w] \in Staged, NEW f \in Files,
         f.snap = data[ino[w]].snap, data' = [data EXCEPT ![ino[w]] = f],
         UNCHANGED <<dir, onDisk, job, tmp, ino, acked, rpc, ask, rino>>,
         pc' \in {[pc EXCEPT ![w] = s] : s \in Staged}
  PROVE  /\ PutKnown' /\ OwnFile' /\ OneOwner' /\ Linked' /\ Journal'
         /\ ForeignSynced' /\ Reading' /\ PublishedComplete' /\ AckedDurable'
         /\ \A u \in Writers \ {w} : tmp[u] # None => data'[ino[u]] = data[ino[u]]
<1>1. /\ tmp[w] \in Names \ Keys /\ ino[w] \in Inodes \ ForeignInodes
      /\ \A v \in onDisk, n \in Names : v[n] = ino[w] => n = tmp[w]
      /\ dir[tmp[w]] = ino[w] /\ tmp[w] # None
  BY DEF IInv, PutKnown, OwnFile
<1>2. \A i \in Inodes : i # ino[w] => data'[i] = data[i]
  BY DEF IInv, TypeOK
<1>3. \A v \in onDisk, k \in Keys : v[k] \in Inodes => data'[v[k]] = data[v[k]]
  BY <1>1, <1>2, NameFacts
<1>4. PutKnown' /\ OwnFile' /\ OneOwner' /\ Journal' /\ Reading'
  BY <1>1 DEF IInv, PutKnown, OwnFile, OneOwner, Journal, Reading, Staged, TypeOK
<1>5. ForeignSynced'
  BY <1>1, <1>2, FileStoreAssumption DEF IInv, ForeignSynced
<1>6. PublishedComplete' /\ AckedDurable'
  BY <1>3 DEF IInv, PublishedComplete, AckedDurable, Complete
<1>7. Linked'
  <2> SUFFICES ASSUME NEW u \in Writers, pc'[u] = "dirsync"
               PROVE  /\ ino'[u] \in Inodes \ ForeignInodes
                      /\ dir'[job'[u].key] = ino'[u]
                      /\ data'[ino'[u]].snap = job'[u].snap
    BY DEF Linked
  <2>1. u # w /\ pc[u] = "dirsync"
    BY DEF Staged, IInv, TypeOK
  <2>2. ino[u] # ino[w] /\ ino[u] \in Inodes
    BY <2>1, NoneFacts DEF IInv, OneOwner, Linked
  <2> QED BY <2>1, <2>2, <1>2 DEF IInv, Linked
<1>8. \A u \in Writers \ {w} : tmp[u] # None => data'[ino[u]] = data[ino[u]]
  BY <1>2, NoneFacts DEF IInv, OneOwner, OwnFile
<1> QED BY <1>4, <1>5, <1>6, <1>7, <1>8

\* A chunk of the record is written.
LEMMA WriteChunkKeeps ==
  ASSUME IInv, NEW w \in Writers, WriteChunk(w)
  PROVE  Coherent'
<1> DEFINE f == [data[ino[w]] EXCEPT !.len = @ + 1]
<1>1. pc[w] = "write" /\ pc[w] \in Staged
  BY DEF WriteChunk, Staged
<1>2. /\ job[w] \in Jobs /\ tmp[w] # None
      /\ ino[w] \in Inodes /\ data[ino[w]] \in Files
  BY <1>1, StagedFacts
<1>3. f \in Files /\ f.snap = data[ino[w]].snap /\ f.len = data[ino[w]].len + 1
  BY <1>2, FileChanges DEF Files
<1>4. data' = [data EXCEPT ![ino[w]] = f] /\ data'[ino[w]] = f
  BY <1>2 DEF WriteChunk, IInv, TypeOK
<1>5. /\ pc'[w] = IF f.len = Bytes[job[w].snap] THEN "seal" ELSE "write"
      /\ \A u \in Writers \ {w} : pc'[u] = pc[u]
      /\ pc' \in {[pc EXCEPT ![w] = s] : s \in Staged}
  BY <1>4 DEF WriteChunk, Goto, Staged, IInv, TypeOK
<1>6. UNCHANGED <<dir, onDisk, job, tmp, ino, acked, rpc, ask, rino>>
  BY DEF WriteChunk, getVars
<1> HIDE DEF f
<1>7. /\ PutKnown' /\ OwnFile' /\ OneOwner' /\ Linked' /\ Journal'
      /\ ForeignSynced' /\ Reading' /\ PublishedComplete' /\ AckedDurable'
      /\ \A u \in Writers \ {w} : tmp[u] # None => data'[ino[u]] = data[ino[u]]
  BY <1>1, <1>3, <1>4, <1>5, <1>6, WriteKeeps
<1>8. /\ f.snap = job[w].snap
      /\ pc'[w] = "write" => f.len < Bytes[job[w].snap]
      /\ pc'[w] # "write" => f.len = Bytes[job[w].snap]
      /\ pc'[w] \notin {"sync", "publish"}
  <2>1. /\ data[ino[w]].snap = job[w].snap
        /\ data[ino[w]].len < Bytes[job[w].snap]
    BY <1>1, <1>2 DEF IInv, Written
  <2>2. Bytes[job[w].snap] \in Nat /\ data[ino[w]].len \in Nat
    BY <1>2, FileStoreAssumption DEF Jobs, Files
  <2> QED BY <1>3, <1>5, <2>1, <2>2
<1>9. Written'
  BY <1>4, <1>5, <1>6, <1>7, <1>8 DEF IInv, Written
<1> QED BY <1>7, <1>9 DEF Coherent

\* The checksum is written.
LEMMA WriteChecksumKeeps ==
  ASSUME IInv, NEW w \in Writers, WriteChecksum(w)
  PROVE  Coherent'
<1> DEFINE f == [data[ino[w]] EXCEPT !.sealed = TRUE]
<1>1. pc[w] = "seal" /\ pc[w] \in Staged
  BY DEF WriteChecksum, Staged
<1>2. /\ job[w] \in Jobs /\ tmp[w] # None
      /\ ino[w] \in Inodes /\ data[ino[w]] \in Files
  BY <1>1, StagedFacts
<1>3. f \in Files /\ f.snap = data[ino[w]].snap /\ f.len = data[ino[w]].len /\ f.sealed
  BY <1>2, FileChanges DEF Files
<1>4. data' = [data EXCEPT ![ino[w]] = f] /\ data'[ino[w]] = f
  BY <1>2 DEF WriteChecksum, IInv, TypeOK
<1>5. /\ pc'[w] = "sync" /\ \A u \in Writers \ {w} : pc'[u] = pc[u]
      /\ pc' \in {[pc EXCEPT ![w] = s] : s \in Staged}
  BY DEF WriteChecksum, Goto, Staged, IInv, TypeOK
<1>6. UNCHANGED <<dir, onDisk, job, tmp, ino, acked, rpc, ask, rino>>
  BY DEF WriteChecksum, getVars
<1> HIDE DEF f
<1>7. /\ PutKnown' /\ OwnFile' /\ OneOwner' /\ Linked' /\ Journal'
      /\ ForeignSynced' /\ Reading' /\ PublishedComplete' /\ AckedDurable'
      /\ \A u \in Writers \ {w} : tmp[u] # None => data'[ino[u]] = data[ino[u]]
  BY <1>1, <1>3, <1>4, <1>5, <1>6, WriteKeeps
<1>8. f.snap = job[w].snap /\ f.len = Bytes[job[w].snap] /\ f.sealed
  BY <1>1, <1>2, <1>3 DEF IInv, Written
<1>9. Written'
  BY <1>4, <1>5, <1>6, <1>7, <1>8 DEF IInv, Written
<1> QED BY <1>7, <1>9 DEF Coherent

\* The file is fsynced: from here on it may be published.
LEMMA SyncFileKeeps ==
  ASSUME IInv, NEW w \in Writers, SyncFile(w)
  PROVE  Coherent'
<1> DEFINE f == [data[ino[w]] EXCEPT !.synced = TRUE]
<1>1. pc[w] = "sync" /\ pc[w] \in Staged
  BY DEF SyncFile, Staged
<1>2. /\ job[w] \in Jobs /\ tmp[w] # None
      /\ ino[w] \in Inodes /\ data[ino[w]] \in Files
  BY <1>1, StagedFacts
<1>3. /\ f \in Files /\ f.snap = data[ino[w]].snap /\ f.len = data[ino[w]].len
      /\ f.sealed = data[ino[w]].sealed /\ f.synced
  BY <1>2, FileChanges DEF Files
<1>4. data' = [data EXCEPT ![ino[w]] = f] /\ data'[ino[w]] = f
  BY <1>2 DEF SyncFile, IInv, TypeOK
<1>5. /\ pc'[w] = "publish" /\ \A u \in Writers \ {w} : pc'[u] = pc[u]
      /\ pc' \in {[pc EXCEPT ![w] = s] : s \in Staged}
  BY DEF SyncFile, Goto, Staged, IInv, TypeOK
<1>6. UNCHANGED <<dir, onDisk, job, tmp, ino, acked, rpc, ask, rino>>
  BY DEF SyncFile, getVars
<1> HIDE DEF f
<1>7. /\ PutKnown' /\ OwnFile' /\ OneOwner' /\ Linked' /\ Journal'
      /\ ForeignSynced' /\ Reading' /\ PublishedComplete' /\ AckedDurable'
      /\ \A u \in Writers \ {w} : tmp[u] # None => data'[ino[u]] = data[ino[u]]
  BY <1>1, <1>3, <1>4, <1>5, <1>6, WriteKeeps
<1>8. /\ f.snap = job[w].snap /\ f.len = Bytes[job[w].snap] /\ f.sealed /\ f.synced
  BY <1>1, <1>2, <1>3 DEF IInv, Written
<1>9. Written'
  BY <1>4, <1>5, <1>6, <1>7, <1>8 DEF IInv, Written
<1> QED BY <1>7, <1>9 DEF Coherent

\* The rename makes a complete, synced record visible under a free key.
LEMMA RenameKeeps ==
  ASSUME IInv, TypeOK', NEW w \in Writers, Rename(w)
  PROVE  Coherent'
<1> DEFINE key == job[w].key
           new == [dir EXCEPT ![key] = dir[tmp[w]], ![tmp[w]] = None]
<1>1. /\ pc[w] = "publish" /\ pc[w] \in Staged /\ dir[key] = None
      /\ SetDirectory(new) /\ tmp' = [tmp EXCEPT ![w] = None]
      /\ pc' = [pc EXCEPT ![w] = "dirsync"]
      /\ UNCHANGED <<data, job, ino, acked, rpc, ask, rino>>
  BY DEF Rename, Staged, Goto, getVars
<1>2. /\ job[w] \in Jobs /\ key \in Keys /\ key \in Names
      /\ tmp[w] # None /\ tmp[w] \in Names \ Keys
      /\ ino[w] \in Inodes \ ForeignInodes /\ dir[tmp[w]] = ino[w]
      /\ \A v \in onDisk, n \in Names : v[n] = ino[w] => n = tmp[w]
  <2>1. job[w] \in Jobs /\ key \in Keys
    BY <1>1, StagedFacts DEF Jobs
  <2> QED BY <1>1, <2>1, StagedFacts, NameFacts DEF IInv, OwnFile
<1>3. /\ dir'[key] = ino[w] /\ dir'[tmp[w]] = None
      /\ \A n \in Names \ {key, tmp[w]} : dir'[n] = dir[n]
      /\ dir \in onDisk /\ dir' \in onDisk'
      /\ \A v \in onDisk' : v \in onDisk \/ v = dir'
  BY <1>1, <1>2 DEF SetDirectory, IInv, Journal, TypeOK, Directories
<1>4. Keys \subseteq Names /\ None \notin Inodes /\ None \notin ForeignInodes
  BY NameFacts, NoneFacts, FileStoreAssumption
<1> HIDE DEF key, new
<1>5. PutKnown' /\ OneOwner' /\ Written' /\ ForeignSynced' /\ Reading'
  <2>1. PutKnown'
    BY <1>1, <1>2 DEF IInv, PutKnown, Staged, TypeOK
  <2>2. OneOwner' /\ ForeignSynced' /\ Reading'
    BY <1>1 DEF IInv, OneOwner, ForeignSynced, Reading
  <2>3. Written'
    BY <1>1 DEF IInv, Written, TypeOK
  <2> QED BY <2>1, <2>2, <2>3
<1>6. OwnFile'
  <2> SUFFICES ASSUME NEW u \in Writers, tmp'[u] # None
               PROVE  /\ tmp'[u] \in Names \ Keys
                      /\ ino'[u] \in Inodes \ ForeignInodes
                      /\ dir'[tmp'[u]] = ino'[u]
                      /\ \A v \in onDisk', n \in Names : v[n] = ino'[u] => n = tmp'[u]
    BY DEF OwnFile
  <2>1. u # w /\ tmp'[u] = tmp[u] /\ ino'[u] = ino[u]
    BY <1>1 DEF IInv, TypeOK
  <2>2. /\ tmp[u] \in Names \ Keys /\ ino[u] \in Inodes \ ForeignInodes
        /\ dir[tmp[u]] = ino[u]
        /\ \A v \in onDisk, n \in Names : v[n] = ino[u] => n = tmp[u]
    BY <2>1 DEF IInv, OwnFile
  <2>3. ino[u] # ino[w] /\ tmp[u] # tmp[w]
    BY <2>1, <2>2, <1>2, <1>4 DEF IInv, OneOwner
  <2>4. tmp[u] # key BY <2>2, <1>2
  <2>5. ASSUME NEW n \in Names, dir'[n] = ino[u] PROVE n = tmp[u]
    BY <2>2, <2>3, <2>5, <1>3, <1>4
  <2> QED BY <2>1, <2>2, <2>3, <2>4, <2>5, <1>3
<1>7. Linked'
  <2> SUFFICES ASSUME NEW u \in Writers, pc'[u] = "dirsync"
               PROVE  /\ ino'[u] \in Inodes \ ForeignInodes
                      /\ dir'[job'[u].key] = ino'[u]
                      /\ data'[ino'[u]].snap = job'[u].snap
    BY DEF Linked
  <2>1. CASE u = w
    BY <2>1, <1>1, <1>2, <1>3 DEF IInv, Written, key
  <2>2. CASE u # w
    <3>1. /\ pc[u] = "dirsync" /\ ino[u] \in Inodes \ ForeignInodes
          /\ dir[job[u].key] = ino[u] /\ data[ino[u]].snap = job[u].snap
      BY <2>2, <1>1 DEF IInv, Linked, TypeOK
    <3>2. job[u].key \in Keys
      BY <3>1 DEF IInv, PutKnown, Jobs
    <3>3. job[u].key # key /\ job[u].key # tmp[w]
      BY <3>1, <3>2, <1>1, <1>2, <1>4
    <3> QED BY <3>1, <3>2, <3>3, <1>1, <1>3, <1>4
  <2> QED BY <2>1, <2>2
<1>8. Journal'
  <2> SUFFICES ASSUME NEW v \in onDisk'
               PROVE  /\ \A k \in Keys : v[k] # None => dir'[k] = v[k]
                      /\ \A n \in Names : v[n] \in ForeignInodes \/ dir'[n] \in ForeignInodes
                                            => v[n] = dir'[n]
    BY <1>3 DEF Journal
  <2>1. CASE v = dir'
    BY <2>1
  <2>2. CASE v \in onDisk
    <3>1. ASSUME NEW k \in Keys, v[k] # None PROVE dir'[k] = v[k]
      BY <2>2, <3>1, <1>1, <1>2, <1>3, <1>4 DEF IInv, Journal
    <3>2. ASSUME NEW n \in Names, v[n] \in ForeignInodes \/ dir'[n] \in ForeignInodes
          PROVE  v[n] = dir'[n]
      <4>1. CASE n \in {key, tmp[w]}
        BY <2>2, <3>2, <4>1, <1>1, <1>2, <1>3, <1>4 DEF IInv, Journal
      <4>2. CASE n \notin {key, tmp[w]}
        BY <2>2, <3>2, <4>2, <1>3 DEF IInv, Journal
      <4> QED BY <4>1, <4>2
    <3> QED BY <3>1, <3>2
  <2> QED BY <2>1, <2>2, <1>3
<1>9. PublishedComplete'
  <2> SUFFICES ASSUME NEW v \in onDisk', NEW k \in Keys, v[k] \in Inodes \ ForeignInodes
               PROVE  Complete(data[v[k]]) /\ data[v[k]].synced
    BY <1>1 DEF PublishedComplete, Complete
  <2>1. CASE v \in onDisk
    BY <2>1 DEF IInv, PublishedComplete
  <2>2. CASE v = dir' /\ k # key
    <3>1. v[k] = dir[k]
      BY <2>2, <1>2, <1>3, <1>4
    <3> QED BY <3>1, <1>3 DEF IInv, PublishedComplete
  <2>3. CASE v = dir' /\ k = key
    <3>1. v[k] = ino[w] BY <2>3, <1>3
    <3>2. /\ data[ino[w]].snap = job[w].snap /\ data[ino[w]].len = Bytes[job[w].snap]
          /\ data[ino[w]].sealed /\ data[ino[w]].synced
      BY <1>1, <1>2 DEF IInv, Written
    <3>3. job[w].snap \in Snapshots BY <1>2 DEF Jobs
    <3> QED BY <3>1, <3>2, <3>3 DEF Complete
  <2> QED BY <2>1, <2>2, <2>3, <1>3
<1>10. AckedDurable'
  <2> SUFFICES ASSUME NEW k \in Keys, acked[k] # None, NEW v \in onDisk'
               PROVE  v[k] \in Inodes \ ForeignInodes /\ data[v[k]].snap = acked[k]
    BY <1>1 DEF AckedDurable
  <2>1. k # key /\ dir[k] \in Inodes
    BY <1>1, <1>3, <1>4 DEF IInv, AckedDurable
  <2>2. v \in onDisk \/ v[k] = dir[k]
    BY <2>1, <1>2, <1>3, <1>4
  <2> QED BY <2>2, <1>3 DEF IInv, AckedDurable
<1> QED BY <1>5, <1>6, <1>7, <1>8, <1>9, <1>10 DEF Coherent

\* The steps of put that touch no file.
LEMMA QuietKeeps ==
  ASSUME IInv, TypeOK', NEW w \in Writers,
         \/ PutBegin(w) \/ CheckExisting(w) \/ CheckQuota(w) \/ CheckSpace(w)
  PROVE  Coherent'
<1>1. /\ pc[w] \notin Staged \cup {"dirsync"}
      /\ \A u \in Writers \ {w} : pc'[u] = pc[u] /\ job'[u] = job[u]
      /\ pc'[w] \notin Staged \cup {"dirsync"}
      /\ job'[w] \in Jobs
      /\ UNCHANGED <<dir, onDisk, data, tmp, ino, acked, rpc, ask, rino>>
  BY DEF PutBegin, CheckExisting, CheckQuota, CheckSpace, Goto, Staged, getVars,
         IInv, TypeOK, PutKnown, Jobs
<1>2. PutKnown' /\ Written' /\ Linked'
  BY <1>1 DEF IInv, PutKnown, Written, Linked
<1>3. /\ OwnFile' /\ OneOwner' /\ Journal' /\ ForeignSynced' /\ Reading'
      /\ PublishedComplete' /\ AckedDurable'
  BY <1>1 DEF IInv, OwnFile, OneOwner, Journal, ForeignSynced, Reading,
              PublishedComplete, AckedDurable, Complete
<1> QED BY <1>2, <1>3 DEF Coherent

\* The ends of a put, and the death of its process, that touch no file.
LEMMA ReturnKeeps ==
  ASSUME IInv, NEW w \in Writers, Return(w),
         UNCHANGED <<dir, onDisk, data, acked, rpc, ask, rino>>
  PROVE  Coherent'
<1>1. PutKnown' /\ OneOwner'
  BY DEF IInv, PutKnown, OneOwner, TypeOK, Return, Staged
<1>2. OwnFile'
  BY DEF IInv, OwnFile, TypeOK, Return
<1>3. Written'
  BY DEF IInv, Written, TypeOK, Return
<1>4. Linked'
  BY DEF IInv, Linked, TypeOK, Return
<1>5. Journal' /\ ForeignSynced' /\ Reading' /\ PublishedComplete' /\ AckedDurable'
  BY DEF IInv, Journal, ForeignSynced, Reading, PublishedComplete, AckedDurable, Complete
<1> QED BY <1>1, <1>2, <1>3, <1>4, <1>5 DEF Coherent

\* The directory fsync forgets the older directories, and put is acknowledged.
LEMMA SyncDirectoryKeeps ==
  ASSUME IInv, NEW w \in Writers, SyncDirectory(w)
  PROVE  Coherent'
<1>1. /\ pc[w] = "dirsync" /\ onDisk' = {dir} /\ Return(w)
      /\ acked' = [acked EXCEPT ![job[w].key] = job[w].snap]
      /\ UNCHANGED <<dir, data, rpc, ask, rino>>
  BY DEF SyncDirectory, getVars
<1>2. PutKnown' /\ OneOwner' /\ Written' /\ ForeignSynced' /\ Reading'
  <2>1. PutKnown' /\ OneOwner'
    BY <1>1 DEF IInv, PutKnown, OneOwner, TypeOK, Return, Staged
  <2>2. Written'
    BY <1>1 DEF IInv, Written, TypeOK, Return
  <2>3. ForeignSynced' /\ Reading'
    BY <1>1 DEF IInv, ForeignSynced, Reading
  <2> QED BY <2>1, <2>2, <2>3
<1>3. dir \in onDisk
  BY DEF IInv, Journal
<1>4. OwnFile'
  BY <1>1, <1>3 DEF IInv, OwnFile, TypeOK, Return
<1>5. Linked'
  BY <1>1 DEF IInv, Linked, TypeOK, Return
<1>6. Journal'
  BY <1>1 DEF Journal
<1>7. PublishedComplete'
  <2>1. \A k \in Keys : dir[k] \in Inodes \ ForeignInodes =>
          Complete(data[dir[k]]) /\ data[dir[k]].synced
    BY <1>3 DEF IInv, PublishedComplete
  <2> QED BY <1>1, <2>1 DEF PublishedComplete, Complete
<1>8. AckedDurable'
  <2> SUFFICES ASSUME NEW k \in Keys, acked'[k] # None
               PROVE  dir[k] \in Inodes \ ForeignInodes /\ data[dir[k]].snap = acked'[k]
    BY <1>1 DEF AckedDurable
  <2>1. CASE k = job[w].key
    BY <2>1, <1>1 DEF IInv, Linked, TypeOK
  <2>2. CASE k # job[w].key
    BY <2>2, <1>1, <1>3 DEF IInv, AckedDurable, TypeOK
  <2> QED BY <2>1, <2>2
<1> QED BY <1>2, <1>4, <1>5, <1>6, <1>7, <1>8 DEF Coherent

\* A get changes no file.
LEMMA GetKeeps ==
  ASSUME IInv, TypeOK', NEW r \in Readers, GetStep(r)
  PROVE  Coherent'
<1>1. UNCHANGED <<dir, onDisk, data, putVars, acked>>
  BY DEF GetStep, GetOpen, GetRead
<1>2. Reading'
  <2>1. ASSUME NEW q, NEW st, NEW s, Reply(r, q, st, s)
        PROVE  Reading'
    BY <2>1 DEF Reply, IInv, Reading, TypeOK
  <2>2. CASE GetOpen(r)
    <3>1. PICK q \in Questions :
            \/ Reply(r, q, "miss", None)
            \/ Reply(r, q, "corrupt", None)
            \/ /\ dir[q.key] # None
               /\ ask' = [ask EXCEPT ![r] = q]
               /\ rino' = [rino EXCEPT ![r] = dir[q.key]]
               /\ rpc' = [rpc EXCEPT ![r] = "read"]
      BY <2>2 DEF GetOpen
    <3>2. q.key \in Names
      BY NameFacts DEF Questions
    <3>3. dir[q.key] \in Inodes \cup {None}
      BY <3>2 DEF IInv, TypeOK, Directories
    <3> QED BY <2>1, <3>1, <3>3 DEF IInv, Reading, TypeOK
  <2>3. CASE GetRead(r)
    BY <2>1, <2>3 DEF GetRead
  <2> QED BY <2>2, <2>3 DEF GetStep
<1>3. /\ PutKnown' /\ OwnFile' /\ OneOwner' /\ Written' /\ Linked'
      /\ Journal' /\ ForeignSynced' /\ PublishedComplete' /\ AckedDurable'
  BY <1>1 DEF putVars, IInv, PutKnown, OwnFile, OneOwner, Written, Linked,
              Journal, ForeignSynced, PublishedComplete, AckedDurable, Complete
<1> QED BY <1>2, <1>3 DEF Coherent

\* What a power loss does to the files.
LEMMA PowerLossData ==
  ASSUME IInv, PowerLoss, NEW i \in Inodes
  PROVE  /\ data'[i].synced
         /\ data'[i].len = data[i].len /\ data'[i].sealed = data[i].sealed
         /\ data'[i].private = data[i].private
         /\ data[i].synced => data'[i] = data[i]
<1>1. PICK L \in SUBSET {j \in Inodes : ~data[j].synced} :
        data' = [j \in Inodes |->
                  [data[j] EXCEPT !.snap = IF j \in L THEN Garbage ELSE @,
                                  !.synced = TRUE]]
  BY DEF PowerLoss
<1>2. data[i] \in Files
  BY DEF IInv, TypeOK
<1>3. data'[i] = [snap |-> IF i \in L THEN Garbage ELSE data[i].snap,
                  len |-> data[i].len, sealed |-> data[i].sealed,
                  synced |-> TRUE, private |-> data[i].private]
  BY <1>1, <1>2 DEF Files
<1>4. data[i] = [snap |-> data[i].snap, len |-> data[i].len, sealed |-> data[i].sealed,
                 synced |-> data[i].synced, private |-> data[i].private]
  BY <1>2 DEF Files
<1>5. data[i].synced \in BOOLEAN
  BY <1>2 DEF Files
<1>6. ASSUME data[i].synced PROVE data'[i] = data[i]
  <2>1. i \notin L BY <1>6
  <2>2. data[i].synced = TRUE BY <1>5, <1>6
  <2> QED BY <2>1, <2>2, <1>3, <1>4
<1> QED BY <1>3, <1>6

\* After a power loss one version of the directory is left, and nobody runs.
LEMMA PowerLossKeeps ==
  ASSUME IInv, PowerLoss
  PROVE  Coherent'
<1>1. PICK v \in onDisk : dir' = v /\ onDisk' = {v}
  BY DEF PowerLoss
<1>2. /\ pc' = [w \in Writers |-> "idle"] /\ tmp' = [w \in Writers |-> None]
      /\ ino' = [w \in Writers |-> None] /\ rpc' = [r \in Readers |-> "idle"]
      /\ UNCHANGED acked
  BY DEF PowerLoss
<1>3. PutKnown' /\ OwnFile' /\ OneOwner' /\ Written' /\ Linked' /\ Reading'
  BY <1>2 DEF PutKnown, OwnFile, OneOwner, Written, Linked, Reading, Staged
<1>4. Journal'
  BY <1>1 DEF Journal
<1>5. ForeignSynced'
  BY PowerLossData, FileStoreAssumption DEF ForeignSynced
<1>6. ASSUME NEW k \in Keys, v[k] \in Inodes \ ForeignInodes
      PROVE  Complete(data[v[k]]) /\ data'[v[k]] = data[v[k]] /\ data'[v[k]].synced
  BY <1>6, PowerLossData DEF IInv, PublishedComplete
<1>7. PublishedComplete'
  BY <1>1, <1>6 DEF PublishedComplete, Complete
<1>8. AckedDurable'
  BY <1>1, <1>2, <1>6 DEF IInv, AckedDurable
<1> QED BY <1>3, <1>4, <1>5, <1>7, <1>8 DEF Coherent

\* The invariant holds before the first call, whatever files others left.
LEMMA InitInvariant ==
  Init => IInv
<1> SUFFICES ASSUME Init PROVE IInv
  OBVIOUS
<1>1. PICK at \in [ForeignInodes -> Names], p \in [ForeignInodes -> BOOLEAN] :
        /\ dir = [n \in Names |->
                    IF \E f \in ForeignInodes : at[f] = n
                    THEN CHOOSE f \in ForeignInodes : at[f] = n ELSE None]
        /\ data = [i \in Inodes |-> ForeignFile(IF i \in ForeignInodes
                                                THEN p[i] ELSE TRUE)]
  BY DEF Init
<1>2. \A n \in Names : dir[n] \in ForeignInodes \cup {None}
  BY <1>1
<1>3. dir \in Directories /\ onDisk = {dir}
  BY <1>1, <1>2, FileStoreAssumption DEF Directories, Init
<1>4. \A i \in Inodes : data[i].synced /\ data[i] \in Files
  <2>1. ASSUME NEW b \in BOOLEAN PROVE ForeignFile(b) \in Files /\ ForeignFile(b).synced
    BY DEF ForeignFile, Files
  <2> QED BY <1>1, <2>1
<1>5. data \in [Inodes -> Files]
  <2>1. data = [i \in Inodes |-> data[i]]
    BY <1>1
  <2> QED BY <1>4, <2>1
<1>6. TypeOK
  <2>1. 0 \in 0 .. MaxSeq + 1 /\ 0 \in 0 .. MaxAttempts
    BY FileStoreAssumption
  <2> QED BY <1>3, <1>5, <2>1 DEF Init, TypeOK, Stages
<1>7. /\ PutKnown /\ OwnFile /\ OneOwner /\ Written /\ Linked /\ Reading
      /\ AckedDurable
  BY DEF Init, PutKnown, OwnFile, OneOwner, Written, Linked, Reading, Staged,
         AckedDurable
<1>8. Journal
  BY <1>3 DEF Journal
<1>9. ForeignSynced
  BY <1>4, FileStoreAssumption DEF ForeignSynced
<1>10. PublishedComplete
  BY <1>2, <1>3, NameFacts, NoneFacts DEF PublishedComplete
<1> QED BY <1>6, <1>7, <1>8, <1>9, <1>10 DEF IInv

\* The invariant is inductive.
LEMMA InductiveStep ==
  IInv /\ [Next]_vars => IInv'
<1> SUFFICES ASSUME IInv, [Next]_vars PROVE IInv'
  OBVIOUS
<1>1. TypeOK'
  BY TypeStep
<1>2. Coherent'
  <2>1. ASSUME NEW w \in Writers, PutStep(w) PROVE Coherent'
    <3>1. CASE PutBegin(w) \/ CheckExisting(w) \/ CheckQuota(w) \/ CheckSpace(w)
      BY <1>1, <3>1, QuietKeeps
    <3>2. CASE FailEarly(w) \/ FailDirectorySync(w)
      BY <3>2, ReturnKeeps DEF FailEarly, FailDirectorySync, getVars
    <3>3. CASE CreateStaging(w)
      BY <1>1, <3>3, CreateKeeps
    <3>4. CASE WriteChunk(w)
      BY <3>4, WriteChunkKeeps
    <3>5. CASE WriteChecksum(w)
      BY <3>5, WriteChecksumKeeps
    <3>6. CASE SyncFile(w)
      BY <3>6, SyncFileKeeps
    <3>7. CASE Rename(w)
      BY <1>1, <3>7, RenameKeeps
    <3>8. CASE FailStaged(w)
      BY <1>1, <3>8, FailStagedKeeps
    <3>9. CASE SyncDirectory(w)
      BY <3>9, SyncDirectoryKeeps
    <3> QED BY <2>1, <3>1, <3>2, <3>3, <3>4, <3>5, <3>6, <3>7, <3>8, <3>9 DEF PutStep
  <2>2. ASSUME NEW r \in Readers, GetStep(r) PROVE Coherent'
    BY <1>1, <2>2, GetKeeps
  <2>3. ASSUME NEW w \in Writers, Crash(w) PROVE Coherent'
    BY <2>3, ReturnKeeps DEF Crash, getVars
  <2>4. CASE PowerLoss
    BY <2>4, PowerLossKeeps
  <2>5. CASE UNCHANGED vars
    BY <2>5 DEF vars, putVars, getVars, IInv, Coherent, PutKnown, OwnFile, OneOwner,
                Written, Linked, Journal, ForeignSynced, Reading,
                PublishedComplete, AckedDurable, Complete
  <2> QED BY <2>1, <2>2, <2>3, <2>4, <2>5 DEF Next
<1> QED BY <1>1, <1>2 DEF IInv, Coherent

\* The invariant holds in every behaviour.
THEOREM Invariance == Spec => []IInv
  BY InitInvariant, InductiveStep, PTL DEF Spec

\* Every variable keeps its type, with any number of processes and any files.
THEOREM TypeCorrect == Spec => []TypeOK
<1>1. IInv => TypeOK
  BY DEF IInv
<1> QED BY <1>1, Invariance, PTL

\* A put never holds the staging name or the file of another put, of an entry
\* or of somebody else (TempFile, O_CREAT | O_EXCL).
THEOREM StagingIsExclusive == Spec => []ExclusiveStaging
<1>1. IInv => ExclusiveStaging
  <2> SUFFICES ASSUME IInv, NEW w \in Writers, tmp[w] # None
               PROVE  /\ tmp[w] \in DOMAIN dir \ Keys
                      /\ ino[w] \notin ForeignInodes
                      /\ \A n \in Names : dir[n] = ino[w] <=> n = tmp[w]
                      /\ \A u \in Writers \ {w} : tmp[u] # tmp[w] /\ ino[u] # ino[w]
    BY DEF ExclusiveStaging
  <2>1. /\ tmp[w] \in Names \ Keys /\ ino[w] \in Inodes \ ForeignInodes
        /\ dir[tmp[w]] = ino[w] /\ dir \in onDisk /\ DOMAIN dir = Names
        /\ \A v \in onDisk, n \in Names : v[n] = ino[w] => n = tmp[w]
    BY DEF IInv, OwnFile, Journal, TypeOK, Directories
  <2>2. ASSUME NEW u \in Writers \ {w} PROVE tmp[u] # tmp[w] /\ ino[u] # ino[w]
    <3>1. ino[u] # ino[w]
      BY <2>1, NoneFacts DEF IInv, OneOwner
    <3>2. tmp[u] # None => dir[tmp[u]] = ino[u]
      BY DEF IInv, OwnFile
    <3> QED BY <2>1, <3>1, <3>2
  <2> QED BY <2>1, <2>2
<1> QED BY <1>1, Invariance, PTL

\* Under a key there is never a partial record, not even after a power loss:
\* the record is fsynced before the rename.
THEOREM PublishedIsComplete == Spec => []PublishedComplete
<1>1. IInv => PublishedComplete
  BY DEF IInv
<1> QED BY <1>1, Invariance, PTL

\* What a put that returned promised survives every crash and power loss.
THEOREM AckedIsDurable == Spec => []AckedDurable
<1>1. IInv => AckedDurable
  BY DEF IInv
<1> QED BY <1>1, Invariance, PTL

-----------------------------------------------------------------------------

\* Only a power loss touches a published entry or a file of somebody else.
LEMMA OthersKept ==
  ASSUME IInv, [Next]_vars, ~PowerLoss,
         NEW n \in Names, dir[n] # None, n \in Keys \/ dir[n] \in ForeignInodes
  PROVE  dir'[n] = dir[n] /\ data'[dir[n]] = data[dir[n]]
<1>1. dir[n] \in Inodes /\ dir \in onDisk
  BY DEF IInv, TypeOK, Directories, Journal
<1>2. ASSUME NEW w \in Writers, pc[w] \in Staged
      PROVE  /\ n # tmp[w] /\ dir[n] # ino[w]
             /\ tmp[w] \in Names /\ ino[w] \in Inodes /\ dir[tmp[w]] # None
  <2>1. /\ tmp[w] \in Names \ Keys /\ ino[w] \in Inodes \ ForeignInodes
        /\ dir[tmp[w]] = ino[w]
        /\ \A v \in onDisk, m \in Names : v[m] = ino[w] => m = tmp[w]
    BY <1>2 DEF IInv, PutKnown, OwnFile
  <2> QED BY <2>1, <1>1, NoneFacts
<1>3. ASSUME NEW w \in Writers, PutStep(w)
      PROVE  dir'[n] = dir[n] /\ data'[dir[n]] = data[dir[n]]
  <2>1. CASE CreateStaging(w)
    <3>1. CASE UNCHANGED <<dir, data>>
      BY <3>1
    <3>2. CASE \E i \in Inodes :
                 /\ dir[<<pid[w], seq[w]>>] = None /\ ~InUse(i)
                 /\ data' = [data EXCEPT ![i] = NewFile(job[w].snap)]
                 /\ dir' = [dir EXCEPT ![<<pid[w], seq[w]>>] = i]
      BY <3>2, <1>1 DEF InUse, IInv, TypeOK, Directories
    <3> QED BY <2>1, <3>1, <3>2 DEF CreateStaging, SetDirectory
  <2>2. CASE WriteChunk(w) \/ WriteChecksum(w) \/ SyncFile(w)
    <3>1. pc[w] \in Staged /\ dir' = dir
      BY <2>2 DEF WriteChunk, WriteChecksum, SyncFile, Staged
    <3>2. \A i \in Inodes : i # ino[w] => data'[i] = data[i]
      BY <2>2 DEF WriteChunk, WriteChecksum, SyncFile, IInv, TypeOK
    <3> QED BY <3>1, <3>2, <1>1, <1>2
  <2>3. CASE Rename(w)
    <3>1. /\ pc[w] \in Staged /\ data' = data /\ dir[job[w].key] = None
          /\ dir' = [dir EXCEPT ![job[w].key] = dir[tmp[w]], ![tmp[w]] = None]
      BY <2>3 DEF Rename, Staged, SetDirectory
    <3> QED BY <3>1, <1>2 DEF IInv, TypeOK, Directories
  <2>4. CASE FailStaged(w)
    <3>1. /\ pc[w] \in Staged /\ data' = data
          /\ dir' = dir \/ dir' = [dir EXCEPT ![tmp[w]] = None]
      BY <2>4 DEF FailStaged, Staged, SetDirectory
    <3> QED BY <3>1, <1>2 DEF IInv, TypeOK, Directories
  <2>5. CASE \/ PutBegin(w) \/ CheckExisting(w) \/ CheckQuota(w) \/ CheckSpace(w)
             \/ FailEarly(w) \/ SyncDirectory(w) \/ FailDirectorySync(w)
    BY <2>5 DEF PutBegin, CheckExisting, CheckQuota, CheckSpace, FailEarly,
                SyncDirectory, FailDirectorySync
  <2> QED BY <1>3, <2>1, <2>2, <2>3, <2>4, <2>5 DEF PutStep
<1>4. ASSUME NEW r \in Readers, GetStep(r)
      PROVE  dir'[n] = dir[n] /\ data'[dir[n]] = data[dir[n]]
  BY <1>4 DEF GetStep, GetOpen, GetRead
<1>5. ASSUME NEW w \in Writers, Crash(w)
      PROVE  dir'[n] = dir[n] /\ data'[dir[n]] = data[dir[n]]
  BY <1>5 DEF Crash
<1>6. CASE UNCHANGED vars
  BY <1>6 DEF vars
<1> QED BY <1>3, <1>4, <1>5, <1>6 DEF Next

\* A power loss takes away what no put has acknowledged, and nothing else.
LEMMA PowerLossKeepsEntries ==
  ASSUME IInv, PowerLoss, NEW n \in Names, dir[n] # None
  PROVE  /\ dir[n] \in ForeignInodes =>
              dir'[n] = dir[n] /\ data'[dir[n]] = data[dir[n]]
         /\ n \in Keys =>
              \/ dir'[n] = dir[n] /\ data'[dir[n]] = data[dir[n]]
              \/ dir'[n] = None /\ acked[n] = None
<1>1. PICK v \in onDisk : dir' = v
  BY DEF PowerLoss
<1>2. /\ dir[n] \in Inodes /\ v[n] \in Inodes \cup {None}
      /\ dir \in onDisk
  BY DEF IInv, TypeOK, Directories, Journal
<1>3. ASSUME dir[n] \in ForeignInodes
      PROVE  dir'[n] = dir[n] /\ data'[dir[n]] = data[dir[n]]
  BY <1>1, <1>2, <1>3, PowerLossData DEF IInv, Journal, ForeignSynced
<1>4. ASSUME n \in Keys
      PROVE  \/ dir'[n] = dir[n] /\ data'[dir[n]] = data[dir[n]]
             \/ dir'[n] = None /\ acked[n] = None
  <2>1. CASE v[n] # None
    <3>1. dir'[n] = dir[n]
      BY <1>1, <1>4, <2>1 DEF IInv, Journal
    <3>2. dir[n] \notin ForeignInodes => data[dir[n]].synced
      BY <1>2, <1>4 DEF IInv, PublishedComplete
    <3> QED BY <3>1, <3>2, <1>2, <1>3, PowerLossData
  <2>2. CASE v[n] = None
    BY <1>1, <1>4, <2>2, NoneFacts DEF IInv, AckedDurable
  <2> QED BY <2>1, <2>2
<1> QED BY <1>3, <1>4

\* No step of any process overwrites, removes or writes to a published entry; a
\* power loss can only take away one that was never acknowledged.
THEOREM EntriesAreNeverReplaced == Spec => NeverReplaced
<1>1. IInv /\ [Next]_vars =>
        [\A k \in Keys : dir[k] # None =>
           \/ dir'[k] = dir[k] /\ data'[dir[k]] = data[dir[k]]
           \/ dir'[k] = None /\ acked[k] = None]_<<dir, data>>
  BY OthersKept, PowerLossKeepsEntries, NameFacts
<1> QED BY <1>1, Invariance, PTL DEF Spec, NeverReplaced

\* No step of any process, and no power loss, touches a file the store did not
\* write, whatever its name.
THEOREM ForeignFilesAreKept == Spec => ForeignKept
<1>1. IInv /\ [Next]_vars =>
        [\A n \in Names : dir[n] \in ForeignInodes =>
           dir'[n] = dir[n] /\ data'[dir[n]] = data[dir[n]]]_<<dir, data>>
  BY OthersKept, PowerLossKeepsEntries, FileStoreAssumption
<1> QED BY <1>1, Invariance, PTL DEF Spec, ForeignKept

-----------------------------------------------------------------------------
(* FileStore implements SnapshotStore: every behaviour of DirectFileStore, seen *)
(* through the entries a get finds, the acknowledged puts and the answers, is   *)
(* one of the snapshot store's.                                                 *)

\* The snapshot a get of k finds; FileStore substitutes it for stored.
Stored ==
  [k \in Keys |-> IF dir[k] = None \/ dir[k] \in ForeignInodes
                  THEN None ELSE data[dir[k]].snap]

\* The file a get has opened is still the one under its key, so that its
\* verdict is also what the store holds when the get answers.
Opened ==
  \A r \in Readers : rpc[r] = "read" => /\ ask[r] \in Questions
                                        /\ rino[r] \in Inodes
                                        /\ dir[ask[r].key] = rino[r]

\* The files of others stay where they were, and hold no record.
ForeignInPlace ==
  \A f \in ForeignInodes : /\ \E n \in Names : dir[n] = f
                           /\ data[f].snap = Garbage

RInv == IInv /\ Opened /\ ForeignInPlace

-----------------------------------------------------------------------------

\* The files of others are in place at the start.
LEMMA InitRefinementInvariant ==
  Init => RInv
<1> SUFFICES ASSUME Init PROVE RInv
  OBVIOUS
<1>1. IInv
  BY InitInvariant
<1>2. Opened
  BY DEF Init, Opened
<1>3. ForeignInPlace
  <2>1. PICK at \in [ForeignInodes -> Names], p \in [ForeignInodes -> BOOLEAN] :
          /\ \A f, g \in ForeignInodes : at[f] = at[g] => f = g
          /\ dir = [n \in Names |->
                      IF \E f \in ForeignInodes : at[f] = n
                      THEN CHOOSE f \in ForeignInodes : at[f] = n ELSE None]
          /\ data = [i \in Inodes |-> ForeignFile(IF i \in ForeignInodes
                                                  THEN p[i] ELSE TRUE)]
    BY DEF Init
  <2> SUFFICES ASSUME NEW f \in ForeignInodes
               PROVE  (\E n \in Names : dir[n] = f) /\ data[f].snap = Garbage
    BY DEF ForeignInPlace
  <2>2. dir[at[f]] = f
    <3>1. at[f] \in Names
      BY <2>1
    <3>2. dir[at[f]] = CHOOSE g \in ForeignInodes : at[g] = at[f]
      BY <2>1, <3>1
    <3>3. PICK c : c = CHOOSE g \in ForeignInodes : at[g] = at[f]
      OBVIOUS
    <3>4. c \in ForeignInodes /\ at[c] = at[f]
      BY <3>3
    <3> QED BY <2>1, <3>2, <3>3, <3>4
  <2>3. data[f].snap = Garbage
    BY <2>1, FileStoreAssumption DEF ForeignFile
  <2> QED BY <2>1, <2>2, <2>3
<1> QED BY <1>1, <1>2, <1>3 DEF RInv

\* An open file stays under its key until the get that opened it ends.
LEMMA OpenedStep ==
  ASSUME RInv, [Next]_vars
  PROVE  Opened'
<1>1. IInv /\ IInv'
  BY InductiveStep DEF RInv
<1> SUFFICES ASSUME NEW r \in Readers, rpc'[r] = "read"
             PROVE  dir'[ask'[r].key] = rino'[r]
  BY <1>1 DEF Opened, IInv, Reading
<1>2. ASSUME rpc[r] = "read", ask'[r] = ask[r], rino'[r] = rino[r], ~PowerLoss
      PROVE  dir'[ask'[r].key] = rino'[r]
  <2>1. /\ ask[r].key \in Keys /\ dir[ask[r].key] = rino[r] /\ rino[r] \in Inodes
    BY <1>2 DEF RInv, Opened, Questions
  <2> QED BY <1>1, <1>2, <2>1, OthersKept, NameFacts, NoneFacts
<1>3. CASE PowerLoss
  BY <1>3 DEF PowerLoss
<1>4. CASE ~PowerLoss /\ UNCHANGED getVars
  BY <1>2, <1>4 DEF getVars
<1>5. ASSUME NEW u \in Readers, GetStep(u), ~PowerLoss
      PROVE  dir'[ask'[r].key] = rino'[r]
  <2>1. /\ u # r => rpc'[r] = rpc[r] /\ ask'[r] = ask[r] /\ rino'[r] = rino[r]
        /\ dir' = dir
    BY <1>1, <1>5 DEF GetStep, GetOpen, GetRead, Reply, IInv, TypeOK
  <2>2. CASE u = r
    BY <1>1, <1>5, <2>1, <2>2 DEF GetStep, GetOpen, GetRead, Reply, IInv, TypeOK
  <2> QED BY <1>2, <1>5, <2>1, <2>2
<1>6. CASE ~PowerLoss /\ ~UNCHANGED getVars
  <2>1. \E u \in Readers : GetStep(u)
    BY <1>6 DEF Next, vars, PutStep, PutBegin, CheckExisting, CheckQuota, CheckSpace,
                FailEarly, CreateStaging, WriteChunk, WriteChecksum, SyncFile, Rename,
                FailStaged, SyncDirectory, FailDirectorySync, Crash
  <2> QED BY <1>5, <1>6, <2>1
<1> QED BY <1>3, <1>4, <1>6

\* The refinement's invariant is inductive.
LEMMA RefinementInvariantStep ==
  RInv /\ [Next]_vars => RInv'
<1> SUFFICES ASSUME RInv, [Next]_vars PROVE RInv'
  OBVIOUS
<1>1. IInv /\ IInv'
  BY InductiveStep DEF RInv
<1>2. Opened'
  BY OpenedStep
<1>3. ForeignInPlace'
  <2> SUFFICES ASSUME NEW f \in ForeignInodes
               PROVE  (\E n \in Names : dir'[n] = f) /\ data'[f].snap = Garbage
    BY DEF ForeignInPlace
  <2>1. PICK n \in Names : dir[n] = f
    BY DEF RInv, ForeignInPlace
  <2>2. dir[n] # None
    BY <2>1, FileStoreAssumption
  <2>3. dir'[n] = f /\ data'[f] = data[f]
    BY <1>1, <2>1, <2>2, OthersKept, PowerLossKeepsEntries
  <2> QED BY <2>3 DEF RInv, ForeignInPlace
<1> QED BY <1>1, <1>2, <1>3 DEF RInv

-----------------------------------------------------------------------------

\* Only a rename and a power loss change what a get finds.
LEMMA SameStored ==
  ASSUME RInv, [Next]_vars, ~PowerLoss, \A w \in Writers : ~Rename(w)
  PROVE  Stored' = Stored
<1>1. IInv
  BY DEF RInv
<1> SUFFICES ASSUME NEW k \in Keys
             PROVE  /\ dir'[k] = dir[k]
                    /\ dir[k] # None => data'[dir[k]] = data[dir[k]]
  BY DEF Stored
<1>2. CASE dir[k] # None
  BY <1>1, <1>2, OthersKept, NameFacts
<1>3. CASE dir[k] = None
  <2>1. ASSUME NEW w \in Writers, PutStep(w) PROVE dir'[k] = dir[k]
    <3>1. CASE CreateStaging(w)
      <4>1. PICK name \in Names \ Keys : name = <<pid[w], seq[w]>>
        <5>1. pid[w] \in Pids /\ seq[w] \in 0 .. MaxSeq
          BY <1>1, <3>1 DEF CreateStaging, IInv, TypeOK
        <5> QED BY <5>1, NameFacts
      <4>2. dir' = dir \/ \E i \in Inodes : dir' = [dir EXCEPT ![name] = i]
        BY <3>1, <4>1 DEF CreateStaging, SetDirectory
      <4> QED BY <1>1, <4>1, <4>2, NameFacts DEF IInv, TypeOK, Directories
    <3>2. CASE FailStaged(w)
      <4>1. tmp[w] \in Names \ Keys
        BY <1>1, <3>2, StagedFacts DEF FailStaged, Staged
      <4>2. dir' = dir \/ dir' = [dir EXCEPT ![tmp[w]] = None]
        BY <3>2 DEF FailStaged, SetDirectory
      <4> QED BY <1>1, <4>1, <4>2, NameFacts DEF IInv, TypeOK, Directories
    <3>3. CASE ~CreateStaging(w) /\ ~FailStaged(w) /\ ~Rename(w)
      BY <2>1, <3>3 DEF PutStep, PutBegin, CheckExisting, CheckQuota, CheckSpace,
           FailEarly, WriteChunk, WriteChecksum, SyncFile, SyncDirectory, FailDirectorySync
    <3> QED BY <3>1, <3>2, <3>3
  <2>2. ASSUME NEW r \in Readers, GetStep(r) PROVE dir'[k] = dir[k]
    BY <2>2 DEF GetStep, GetOpen, GetRead
  <2>3. ASSUME NEW w \in Writers, Crash(w) PROVE dir'[k] = dir[k]
    BY <2>3 DEF Crash
  <2> QED BY <1>3, <2>1, <2>2, <2>3 DEF Next, vars
<1> QED BY <1>2, <1>3

\* What is visible under a key is a snapshot.
LEMMA StoredFacts ==
  ASSUME RInv, NEW k \in Keys
  PROVE  /\ dir[k] \in Inodes \cup {None}
         /\ Stored[k] # None <=> dir[k] \in Inodes \ ForeignInodes
         /\ Stored[k] # None => /\ Stored[k] = data[dir[k]].snap
                                /\ Stored[k] \in Snapshots
<1>1. dir[k] \in Inodes \cup {None}
  BY NameFacts DEF RInv, IInv, TypeOK, Directories
<1>2. dir[k] \in Inodes \ ForeignInodes => data[dir[k]].snap \in Snapshots
  BY DEF RInv, IInv, Journal, PublishedComplete, Complete
<1> QED BY <1>1, <1>2, NoneFacts, FileStoreAssumption DEF Stored

\* A rename publishes.
LEMMA RenamePublishes ==
  ASSUME RInv, NEW w \in Writers, Rename(w)
  PROVE  Abstract!Publish(job[w].key, job[w].snap) /\ job[w] \in Jobs
<1> DEFINE key == job[w].key
<1>1. /\ pc[w] \in Staged /\ dir[key] = None
      /\ dir' = [dir EXCEPT ![key] = dir[tmp[w]], ![tmp[w]] = None]
      /\ UNCHANGED <<data, acked, answer>>
  BY DEF Rename, Staged, SetDirectory, getVars
<1>2. IInv
  BY DEF RInv
<1>3. /\ job[w] \in Jobs /\ key \in Keys
      /\ tmp[w] \in Names \ Keys /\ dir[tmp[w]] = ino[w]
      /\ ino[w] \in Inodes \ ForeignInodes /\ tmp[w] # None
  BY <1>1, <1>2, StagedFacts DEF Jobs
<1>4. data[ino[w]].snap = job[w].snap
  BY <1>2, <1>3 DEF IInv, Written
<1>5. /\ dir'[key] = ino[w]
      /\ \A k \in Keys \ {key} : dir'[k] = dir[k]
  BY <1>1, <1>2, <1>3, NameFacts DEF IInv, TypeOK, Directories
<1> HIDE DEF key
<1>6. Stored[key] = None
  BY <1>1, <1>3 DEF Stored
<1>7. Stored' = [Stored EXCEPT ![key] = job[w].snap]
  <2>1. ASSUME NEW k \in Keys
        PROVE  Stored'[k] = IF k = key THEN job[w].snap ELSE Stored[k]
    <3>1. CASE k = key
      <4>1. dir'[k] = ino[w] /\ ino[w] # None /\ ino[w] \notin ForeignInodes
        BY <1>3, <1>5, <3>1, NoneFacts
      <4>2. data'[dir'[k]].snap = job[w].snap
        BY <1>1, <1>4, <4>1
      <4> QED BY <3>1, <4>1, <4>2 DEF Stored
    <3>2. CASE k # key
      <4>1. dir'[k] = dir[k] /\ data' = data
        BY <1>1, <1>5, <3>2
      <4>2. Stored'[k] = Stored[k]
        BY <4>1 DEF Stored
      <4> QED BY <3>2, <4>2
    <3> QED BY <3>1, <3>2
  <2> QED BY <1>3, <2>1 DEF Stored
<1> QED BY <1>1, <1>3, <1>6, <1>7 DEF Abstract!Publish, Stored, key

\* A put returns.
LEMMA SyncDirectoryAcknowledges ==
  ASSUME RInv, [Next]_vars, NEW w \in Writers, SyncDirectory(w), Stored' = Stored
  PROVE  \E k \in Keys : Abstract!Acknowledge(k)
<1> DEFINE key == job[w].key
<1>1. /\ pc[w] = "dirsync" /\ acked' = [acked EXCEPT ![key] = job[w].snap]
      /\ UNCHANGED answer
  BY DEF SyncDirectory, getVars
<1>2. /\ key \in Keys /\ ino[w] \in Inodes \ ForeignInodes
      /\ dir[key] = ino[w] /\ data[ino[w]].snap = job[w].snap
  BY <1>1 DEF RInv, IInv, Linked, PutKnown, Jobs
<1>3. Stored[key] # None /\ Stored[key] = job[w].snap
  BY <1>2, StoredFacts
<1> QED BY <1>1, <1>2, <1>3 DEF Abstract!Acknowledge, Stored

\* A get answers what the store holds at that moment.
LEMMA GetAnswers ==
  ASSUME RInv, NEW r \in Readers, GetStep(r), Stored' = Stored, answer' # answer
  PROVE  \E k \in Keys, id \in Identities : Abstract!Get(r, k, id)
<1>1. UNCHANGED acked
  BY DEF GetStep, GetOpen, GetRead
<1>2. ASSUME NEW q \in Questions, NEW st, NEW s, Reply(r, q, st, s),
             Abstract!Answer(st, q.key, q.identity, s)
               \in Abstract!Replies(q.key, q.identity)
      PROVE  \E k \in Keys, id \in Identities : Abstract!Get(r, k, id)
  <2>1. answer' = [answer EXCEPT ![r] = Abstract!Answer(st, q.key, q.identity, s)]
    BY <1>2 DEF Reply
  <2>2. q.key \in Keys /\ q.identity \in Identities
    BY DEF Questions
  <2> QED BY <1>1, <1>2, <2>1, <2>2 DEF Abstract!Get, Stored
<1>3. \A q \in Questions : Abstract!Answer("corrupt", q.key, q.identity, None)
                             \in Abstract!Replies(q.key, q.identity)
  BY DEF Abstract!Replies
<1>4. CASE GetOpen(r)
  <2>1. PICK q \in Questions :
          \/ dir[q.key] = None /\ Reply(r, q, "miss", None)
          \/ Reply(r, q, "corrupt", None)
    BY <1>4 DEF GetOpen
  <2>2. q.key \in Keys BY DEF Questions
  <2>3. CASE Reply(r, q, "corrupt", None)
    BY <1>2, <1>3, <2>3
  <2>4. CASE dir[q.key] = None /\ Reply(r, q, "miss", None)
    <3>1. Stored[q.key] = None
      BY <2>2, <2>4 DEF Stored
    <3>2. Abstract!Answer("miss", q.key, q.identity, None)
            \in Abstract!Replies(q.key, q.identity)
      BY <3>1, <2>2 DEF Abstract!Replies, Stored
    <3> QED BY <1>2, <2>4, <3>2
  <2> QED BY <2>1, <2>3, <2>4
<1>5. CASE GetRead(r)
  <2> DEFINE q == ask[r]
             f == data[rino[r]]
             st == Verdict(f, q.identity)
  <2>1. /\ q \in Questions /\ q.key \in Keys /\ rino[r] \in Inodes
        /\ dir[q.key] = rino[r]
    BY <1>5 DEF GetRead, RInv, Opened, Questions
  <2>2. \/ Reply(r, q, st, IF st = "hit" THEN f.snap ELSE None)
        \/ Reply(r, q, "corrupt", None)
    BY <1>5 DEF GetRead
  <2>3. CASE Complete(f)
    <3>1. rino[r] \notin ForeignInodes
      BY <2>3, FileStoreAssumption DEF Complete, RInv, ForeignInPlace
    <3>2. Stored[q.key] = f.snap /\ Stored[q.key] # None
      BY <2>1, <3>1, StoredFacts
    <3>3. CASE st = "hit"
      <4>1. IdentityOf[f.snap] = q.identity
        BY <3>3 DEF Verdict
      <4>2. Abstract!Answer("hit", q.key, q.identity, f.snap)
              \in Abstract!Replies(q.key, q.identity)
        BY <2>1, <3>2, <4>1 DEF Abstract!Replies, Stored
      <4> QED BY <1>2, <1>3, <2>1, <2>2, <3>3, <4>2
    <3>4. CASE st = "incompatible"
      <4>1. IdentityOf[f.snap] # q.identity
        BY <3>4 DEF Verdict
      <4>2. Abstract!Answer("incompatible", q.key, q.identity, None)
              \in Abstract!Replies(q.key, q.identity)
        BY <2>1, <3>2, <4>1 DEF Abstract!Replies, Stored
      <4> QED BY <1>2, <1>3, <2>1, <2>2, <3>4, <4>2
    <3>5. CASE st = "corrupt"
      BY <1>2, <1>3, <2>1, <2>2, <3>5
    <3> QED BY <3>3, <3>4, <3>5 DEF Verdict
  <2>4. CASE ~Complete(f)
    <3>1. st = "corrupt"
      BY <2>4 DEF Verdict
    <3> QED BY <1>2, <1>3, <2>1, <2>2, <3>1
  <2> QED BY <2>3, <2>4
<1> QED BY <1>4, <1>5 DEF GetStep

\* A power loss takes away unacknowledged entries only.
LEMMA PowerLossLoses ==
  ASSUME RInv, PowerLoss
  PROVE  Abstract!LoseUnacknowledged
<1>1. PICK v \in onDisk : dir' = v
  BY DEF PowerLoss
<1>2. answer' = [r \in Readers |-> Abstract!NoAnswer] /\ UNCHANGED acked
  BY DEF PowerLoss
<1> DEFINE L == {k \in Keys : acked[k] = None /\ dir'[k] = None}
<1>3. ASSUME NEW k \in Keys
      PROVE  Stored'[k] = IF k \in L THEN None ELSE Stored[k]
  <2>0. IInv
    BY DEF RInv
  <2>1. CASE dir[k] = None
    <3>1. dir'[k] = None
      BY <1>1, <2>0, <2>1 DEF IInv, Journal
    <3> QED BY <2>1, <3>1 DEF Stored
  <2>2. CASE dir[k] # None
    BY <2>0, <2>2, PowerLossKeepsEntries, NameFacts DEF Stored
  <2> QED BY <2>1, <2>2
<1>4. Stored' = [k \in Keys |-> IF k \in L THEN None ELSE Stored[k]]
  BY <1>3 DEF Stored
<1>5. L \in SUBSET {k \in Keys : acked[k] = None}
  OBVIOUS
<1> QED BY <1>2, <1>4, <1>5 DEF Abstract!LoseUnacknowledged, Stored

\* Every step of the file store is a step of the snapshot store or none.
LEMMA RefinementStep ==
  RInv /\ [Next]_vars => [Abstract!Next]_(Abstract!vars)
<1> SUFFICES ASSUME RInv, [Next]_vars
             PROVE  Abstract!Next \/ (Stored' = Stored /\ UNCHANGED <<acked, answer>>)
  BY DEF Abstract!vars, Stored
<1>1. CASE PowerLoss
  BY <1>1, PowerLossLoses DEF Abstract!Next
<1>2. ASSUME NEW w \in Writers, Rename(w)
      PROVE  Abstract!Next
  <2>1. job[w].key \in Keys /\ job[w].snap \in Snapshots
    BY <1>2, RenamePublishes DEF Jobs
  <2>2. Abstract!Publish(job[w].key, job[w].snap)
    BY <1>2, RenamePublishes
  <2>3. \E k \in Keys, s \in Snapshots : Abstract!Publish(k, s)
    BY <2>1, <2>2 DEF Abstract!Publish
  <2> QED BY <2>3 DEF Abstract!Next
<1>3. CASE ~PowerLoss /\ \A w \in Writers : ~Rename(w)
  <2>1. Stored' = Stored
    BY <1>3, SameStored
  <2>2. ASSUME NEW w \in Writers, SyncDirectory(w)
        PROVE  Abstract!Next
    BY <2>1, <2>2, SyncDirectoryAcknowledges DEF Abstract!Next
  <2>3. ASSUME NEW r \in Readers, GetStep(r)
        PROVE  Abstract!Next \/ UNCHANGED <<acked, answer>>
    <3>1. UNCHANGED acked
      BY <2>3 DEF GetStep, GetOpen, GetRead
    <3>2. answer' # answer => Abstract!Next
      BY <2>1, <2>3, GetAnswers DEF Abstract!Next
    <3> QED BY <3>1, <3>2
  <2>4. CASE /\ \A w \in Writers : ~SyncDirectory(w)
             /\ \A r \in Readers : ~GetStep(r)
    <3>1. ASSUME NEW w \in Writers, PutStep(w) PROVE UNCHANGED <<acked, answer>>
      <4>1. ~Rename(w) /\ ~SyncDirectory(w)
        BY <1>3, <2>4
      <4>2. CASE \/ PutBegin(w) \/ CheckExisting(w) \/ CheckQuota(w) \/ CheckSpace(w)
                 \/ FailEarly(w) \/ FailStaged(w) \/ FailDirectorySync(w)
        BY <4>2 DEF PutBegin, CheckExisting, CheckQuota, CheckSpace, FailEarly,
                    FailStaged, FailDirectorySync, getVars
      <4>3. CASE \/ CreateStaging(w) \/ WriteChunk(w) \/ WriteChecksum(w) \/ SyncFile(w)
        BY <4>3 DEF CreateStaging, WriteChunk, WriteChecksum, SyncFile, getVars
      <4> QED BY <3>1, <4>1, <4>2, <4>3 DEF PutStep
    <3>2. ASSUME NEW w \in Writers, Crash(w) PROVE UNCHANGED <<acked, answer>>
      BY <3>2 DEF Crash, getVars
    <3>3. CASE UNCHANGED vars
      BY <2>1, <3>3 DEF vars, getVars
    <3> QED BY <1>3, <2>1, <2>4, <3>1, <3>2, <3>3 DEF Next
  <2> QED BY <2>1, <2>2, <2>3, <2>4
<1> QED BY <1>1, <1>2, <1>3

\* The file store starts as an empty snapshot store.
LEMMA RefinementInit ==
  RInv /\ Init => Abstract!Init
<1> SUFFICES ASSUME RInv, Init PROVE Abstract!Init
  OBVIOUS
<1>1. ASSUME NEW k \in Keys PROVE Stored[k] = None
  <2>1. dir[k] \in ForeignInodes \cup {None}
    BY NameFacts DEF Init
  <2> QED BY <2>1 DEF Stored
<1>2. Stored = [k \in Keys |-> None]
  BY <1>1 DEF Stored
<1>3. acked = [k \in Keys |-> None] /\ answer = [r \in Readers |-> Abstract!NoAnswer]
  BY DEF Init
<1> QED BY <1>2, <1>3 DEF Abstract!Init, Stored

\* DirectFileStore keeps the promises of a snapshot store with any number of
\* concurrent writers, readers, crashes and power losses.
THEOREM ImplementsSnapshotStore == Spec => Refinement
<1>1. Spec => []RInv
  BY InitRefinementInvariant, RefinementInvariantStep, PTL DEF Spec
<1>2. Spec => Abstract!Init
  BY InitRefinementInvariant, RefinementInit, PTL DEF Spec
<1>3. Spec => [][Abstract!Next]_(Abstract!vars)
  BY <1>1, RefinementStep, PTL DEF Spec
<1> QED BY <1>2, <1>3, PTL DEF Refinement, Abstract!Spec

-----------------------------------------------------------------------------
(* The quota of a store with one writer. *)

\* What a directory holds: a link adds the length of its file ...
LEMMA LinkAdds ==
  ASSUME NEW files \in [Inodes -> Files], NEW d \in Directories,
         IsFiniteSet(LinkedNames(d)),
         NEW n \in Names, d[n] = None, NEW i \in Inodes
  PROVE  /\ IsFiniteSet(LinkedNames([d EXCEPT ![n] = i]))
         /\ BytesIn(files, [d EXCEPT ![n] = i]) = BytesIn(files, d) + files[i].len
<1> DEFINE e == [d EXCEPT ![n] = i]
           D == LinkedNames(d)
           E == LinkedNames(e)
           F == [m \in D |-> files[d[m]].len]
           G == [m \in E |-> files[e[m]].len]
<1>1. E = D \cup {n} /\ n \notin D /\ E \ {n} = D /\ n \in E
  BY NoneFacts DEF LinkedNames, Directories
<1>2. IsFiniteSet(D) /\ IsFiniteSet(E)
  <2> HIDE DEF E
  <2> QED BY ONLY IsFiniteSet(LinkedNames(d)), <1>1, FS_AddElement
<1>3. \A m \in E : G[m] \in Int
  BY DEF LinkedNames, Directories, Files
<1>4. \A m \in D : G[m] = F[m]
  BY <1>1 DEF LinkedNames, Directories
<1>5. G[n] = files[i].len
  BY <1>1 DEF Directories
<1>6. BytesIn(files, d) = SumFunctionOnSet(F, D) /\ BytesIn(files, e) = SumFunctionOnSet(G, E)
  <2>1. DOMAIN F = D /\ DOMAIN G = E
    OBVIOUS
  <2> QED BY <2>1 DEF BytesIn, SumFunction
<1> HIDE DEF F, G, D, E
<1>7. SumFunctionOnSet(G, E) = G[n] + SumFunctionOnSet(G, D)
  <2>1. SumFunctionOnSet(G, E) = G[n] + SumFunctionOnSet(G, E \ {n})
    BY <1>1, <1>2, <1>3, SumRemove
  <2> QED BY <2>1, <1>1
<1>8. SumFunctionOnSet(G, D) = SumFunctionOnSet(F, D)
  BY <1>2, <1>4, SumSame
<1>9. SumFunctionOnSet(F, D) \in Int
  BY <1>1, <1>2, <1>3, <1>8, SumIsInt
<1>10. files[i].len \in Int
  BY DEF Files
<1>11. \A a, b \in Int : a + b = b + a
  OBVIOUS
<1>12. BytesIn(files, e) = BytesIn(files, d) + files[i].len
  BY <1>5, <1>6, <1>7, <1>8, <1>9, <1>10, <1>11
<1> QED BY <1>2, <1>12 DEF E

\* ... and removing one takes it away.
LEMMA UnlinkDrops ==
  ASSUME NEW files \in [Inodes -> Files], NEW d \in Directories,
         IsFiniteSet(LinkedNames(d)), NEW n \in Names, d[n] # None
  PROVE  /\ IsFiniteSet(LinkedNames([d EXCEPT ![n] = None]))
         /\ BytesIn(files, d) = BytesIn(files, [d EXCEPT ![n] = None]) + files[d[n]].len
<1> DEFINE e == [d EXCEPT ![n] = None]
<1>1. e \in Directories /\ e[n] = None /\ [e EXCEPT ![n] = d[n]] = d /\ d[n] \in Inodes
  BY DEF Directories
<1>2. LinkedNames(e) \subseteq LinkedNames(d)
  BY DEF LinkedNames, Directories
<1>3. IsFiniteSet(LinkedNames(e))
  BY <1>2, FS_Subset
<1> HIDE DEF e
<1>4. BytesIn(files, [e EXCEPT ![n] = d[n]]) = BytesIn(files, e) + files[d[n]].len
  BY <1>1, <1>3, LinkAdds
<1> QED BY <1>1, <1>3, <1>4 DEF e

\* Only the lengths of the linked files count.
LEMMA SameLengths ==
  ASSUME NEW files, NEW others, NEW d, IsFiniteSet(LinkedNames(d)),
         \A n \in LinkedNames(d) : files[d[n]].len = others[d[n]].len
  PROVE  BytesIn(files, d) = BytesIn(others, d)
<1> DEFINE D == LinkedNames(d)
           F == [m \in D |-> files[d[m]].len]
           G == [m \in D |-> others[d[m]].len]
<1>1. BytesIn(files, d) = SumFunctionOnSet(F, D) /\ BytesIn(others, d) = SumFunctionOnSet(G, D)
  <2>1. DOMAIN F = D /\ DOMAIN G = D
    OBVIOUS
  <2> QED BY <2>1 DEF BytesIn, SumFunction
<1>2. F = G
  OBVIOUS
<1> QED BY <1>1, <1>2

\* A directory holds a number of bytes.
LEMMA BytesTyped ==
  ASSUME NEW files \in [Inodes -> Files], NEW d \in Directories, IsFiniteSet(LinkedNames(d))
  PROVE  BytesIn(files, d) \in Int
<1> DEFINE D == LinkedNames(d)
           F == [m \in D |-> files[d[m]].len]
<1>1. \A m \in D : F[m] \in Int
  BY DEF LinkedNames, Directories, Files
<1>2. BytesIn(files, d) = SumFunctionOnSet(F, D)
  <2>1. DOMAIN F = D
    OBVIOUS
  <2> QED BY <2>1 DEF BytesIn, SumFunction
<1> HIDE DEF F
<1> QED BY <1>1, <1>2, SumIsInt

\* What the checks of a put have promised: until it is written, its record has
\* room next to what the directory holds; while it is written, next to what any
\* directory with its staging file holds.
Reserved ==
  \A w \in Writers :
    /\ pc[w] \in {"space", "create"} => UsedBytes + Bytes[job[w].snap] <= MaxStore
    /\ pc[w] = "write" => \A v \in onDisk : v[tmp[w]] = ino[w] =>
         BytesIn(data, v) + Bytes[job[w].snap] <= MaxStore + data[ino[w]].len

\* A directory always has finitely many files.
FiniteDirectories == \A v \in onDisk : IsFiniteSet(LinkedNames(v))

\* The numbers compared by the quota.
QuotaInv == FiniteDirectories /\ QuotaRespected /\ Reserved

\* A step that leaves the directories and the lengths of files alone, and takes
\* no put past a check.
LEMMA QuietQuota ==
  ASSUME IInv, QuotaInv,
         dir' = dir, onDisk' \subseteq onDisk, data' = data,
         \A w \in Writers : \/ pc'[w] = pc[w] /\ job'[w] = job[w] /\ tmp'[w] = tmp[w]
                               /\ ino'[w] = ino[w]
                            \/ pc[w] = "space" /\ pc'[w] = "create" /\ job'[w] = job[w]
                            \/ pc'[w] \notin {"space", "create", "write"}
  PROVE  QuotaInv'
<1>1. FiniteDirectories' /\ QuotaRespected'
  BY DEF QuotaInv, FiniteDirectories, QuotaRespected
<1>2. ASSUME NEW w \in Writers, pc'[w] \in {"space", "create"}
      PROVE  UsedBytes' + Bytes[job'[w].snap] <= MaxStore
  <2>1. pc[w] \in {"space", "create"} /\ job'[w] = job[w]
    BY <1>2
  <2>2. UsedBytes' = UsedBytes
    BY DEF UsedBytes
  <2> QED BY <2>1, <2>2 DEF QuotaInv, Reserved
<1>3. ASSUME NEW w \in Writers, pc'[w] = "write", NEW v \in onDisk', v[tmp'[w]] = ino'[w]
      PROVE  BytesIn(data', v) + Bytes[job'[w].snap] <= MaxStore + data'[ino'[w]].len
  <2>1. pc[w] = "write" /\ job'[w] = job[w] /\ tmp'[w] = tmp[w] /\ ino'[w] = ino[w]
    BY <1>3
  <2>2. v \in onDisk
    BY <1>3
  <2> QED BY <1>3, <2>1, <2>2 DEF QuotaInv, Reserved
<1> QED BY <1>1, <1>2, <1>3 DEF QuotaInv, Reserved

\* The check promises what it has compared.
LEMMA CheckReserves ==
  ASSUME IInv, QuotaInv, NEW w \in Writers, CheckQuota(w), \A u \in Writers : u = w
  PROVE  QuotaInv'
<1>1. /\ UNCHANGED <<dir, onDisk, data, job, tmp, ino>> /\ pc'[w] = "space"
      /\ UsedBytes + Bytes[job[w].snap] <= MaxStore
  BY DEF CheckQuota, Goto, IInv, TypeOK
<1>2. FiniteDirectories' /\ QuotaRespected'
  BY <1>1 DEF QuotaInv, FiniteDirectories, QuotaRespected
<1>3. UsedBytes' = UsedBytes
  BY <1>1 DEF UsedBytes
<1>4. Reserved'
  BY <1>1, <1>3 DEF Reserved
<1> QED BY <1>2, <1>4 DEF QuotaInv

\* Every directory that may survive has its types, and so has dir.
LEMMA DirectoryFacts ==
  ASSUME IInv, QuotaInv
  PROVE  /\ dir \in onDisk /\ data \in [Inodes -> Files]
         /\ \A v \in onDisk : /\ v \in Directories /\ IsFiniteSet(LinkedNames(v))
                              /\ BytesIn(data, v) \in Int /\ BytesIn(data, v) <= MaxStore
<1>1. dir \in onDisk /\ data \in [Inodes -> Files] /\ onDisk \subseteq Directories
  BY DEF IInv, Journal, TypeOK
<1>2. ASSUME NEW v \in onDisk
      PROVE  IsFiniteSet(LinkedNames(v)) /\ BytesIn(data, v) <= MaxStore
  BY DEF QuotaInv, FiniteDirectories, QuotaRespected
<1> QED BY <1>1, <1>2, BytesTyped

\* A record has a length.
LEMMA RecordLength ==
  ASSUME NEW j \in Jobs
  PROVE  Bytes[j.snap] \in Nat
  BY FileStoreAssumption DEF Jobs

\* The staging file is empty at first: the promise passes from the check to the
\* directory that has it.
LEMMA CreateKeepsQuota ==
  ASSUME IInv, QuotaInv, NEW w \in Writers, CreateStaging(w), \A u \in Writers : u = w
  PROVE  QuotaInv'
<1>1. pc[w] = "create" /\ pid[w] \in Pids /\ seq[w] \in 0 .. MaxSeq /\ job[w] \in Jobs
  BY DEF CreateStaging, IInv, TypeOK, PutKnown
<1> DEFINE name == <<pid[w], seq[w]>>
<1>2. name \in Names
  BY <1>1, NameFacts
<1>3. CASE UNCHANGED <<dir, onDisk, data>> /\ UNCHANGED <<pc, job, tmp, ino>>
  BY <1>3, <1>1, QuietQuota
<1>4. CASE UNCHANGED <<dir, onDisk, data>> /\ Return(w)
  <2>1. pc'[w] = "idle"
    BY <1>4 DEF Return, IInv, TypeOK
  <2> QED BY <1>4, <2>1, QuietQuota
<1>5. CASE \E i \in Inodes :
             /\ dir[name] = None /\ ~InUse(i)
             /\ data' = [data EXCEPT ![i] = NewFile(job[w].snap)]
             /\ SetDirectory([dir EXCEPT ![name] = i])
             /\ ino' = [ino EXCEPT ![w] = i]
             /\ tmp' = [tmp EXCEPT ![w] = name]
             /\ Goto(w, "write")
             /\ UNCHANGED job
  <2>1. PICK i \in Inodes :
             /\ dir[name] = None /\ ~InUse(i)
             /\ data' = [data EXCEPT ![i] = NewFile(job[w].snap)]
             /\ SetDirectory([dir EXCEPT ![name] = i])
             /\ ino' = [ino EXCEPT ![w] = i]
             /\ tmp' = [tmp EXCEPT ![w] = name]
             /\ Goto(w, "write")
             /\ UNCHANGED job
    BY <1>5
  <2> HIDE DEF name
  <2> DEFINE e == [dir EXCEPT ![name] = i]
  <2>2. /\ dir' = e /\ onDisk' = onDisk \cup {e} /\ pc'[w] = "write" /\ tmp'[w] = name
        /\ ino'[w] = i /\ job' = job
    BY <2>1 DEF SetDirectory, Goto, IInv, TypeOK
  <2>3. data' \in [Inodes -> Files] /\ data'[i].len = 0
    <3>1. NewFile(job[w].snap) \in Files /\ NewFile(job[w].snap).len = 0
      BY <1>1 DEF NewFile, Files, Jobs
    <3> QED BY <2>1, <3>1 DEF IInv, TypeOK
  <2>4. ASSUME NEW v \in onDisk
        PROVE  BytesIn(data', v) = BytesIn(data, v)
    <3>1. \A n \in LinkedNames(v) : v[n] # i
      BY <2>1 DEF InUse, LinkedNames
    <3>2. \A n \in LinkedNames(v) : data'[v[n]].len = data[v[n]].len
      BY <2>1, <3>1 DEF IInv, TypeOK
    <3>3. IsFiniteSet(LinkedNames(v))
      BY DirectoryFacts
    <3> QED BY <3>2, <3>3, SameLengths
  <2>5. IsFiniteSet(LinkedNames(e)) /\ BytesIn(data', e) = BytesIn(data, dir)
    <3>1. dir \in onDisk /\ dir \in Directories /\ IsFiniteSet(LinkedNames(dir))
          /\ BytesIn(data, dir) \in Int
      BY DirectoryFacts
    <3>2. IsFiniteSet(LinkedNames(e)) /\ BytesIn(data', e) = BytesIn(data', dir) + data'[i].len
      BY <3>1, <2>1, <2>3, <1>2, LinkAdds
    <3> QED BY <3>1, <3>2, <2>3, <2>4
  <2> HIDE DEF e
  <2>6. FiniteDirectories'
    BY <2>2, <2>5 DEF QuotaInv, FiniteDirectories
  <2>7. QuotaRespected'
    <3>1. ASSUME NEW v \in onDisk' PROVE BytesIn(data', v) <= MaxStore
      BY <2>2, <2>4, <2>5, DirectoryFacts
    <3> QED BY <3>1 DEF QuotaRespected
  <2>8. Reserved'
    <3>1. ASSUME NEW v \in onDisk', v[name] = i
          PROVE  BytesIn(data', v) + Bytes[job[w].snap] <= MaxStore + data'[i].len
      <4>1. v = e
        BY <3>1, <2>1, <2>2, <1>2 DEF InUse
      <4>2. BytesIn(data, dir) + Bytes[job[w].snap] <= MaxStore
        BY <1>1 DEF QuotaInv, Reserved, UsedBytes
      <4> QED BY <4>1, <4>2, <2>3, <2>5, FileStoreAssumption
    <3> QED BY <2>2, <3>1 DEF Reserved
  <2> QED BY <2>6, <2>7, <2>8 DEF QuotaInv
<1> QED BY <1>3, <1>4, <1>5 DEF CreateStaging

\* A chunk uses up what was promised for it.
LEMMA WriteKeepsQuota ==
  ASSUME IInv, QuotaInv, NEW w \in Writers, WriteChunk(w), \A u \in Writers : u = w
  PROVE  QuotaInv'
<1> DEFINE i == ino[w]
           n == tmp[w]
           b == Bytes[job[w].snap]
<1>1. /\ pc[w] = "write" /\ n \in Names /\ n # None /\ i \in Inodes /\ job[w] \in Jobs
      /\ data[i] \in Files /\ b \in Nat
  <2>1. pc[w] = "write" /\ pc[w] \in Staged
    BY DEF WriteChunk, Staged
  <2> QED BY <2>1, StagedFacts, RecordLength
<1>2. /\ UNCHANGED <<dir, onDisk, job, tmp, ino>>
      /\ data' = [data EXCEPT ![i] = [data[i] EXCEPT !.len = @ + 1]]
      /\ pc'[w] \in {"write", "seal"}
  BY DEF WriteChunk, Goto, IInv, TypeOK
<1>3. data[i].len \in Nat /\ data'[i].len = data[i].len + 1 /\ data[i].len < b
  BY <1>1, <1>2 DEF IInv, Written, TypeOK, Files
<1>4. \A j \in Inodes : j # i => data'[j] = data[j]
  BY <1>2 DEF IInv, TypeOK
<1>5. data' \in [Inodes -> Files]
  BY <1>1, <1>2, FileChanges DEF IInv, TypeOK
<1>6. ASSUME NEW v \in onDisk
      PROVE  \/ v[n] = i /\ BytesIn(data', v) = BytesIn(data, v) + 1
             \/ v[n] # i /\ BytesIn(data', v) = BytesIn(data, v)
  <2>1. /\ v \in Directories /\ IsFiniteSet(LinkedNames(v)) /\ BytesIn(data, v) \in Int
        /\ data \in [Inodes -> Files]
    BY DirectoryFacts
  <2>2. \A m \in Names : v[m] = i => m = n
    BY <1>1 DEF IInv, OwnFile
  <2>3. CASE v[n] # i
    <3>1. \A m \in LinkedNames(v) : v[m] # i /\ v[m] \in Inodes
      BY <2>1, <2>2, <2>3 DEF LinkedNames, Directories
    <3>2. \A m \in LinkedNames(v) : data'[v[m]].len = data[v[m]].len
      BY <1>4, <3>1
    <3> HIDE DEF i, n
    <3> QED BY <2>1, <2>3, <3>2, SameLengths
  <2>4. CASE v[n] = i
    <3> DEFINE e == [v EXCEPT ![n] = None]
    <3>1. v[n] # None
      BY <1>1, <2>4, NoneFacts
    <3>2. /\ IsFiniteSet(LinkedNames(e)) /\ BytesIn(data, v) = BytesIn(data, e) + data[i].len
          /\ BytesIn(data', v) = BytesIn(data', e) + data'[i].len
      BY <1>1, <1>5, <2>1, <2>4, <3>1, UnlinkDrops
    <3>3. \A m \in LinkedNames(e) : e[m] # i /\ e[m] \in Inodes
      BY <2>1, <2>2 DEF LinkedNames, Directories
    <3>4. \A m \in LinkedNames(e) : data'[e[m]].len = data[e[m]].len
      BY <1>4, <3>3
    <3>5. e \in Directories
      BY <2>1 DEF Directories
    <3> HIDE DEF e
    <3>6. BytesIn(data', e) = BytesIn(data, e)
      BY <3>2, <3>4, SameLengths
    <3>7. BytesIn(data, e) \in Int
      BY <2>1, <3>2, <3>5, BytesTyped
    <3> HIDE DEF i, n
    <3> QED BY <1>3, <2>4, <3>2, <3>6, <3>7
  <2> QED BY <2>3, <2>4
<1>7. ASSUME NEW v \in onDisk, v[n] = i
      PROVE  BytesIn(data, v) + b <= MaxStore + data[i].len
  BY <1>1, <1>7 DEF QuotaInv, Reserved
<1> HIDE DEF i, n, b
<1>8. FiniteDirectories'
  BY <1>2 DEF QuotaInv, FiniteDirectories
<1>9. QuotaRespected'
  <2>1. ASSUME NEW v \in onDisk PROVE BytesIn(data', v) <= MaxStore
    <3>1. BytesIn(data, v) \in Int /\ BytesIn(data, v) <= MaxStore /\ MaxStore \in Int
      BY DirectoryFacts, FileStoreAssumption
    <3> QED BY <1>1, <1>3, <1>6, <1>7, <3>1
  <2> QED BY <1>2, <2>1 DEF QuotaRespected
<1>10. ASSUME NEW v \in onDisk, v[n] = i
       PROVE  BytesIn(data', v) + b <= MaxStore + data'[i].len
  <2>1. BytesIn(data, v) \in Int /\ MaxStore \in Int
    BY DirectoryFacts, FileStoreAssumption
  <2> QED BY <1>1, <1>3, <1>6, <1>7, <1>10, <2>1
<1>11. Reserved'
  BY <1>2, <1>10 DEF Reserved, i, n, b
<1> QED BY <1>8, <1>9, <1>11 DEF QuotaInv

\* A step after which nothing is promised, which leaves all lengths alone and
\* whose directories hold no more than some directory did before.
LEMMA ReleaseQuota ==
  ASSUME IInv, QuotaInv, TypeOK',
         \A i \in Inodes : data'[i].len = data[i].len,
         \A v \in onDisk' : \/ v \in onDisk
                            \/ IsFiniteSet(LinkedNames(v)) /\ BytesIn(data, v) <= MaxStore,
         \A w \in Writers : pc'[w] \notin {"space", "create", "write"}
  PROVE  QuotaInv'
<1>1. ASSUME NEW v \in onDisk'
      PROVE  IsFiniteSet(LinkedNames(v)) /\ BytesIn(data', v) <= MaxStore
  <2>1. IsFiniteSet(LinkedNames(v)) /\ BytesIn(data, v) <= MaxStore
    BY DirectoryFacts
  <2>2. \A n \in LinkedNames(v) : v[n] \in Inodes
    BY DEF LinkedNames, TypeOK, Directories
  <2>3. \A n \in LinkedNames(v) : data[v[n]].len = data'[v[n]].len
    BY <2>2
  <2>4. BytesIn(data, v) = BytesIn(data', v)
    BY <2>1, <2>3, SameLengths
  <2> QED BY <2>1, <2>4
<1>2. FiniteDirectories' /\ QuotaRespected'
  BY <1>1 DEF FiniteDirectories, QuotaRespected
<1>3. Reserved'
  BY DEF Reserved
<1> QED BY <1>2, <1>3 DEF QuotaInv

\* The rename moves bytes from one name to another.
LEMMA RenameKeepsQuota ==
  ASSUME IInv, QuotaInv, TypeOK', NEW w \in Writers, Rename(w), \A u \in Writers : u = w
  PROVE  QuotaInv'
<1> DEFINE i == ino[w]
           n == tmp[w]
           k == job[w].key
           e == [dir EXCEPT ![n] = None]
           f == [dir EXCEPT ![k] = i, ![n] = None]
<1>1. /\ pc[w] = "publish" /\ n \in Names /\ n # None /\ i \in Inodes /\ k \in Names /\ k # n
      /\ dir[n] = i /\ dir[k] = None /\ i # None
  <2>1. pc[w] = "publish" /\ pc[w] \in Staged /\ dir[k] = None
    BY DEF Rename, Staged
  <2> QED BY <2>1, StagedFacts, NameFacts, NoneFacts DEF Jobs
<1>2. /\ data' = data /\ onDisk' = onDisk \cup {f} /\ pc'[w] = "dirsync"
  BY <1>1 DEF Rename, SetDirectory, Goto, IInv, TypeOK
<1>3. /\ dir \in onDisk /\ dir \in Directories /\ IsFiniteSet(LinkedNames(dir))
      /\ BytesIn(data, dir) <= MaxStore /\ data \in [Inodes -> Files]
  BY DirectoryFacts
<1>4. e \in Directories /\ e[k] = None /\ f = [e EXCEPT ![k] = i]
  BY <1>1, <1>3 DEF Directories
<1> HIDE DEF i, n, k, f
<1>5. IsFiniteSet(LinkedNames(e)) /\ BytesIn(data, dir) = BytesIn(data, e) + data[i].len
  BY <1>1, <1>3, UnlinkDrops
<1> HIDE DEF e
<1>6. IsFiniteSet(LinkedNames(f)) /\ BytesIn(data, f) = BytesIn(data, e) + data[i].len
  BY <1>1, <1>3, <1>4, <1>5, LinkAdds
<1>7. IsFiniteSet(LinkedNames(f)) /\ BytesIn(data, f) <= MaxStore
  BY <1>3, <1>5, <1>6
<1>8. \A u \in Writers : pc'[u] \notin {"space", "create", "write"}
  BY <1>2
<1>9. \A v \in onDisk' : v \in onDisk \/ v = f
  BY <1>2
<1> QED BY <1>2, <1>7, <1>8, <1>9, ReleaseQuota

\* The unlink of a failing put takes bytes away, if it succeeds.
LEMMA FailStagedKeepsQuota ==
  ASSUME IInv, QuotaInv, TypeOK', NEW w \in Writers, FailStaged(w), \A u \in Writers : u = w
  PROVE  QuotaInv'
<1> DEFINE i == ino[w]
           n == tmp[w]
           e == [dir EXCEPT ![n] = None]
<1>1. /\ n \in Names /\ i \in Inodes /\ dir[n] = i /\ i # None
  <2>1. pc[w] \in Staged
    BY DEF FailStaged, Staged
  <2> QED BY <2>1, StagedFacts, NoneFacts
<1>2. /\ data' = data /\ pc'[w] = "idle"
      /\ onDisk' = onDisk \cup {e} \/ onDisk' = onDisk
  BY DEF FailStaged, Return, SetDirectory, IInv, TypeOK
<1>3. /\ dir \in onDisk /\ dir \in Directories /\ IsFiniteSet(LinkedNames(dir))
      /\ BytesIn(data, dir) <= MaxStore /\ data \in [Inodes -> Files]
  BY DirectoryFacts
<1>4. e \in Directories /\ data[i].len \in Nat /\ MaxStore \in Nat
  BY <1>1, <1>3, FileStoreAssumption DEF Directories, Files
<1> HIDE DEF i, n
<1>5. IsFiniteSet(LinkedNames(e)) /\ BytesIn(data, dir) = BytesIn(data, e) + data[i].len
  BY <1>1, <1>3, UnlinkDrops
<1> HIDE DEF e
<1>6. BytesIn(data, e) \in Int
  BY <1>3, <1>4, <1>5, BytesTyped
<1>7. IsFiniteSet(LinkedNames(e)) /\ BytesIn(data, e) <= MaxStore
  BY <1>3, <1>4, <1>5, <1>6
<1>8. \A u \in Writers : pc'[u] \notin {"space", "create", "write"}
  BY <1>2
<1>9. \A v \in onDisk' : v \in onDisk \/ v = e
  BY <1>2
<1> QED BY <1>2, <1>7, <1>8, <1>9, ReleaseQuota

\* Sealing, syncing and losing a file leave its length.
LEMMA LengthKept ==
  ASSUME NEW f \in Files
  PROVE  /\ [f EXCEPT !.sealed = TRUE].len = f.len
         /\ [f EXCEPT !.synced = TRUE].len = f.len
         /\ \A b \in BOOLEAN : [f EXCEPT !.snap = IF b THEN Garbage ELSE @,
                                          !.synced = TRUE].len = f.len
  BY DEF Files

\* Every step of the one writer, of readers and of the host keeps the quota.
LEMMA QuotaStep ==
  ASSUME IInv, QuotaInv, [Next]_vars, \A u, w \in Writers : u = w
  PROVE  QuotaInv'
<1>0. TypeOK'
  BY TypeStep
<1>1. ASSUME NEW w \in Writers, PutStep(w) PROVE QuotaInv'
  <2>0. \A u \in Writers : u = w
    OBVIOUS
  <2>1. CASE PutBegin(w) \/ CheckExisting(w)
    <3>1. UNCHANGED <<dir, onDisk, data>> /\ pc'[w] \in {"check", "quota"}
      BY <2>1 DEF PutBegin, CheckExisting, Goto, IInv, TypeOK
    <3> QED BY <2>0, <3>1, QuietQuota
  <2>2. CASE CheckQuota(w)
    BY <2>0, <2>2, CheckReserves
  <2>3. CASE CheckSpace(w)
    <3>1. /\ UNCHANGED <<dir, onDisk, data, job>>
          /\ pc[w] = "space" /\ pc'[w] = "create"
      BY <2>3 DEF CheckSpace, Goto, IInv, TypeOK
    <3> QED BY <2>0, <3>1, QuietQuota
  <2>4. CASE FailEarly(w) \/ FailDirectorySync(w)
    <3>1. UNCHANGED <<dir, onDisk, data>> /\ pc'[w] = "idle"
      BY <2>4 DEF FailEarly, FailDirectorySync, Return, IInv, TypeOK
    <3> QED BY <2>0, <3>1, QuietQuota
  <2>5. CASE CreateStaging(w)
    BY <2>0, <2>5, CreateKeepsQuota
  <2>6. CASE WriteChunk(w)
    BY <2>0, <2>6, WriteKeepsQuota
  <2>7. CASE WriteChecksum(w) \/ SyncFile(w)
    <3>1. /\ UNCHANGED <<dir, onDisk>> /\ pc'[w] \in {"sync", "publish"}
          /\ \A i \in Inodes : data'[i].len = data[i].len
      <4>1. UNCHANGED <<dir, onDisk>> /\ pc'[w] \in {"sync", "publish"} /\ pc[w] \in Staged
        BY <2>7 DEF WriteChecksum, SyncFile, Goto, IInv, TypeOK, Staged
      <4>2. data[ino[w]] \in Files
        BY <4>1, StagedFacts
      <4>3. \/ data' = [data EXCEPT ![ino[w]] = [data[ino[w]] EXCEPT !.sealed = TRUE]]
            \/ data' = [data EXCEPT ![ino[w]] = [data[ino[w]] EXCEPT !.synced = TRUE]]
        BY <2>7 DEF WriteChecksum, SyncFile
      <4>4. \A i \in Inodes : data'[i].len = data[i].len
        BY <4>2, <4>3, LengthKept DEF IInv, TypeOK
      <4> QED BY <4>1, <4>4
    <3>2. \A u \in Writers : pc'[u] \notin {"space", "create", "write"}
      BY <2>0, <3>1
    <3> QED BY <1>0, <3>1, <3>2, ReleaseQuota
  <2>8. CASE Rename(w)
    BY <1>0, <2>0, <2>8, RenameKeepsQuota
  <2>9. CASE FailStaged(w)
    BY <1>0, <2>0, <2>9, FailStagedKeepsQuota
  <2>10. CASE SyncDirectory(w)
    <3>1. UNCHANGED <<dir, data>> /\ onDisk' = {dir} /\ pc'[w] = "idle"
      BY <2>10 DEF SyncDirectory, Return, IInv, TypeOK
    <3>2. dir \in onDisk
      BY DirectoryFacts
    <3> QED BY <2>0, <3>1, <3>2, QuietQuota
  <2> QED BY <1>1, <2>1, <2>2, <2>3, <2>4, <2>5, <2>6, <2>7, <2>8, <2>9, <2>10 DEF PutStep
<1>2. ASSUME NEW r \in Readers, GetStep(r) PROVE QuotaInv'
  <2>1. UNCHANGED <<dir, onDisk, data, pc, job, tmp, ino>>
    BY <1>2 DEF GetStep, GetOpen, GetRead, putVars
  <2> QED BY <2>1, QuietQuota
<1>3. ASSUME NEW w \in Writers, Crash(w) PROVE QuotaInv'
  <2>1. UNCHANGED <<dir, onDisk, data>> /\ pc'[w] = "idle" /\ \A u \in Writers : u = w
    BY <1>3 DEF Crash, Return, IInv, TypeOK
  <2> QED BY <2>1, QuietQuota
<1>4. CASE PowerLoss
  <2>1. ASSUME NEW i \in Inodes
        PROVE  data'[i].len = data[i].len
    <3>1. PICK L \in SUBSET Inodes :
            data' = [j \in Inodes |-> [data[j] EXCEPT
                      !.snap = IF j \in L THEN Garbage ELSE @, !.synced = TRUE]]
      BY <1>4 DEF PowerLoss
    <3>2. data'[i] = [data[i] EXCEPT !.snap = IF i \in L THEN Garbage ELSE @, !.synced = TRUE]
      BY <3>1
    <3>3. data[i] \in Files
      BY DEF IInv, TypeOK
    <3> QED BY <3>2, <3>3, LengthKept
  <2>2. \A v \in onDisk' : v \in onDisk
    BY <1>4 DEF PowerLoss
  <2>3. \A w \in Writers : pc'[w] \notin {"space", "create", "write"}
    BY <1>4 DEF PowerLoss
  <2> QED BY <1>0, <2>1, <2>2, <2>3, ReleaseQuota
<1>5. CASE UNCHANGED vars
  <2>1. UNCHANGED <<dir, onDisk, data, pc, job, tmp, ino>>
    BY <1>5 DEF vars, putVars
  <2> QED BY <2>1, QuietQuota
<1> QED BY <1>1, <1>2, <1>3, <1>4, <1>5 DEF Next

\* The files of others are finitely many, and all there is at the start.
LEMMA QuotaInit ==
  ASSUME Init, UsedBytes <= MaxStore
  PROVE  QuotaInv
<1>1. onDisk = {dir}
  BY DEF Init
<1>2. IsFiniteSet(LinkedNames(dir))
  <2>1. PICK at \in [ForeignInodes -> Names] :
          dir = [n \in Names |-> IF \E f \in ForeignInodes : at[f] = n
                                 THEN CHOOSE f \in ForeignInodes : at[f] = n ELSE None]
    BY DEF Init
  <2>2. LinkedNames(dir) \subseteq {at[f] : f \in ForeignInodes}
    BY <2>1 DEF LinkedNames
  <2>3. IsFiniteSet({at[f] : f \in ForeignInodes})
    <3> DEFINE T == {at[f] : f \in ForeignInodes}
    <3>1. at \in Surjection(ForeignInodes, T)
      BY DEF Surjection
    <3>2. IsFiniteSet(ForeignInodes)
      BY FileStoreAssumption
    <3> HIDE DEF T
    <3>3. IsFiniteSet(T)
      BY ONLY <3>1, <3>2, FS_Surjection
    <3> QED BY <3>3 DEF T
  <2> QED BY <2>2, <2>3, FS_Subset
<1>3. FiniteDirectories /\ QuotaRespected
  BY <1>1, <1>2 DEF FiniteDirectories, QuotaRespected, UsedBytes
<1>4. Reserved
  BY DEF Reserved, Init
<1> QED BY <1>3, <1>4 DEF QuotaInv

\* One writer that starts within the quota stays within it, with staged and
\* abandoned files counted, whatever fails and whatever a power loss leaves
\* (check_quota, used_bytes).
THEOREM QuotaIsRespected ==
  ASSUME \A u, w \in Writers : u = w
  PROVE  Spec /\ UsedBytes <= MaxStore => []QuotaRespected
<1>1. Init /\ UsedBytes <= MaxStore => QuotaInv
  BY QuotaInit
<1>2. IInv /\ QuotaInv /\ [Next]_vars => QuotaInv'
  BY QuotaStep
<1>3. QuotaInv => QuotaRespected
  BY DEF QuotaInv
<1>4. Spec => []IInv
  BY Invariance
<1> QED BY <1>1, <1>2, <1>3, <1>4, PTL DEF Spec
=============================================================================
