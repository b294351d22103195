------------------------------ MODULE FileStore ------------------------------
(***************************************************************************)
(* DirectFileStore of snapshot_store.hpp: put stages a record under a      *)
(* private name, writes and fsyncs it, renames it to its key without       *)
(* replacement and fsyncs the directory; get opens the key and verifies    *)
(* what it reads.  Any call can fail, a process can die between two calls  *)
(* (its staging file stays), and the host can lose power.                  *)
(*                                                                         *)
(* The file system keeps directory operations in order, as a journal does: *)
(* onDisk is the set of directories a power loss can leave behind, every   *)
(* version since the last directory fsync.  File bytes have no such order: *)
(* whatever was not fsynced may be lost.                                   *)
(***************************************************************************)
EXTENDS Integers, FiniteSets, Functions

CONSTANTS
  Keys, Snapshots, Identities, IdentityOf, Readers, None, \* see SnapshotStore
  Writers,      \* processes that put
  Inodes,       \* file bodies; ForeignInodes are files the store did not write
  ForeignInodes,
  Pids,         \* process ids; they are reused, and containers may share one
  MaxSeq,       \* bound on the staging sequence number of one process
  MaxAttempts,  \* staging names tried by one put (128 in the code)
  Bytes,        \* function: encoded length of each snapshot's record, in chunks
  MaxBlob, MaxStore, \* Limits
  Garbage       \* the contents of a file that holds no record

Names == Keys \cup (Pids \X (0 .. MaxSeq))

ASSUME FileStoreAssumption ==
  /\ IdentityOf \in [Snapshots -> Identities]
  /\ None \notin Snapshots \cup Inodes \cup Names
  /\ Garbage \notin Snapshots \cup {None}
  /\ ForeignInodes \subseteq Inodes /\ IsFiniteSet(ForeignInodes)
  /\ MaxSeq \in Nat /\ MaxAttempts \in Nat \ {0}
  /\ MaxBlob \in Nat /\ MaxStore \in Nat
  /\ Bytes \in [Snapshots -> Nat \ {0}]

\* valid_key admits letters, digits, '_' and '-': no key is a staging name.
ASSUME KeyAssumption == Keys \cap (Pids \X (0 .. MaxSeq)) = {}

VARIABLES
  dir,      \* dir[n]: the inode name n links to, or None
  onDisk,   \* the directories a power loss may leave
  data,     \* data[i]: what inode i holds
  pc,       \* pc[w]: the next call of writer w's put
  job,      \* job[w]: the key and snapshot being put
  tmp,      \* TempFile::name_ while it names a file of this put, else None
  ino,      \* the inode behind TempFile's descriptor
  pid, seq, \* process id; TempFile's static sequence
  tries,    \* TempFile's attempt counter
  acked,    \* acked[k]: the snapshot whose put of k returned normally
  rpc, ask, rino, answer  \* a get: progress, question, open inode, reply

putVars == <<pc, job, tmp, ino, pid, seq, tries>>
getVars == <<rpc, ask, rino, answer>>
vars == <<dir, onDisk, data, putVars, acked, getVars>>

Files == [snap : Snapshots \cup {Garbage}, len : Nat, sealed : BOOLEAN,
          synced : BOOLEAN, private : BOOLEAN]
Directories == [Names -> Inodes \cup {None}]
Jobs == [key : Keys, snap : Snapshots]
Stages == {"idle", "check", "quota", "space", "create", "write", "seal",
           "sync", "publish", "dirsync"}

Abstract == INSTANCE SnapshotStore WITH
  stored <- [k \in Keys |-> IF dir[k] = None \/ dir[k] \in ForeignInodes
                            THEN None ELSE data[dir[k]].snap]

Questions == [key : Keys, identity : Identities]

TypeOK ==
  /\ dir \in Directories
  /\ onDisk \subseteq Directories
  /\ data \in [Inodes -> Files]
  /\ pc \in [Writers -> Stages]
  /\ job \in [Writers -> Jobs \cup {None}]
  /\ tmp \in [Writers -> Names \cup {None}]
  /\ ino \in [Writers -> Inodes \cup {None}]
  /\ pid \in [Writers -> Pids]
  /\ seq \in [Writers -> 0 .. MaxSeq + 1]
  /\ tries \in [Writers -> 0 .. MaxAttempts]
  /\ acked \in [Keys -> Snapshots \cup {None}]
  /\ rpc \in [Readers -> {"idle", "read"}]
  /\ ask \in [Readers -> Questions \cup {None}]
  /\ rino \in [Readers -> Inodes \cup {None}]
  /\ answer \in [Readers -> Abstract!Answers \cup {Abstract!NoAnswer}]

-----------------------------------------------------------------------------
(* The file system. *)

NewFile(s) == [snap |-> s, len |-> 0, sealed |-> FALSE,
               synced |-> FALSE, private |-> TRUE]

\* A file of someone else: never a record; private or not by its mode.
ForeignFile(p) == [snap |-> Garbage, len |-> 1, sealed |-> FALSE,
                   synced |-> TRUE, private |-> p]

\* A directory operation reaches the disk some time before the next fsync.
SetDirectory(d) == dir' = d /\ onDisk' = onDisk \cup {d}

InUse(i) ==
  \/ i \in ForeignInodes
  \/ \E v \in onDisk, n \in Names : v[n] = i
  \/ \E w \in Writers : ino[w] = i
  \/ \E r \in Readers : rino[r] = i

Complete(f) == f.snap \in Snapshots /\ f.len = Bytes[f.snap] /\ f.sealed

\* The names of directory d that lead to a file.
LinkedNames(d) == {n \in Names : d[n] # None}

\* used_bytes: every file counts, published, staged or foreign.
BytesIn(files, d) == SumFunction([n \in LinkedNames(d) |-> files[d[n]].len])

UsedBytes == BytesIn(data, dir)

Init ==
  /\ \E at \in [ForeignInodes -> Names], p \in [ForeignInodes -> BOOLEAN] :
       /\ \A f, g \in ForeignInodes : at[f] = at[g] => f = g
       /\ dir = [n \in Names |->
                   IF \E f \in ForeignInodes : at[f] = n
                   THEN CHOOSE f \in ForeignInodes : at[f] = n ELSE None]
       /\ data = [i \in Inodes |-> ForeignFile(IF i \in ForeignInodes
                                               THEN p[i] ELSE TRUE)]
  /\ onDisk = {dir}
  /\ pc = [w \in Writers |-> "idle"]
  /\ job = [w \in Writers |-> None]
  /\ tmp = [w \in Writers |-> None]
  /\ ino = [w \in Writers |-> None]
  /\ pid \in [Writers -> Pids]
  /\ seq = [w \in Writers |-> 0]
  /\ tries = [w \in Writers |-> 0]
  /\ acked = [k \in Keys |-> None]
  /\ rpc = [r \in Readers |-> "idle"]
  /\ ask = [r \in Readers |-> None]
  /\ rino = [r \in Readers |-> None]
  /\ answer = [r \in Readers |-> Abstract!NoAnswer]

-----------------------------------------------------------------------------
(* put. *)

\* The put is over: its descriptor and TempFile are destroyed.
Return(w) ==
  /\ pc' = [pc EXCEPT ![w] = "idle"]
  /\ job' = [job EXCEPT ![w] = None]
  /\ tmp' = [tmp EXCEPT ![w] = None]
  /\ ino' = [ino EXCEPT ![w] = None]
  /\ tries' = [tries EXCEPT ![w] = 0]

Goto(w, stage) == pc' = [pc EXCEPT ![w] = stage]

\* A call, past valid_key and record_size.
PutBegin(w) ==
  /\ pc[w] = "idle"
  /\ \E k \in Keys, s \in Snapshots :
       /\ Bytes[s] <= MaxBlob
       /\ job' = [job EXCEPT ![w] = [key |-> k, snap |-> s]]
  /\ Goto(w, "check")
  /\ UNCHANGED <<dir, onDisk, data, tmp, ino, pid, seq, tries, acked, getVars>>

CheckExisting(w) ==
  /\ pc[w] = "check"
  /\ dir[job[w].key] = None
  /\ Goto(w, "quota")
  /\ UNCHANGED <<dir, onDisk, data, job, tmp, ino, pid, seq, tries, acked, getVars>>

\* Mutant: only published entries are counted.
CheckQuotaOfEntries(w) ==
  /\ pc[w] = "quota"
  /\ SumFunction([n \in LinkedNames(dir) \cap Keys |-> data[dir[n]].len])
       + Bytes[job[w].snap] <= MaxStore
  /\ Goto(w, "space")
  /\ UNCHANGED <<dir, onDisk, data, job, tmp, ino, pid, seq, tries, acked, getVars>>

\* used_bytes refuses a directory with a file that is not private.
CheckQuota(w) ==
  /\ pc[w] = "quota"
  /\ \A n \in Names : dir[n] # None => data[dir[n]].private
  /\ UsedBytes + Bytes[job[w].snap] <= MaxStore
  /\ Goto(w, "space")
  /\ UNCHANGED <<dir, onDisk, data, job, tmp, ino, pid, seq, tries, acked, getVars>>

\* Free space is the environment's: the check may pass or fail (FailEarly).
CheckSpace(w) ==
  /\ pc[w] = "space"
  /\ Goto(w, "create")
  /\ UNCHANGED <<dir, onDisk, data, job, tmp, ino, pid, seq, tries, acked, getVars>>

\* The duplicate, quota and space errors, a failing stat or scan: the exception
\* leaves put before a TempFile exists.
FailEarly(w) ==
  /\ pc[w] \in {"check", "quota", "space"}
  /\ Return(w)
  /\ UNCHANGED <<dir, onDisk, data, pid, seq, acked, getVars>>

\* Mutant: without O_EXCL an existing file is opened and truncated.
CreateStagingShared(w) ==
  LET name == <<pid[w], seq[w]>> IN
  /\ pc[w] = "create"
  /\ seq[w] <= MaxSeq
  /\ seq' = [seq EXCEPT ![w] = @ + 1]
  /\ \E i \in Inodes :
       /\ IF dir[name] = None THEN ~InUse(i) ELSE dir[name] = i
       /\ data' = [data EXCEPT ![i] = NewFile(job[w].snap)]
       /\ SetDirectory([dir EXCEPT ![name] = i])
       /\ ino' = [ino EXCEPT ![w] = i]
  /\ tmp' = [tmp EXCEPT ![w] = name]
  /\ Goto(w, "write")
  /\ UNCHANGED <<job, tries, pid, acked, getVars>>

\* One attempt of TempFile's constructor (openat with O_CREAT | O_EXCL).  The
\* constructor throws after the last attempt and on any error but EEXIST; the
\* destructor of a TempFile that was never constructed does not run.
CreateStaging(w) ==
  LET name == <<pid[w], seq[w]>> IN
  /\ pc[w] = "create"
  /\ seq[w] <= MaxSeq
  /\ seq' = [seq EXCEPT ![w] = @ + 1]
  /\ \/ /\ dir[name] = None
        /\ \E i \in Inodes :
             /\ ~InUse(i)
             /\ data' = [data EXCEPT ![i] = NewFile(job[w].snap)]
             /\ SetDirectory([dir EXCEPT ![name] = i])
             /\ ino' = [ino EXCEPT ![w] = i]
        /\ tmp' = [tmp EXCEPT ![w] = name]
        /\ Goto(w, "write")
        /\ UNCHANGED <<job, tries>>
     \/ /\ dir[name] # None /\ tries[w] + 1 < MaxAttempts
        /\ tries' = [tries EXCEPT ![w] = @ + 1]
        /\ UNCHANGED <<dir, onDisk, data, pc, job, tmp, ino>>
     \/ /\ Return(w)
        /\ UNCHANGED <<dir, onDisk, data>>
  /\ UNCHANGED <<pid, acked, getVars>>

\* write_all of the header and payload, one chunk at a time.
WriteChunk(w) ==
  /\ pc[w] = "write"
  /\ data' = [data EXCEPT ![ino[w]].len = @ + 1]
  /\ Goto(w, IF data'[ino[w]].len = Bytes[job[w].snap] THEN "seal" ELSE "write")
  /\ UNCHANGED <<dir, onDisk, job, tmp, ino, pid, seq, tries, acked, getVars>>

\* The checksum is written over the zeros of the header.
WriteChecksum(w) ==
  /\ pc[w] = "seal"
  /\ data' = [data EXCEPT ![ino[w]].sealed = TRUE]
  /\ Goto(w, "sync")
  /\ UNCHANGED <<dir, onDisk, job, tmp, ino, pid, seq, tries, acked, getVars>>

\* Mutant: the record is renamed without having been fsynced.
SyncFileSkipped(w) ==
  /\ pc[w] = "sync"
  /\ Goto(w, "publish")
  /\ UNCHANGED <<dir, onDisk, data, job, tmp, ino, pid, seq, tries, acked, getVars>>

SyncFile(w) ==
  /\ pc[w] = "sync"
  /\ data' = [data EXCEPT ![ino[w]].synced = TRUE]
  /\ Goto(w, "publish")
  /\ UNCHANGED <<dir, onDisk, job, tmp, ino, pid, seq, tries, acked, getVars>>

\* Mutant: a plain rename replaces what another put published meanwhile.
RenameReplacing(w) ==
  /\ pc[w] = "publish"
  /\ SetDirectory([dir EXCEPT ![job[w].key] = dir[tmp[w]], ![tmp[w]] = None])
  /\ tmp' = [tmp EXCEPT ![w] = None]
  /\ Goto(w, "dirsync")
  /\ UNCHANGED <<data, job, ino, pid, seq, tries, acked, getVars>>

\* renameat2(RENAME_NOREPLACE); the name is then no longer TempFile's to unlink.
Rename(w) ==
  /\ pc[w] = "publish"
  /\ dir[job[w].key] = None
  /\ SetDirectory([dir EXCEPT ![job[w].key] = dir[tmp[w]], ![tmp[w]] = None])
  /\ tmp' = [tmp EXCEPT ![w] = None]
  /\ Goto(w, "dirsync")
  /\ UNCHANGED <<data, job, ino, pid, seq, tries, acked, getVars>>

\* A failing write, seek, fsync or rename: the stack unwinds into ~TempFile,
\* which unlinks the staging file and ignores the result.
FailStaged(w) ==
  /\ pc[w] \in {"write", "seal", "sync", "publish"}
  /\ \/ SetDirectory([dir EXCEPT ![tmp[w]] = None])
     \/ UNCHANGED <<dir, onDisk>>
  /\ Return(w)
  /\ UNCHANGED <<data, pid, seq, acked, getVars>>

\* Mutant: put returns without the directory fsync.
SyncDirectorySkipped(w) ==
  /\ pc[w] = "dirsync"
  /\ acked' = [acked EXCEPT ![job[w].key] = job[w].snap]
  /\ Return(w)
  /\ UNCHANGED <<dir, onDisk, data, pid, seq, getVars>>

\* fsync of the root directory; put returns normally.
SyncDirectory(w) ==
  /\ pc[w] = "dirsync"
  /\ onDisk' = {dir}
  /\ acked' = [acked EXCEPT ![job[w].key] = job[w].snap]
  /\ Return(w)
  /\ UNCHANGED <<dir, data, pid, seq, getVars>>

\* ... or fails: put throws, the published entry stays.
FailDirectorySync(w) ==
  /\ pc[w] = "dirsync"
  /\ Return(w)
  /\ UNCHANGED <<dir, onDisk, data, pid, seq, acked, getVars>>

-----------------------------------------------------------------------------
(* get. *)

\* r's get of question q ends.
Reply(r, q, status, s) ==
  /\ answer' = [answer EXCEPT ![r] =
                  Abstract!Answer(status, q.key, q.identity, s)]
  /\ rpc' = [rpc EXCEPT ![r] = "idle"]
  /\ ask' = [ask EXCEPT ![r] = None]
  /\ rino' = [rino EXCEPT ![r] = None]

\* openat with O_DIRECT: ENOENT is a miss, any other error is corrupt.
GetOpen(r) ==
  /\ rpc[r] = "idle"
  /\ \E q \in Questions :
       \/ dir[q.key] = None /\ Reply(r, q, "miss", None)
       \/ Reply(r, q, "corrupt", None)
       \/ /\ dir[q.key] # None
          /\ ask' = [ask EXCEPT ![r] = q]
          /\ rino' = [rino EXCEPT ![r] = dir[q.key]]
          /\ rpc' = [rpc EXCEPT ![r] = "read"]
          /\ UNCHANGED answer
  /\ UNCHANGED <<dir, onDisk, data, putVars, acked>>

\* Mutant: the identity in the record is not compared.
VerdictOfAnyIdentity(f, id) ==
  IF f.private /\ Complete(f) /\ f.len <= MaxBlob THEN "hit" ELSE "corrupt"

\* read_record: the mode, length, header, checksum and identity checks.
Verdict(f, id) ==
  IF ~(f.private /\ Complete(f) /\ f.len <= MaxBlob) THEN "corrupt"
  ELSE IF IdentityOf[f.snap] = id THEN "hit" ELSE "incompatible"

GetRead(r) ==
  LET f == data[rino[r]]
      status == Verdict(f, ask[r].identity) IN
  /\ rpc[r] = "read"
  /\ \/ Reply(r, ask[r], status, IF status = "hit" THEN f.snap ELSE None)
     \/ Reply(r, ask[r], "corrupt", None)
  /\ UNCHANGED <<dir, onDisk, data, putVars, acked>>

-----------------------------------------------------------------------------
(* Failures of the process and of the host. *)

\* Writer w's process dies and another starts, under any pid.
Crash(w) ==
  /\ Return(w)
  /\ pid' \in {[pid EXCEPT ![w] = p] : p \in Pids}
  /\ seq' = [seq EXCEPT ![w] = 0]
  /\ UNCHANGED <<dir, onDisk, data, acked, getVars>>

\* Every process dies; a directory version survives, and unsynced bytes may not.
PowerLoss ==
  /\ \E v \in onDisk : dir' = v /\ onDisk' = {v}
  /\ \E L \in SUBSET {i \in Inodes : ~data[i].synced} :
       data' = [i \in Inodes |->
                  [data[i] EXCEPT !.snap = IF i \in L THEN Garbage ELSE @,
                                  !.synced = TRUE]]
  /\ pc' = [w \in Writers |-> "idle"]
  /\ job' = [w \in Writers |-> None]
  /\ tmp' = [w \in Writers |-> None]
  /\ ino' = [w \in Writers |-> None]
  /\ pid' \in [Writers -> Pids]
  /\ seq' = [w \in Writers |-> 0]
  /\ tries' = [w \in Writers |-> 0]
  /\ rpc' = [r \in Readers |-> "idle"]
  /\ ask' = [r \in Readers |-> None]
  /\ rino' = [r \in Readers |-> None]
  /\ answer' = [r \in Readers |-> Abstract!NoAnswer]
  /\ UNCHANGED acked

PutStep(w) ==
  \/ PutBegin(w) \/ CheckExisting(w) \/ CheckQuota(w) \/ CheckSpace(w)
  \/ FailEarly(w) \/ CreateStaging(w) \/ WriteChunk(w) \/ WriteChecksum(w)
  \/ SyncFile(w) \/ Rename(w) \/ FailStaged(w)
  \/ SyncDirectory(w) \/ FailDirectorySync(w)

GetStep(r) == GetOpen(r) \/ GetRead(r)

Next ==
  \/ \E w \in Writers : PutStep(w)
  \/ \E r \in Readers : GetStep(r)
  \/ \E w \in Writers : Crash(w)
  \/ PowerLoss

Spec == Init /\ [][Next]_vars

-----------------------------------------------------------------------------
(* Properties. *)

\* While a put may still write, rename or unlink its staging file, the name
\* leads to the inode it created, nobody else holds either, and no other name
\* links that inode: a put touches no file but its own (TempFile).
ExclusiveStaging ==
  \A w \in Writers : tmp[w] # None =>
    /\ tmp[w] \in DOMAIN dir \ Keys
    /\ ino[w] \notin ForeignInodes
    /\ \A n \in Names : dir[n] = ino[w] <=> n = tmp[w]
    /\ \A u \in Writers \ {w} : tmp[u] # tmp[w] /\ ino[u] # ino[w]

\* Whatever a power loss leaves under a key, unless it is someone else's file,
\* is a complete record whose bytes are on disk: write_record fsyncs before
\* publish renames.
PublishedComplete ==
  \A v \in onDisk : \A k \in Keys :
    v[k] \in Inodes \ ForeignInodes =>
      Complete(data[v[k]]) /\ data[v[k]].synced

\* A put that returned normally survives every later crash and power loss,
\* under its key and with its contents: put fsyncs the directory last.
AckedDurable ==
  \A k \in Keys : acked[k] # None =>
    \A v \in onDisk : /\ v[k] \in Inodes \ ForeignInodes
                      /\ data[v[k]].snap = acked[k]

\* A published entry is never overwritten, removed or written to; only a power
\* loss may take one away, and only one whose put never returned normally.
NeverReplaced ==
  [][\A k \in Keys : dir[k] # None =>
       \/ dir'[k] = dir[k] /\ data'[dir[k]] = data[dir[k]]
       \/ dir'[k] = None /\ acked[k] = None]_<<dir, data>>

\* A file the store did not write is never removed, renamed, hidden or written
\* to, not even by a failing put or a collision of staging names.
ForeignKept ==
  [][\A n \in Names : dir[n] \in ForeignInodes =>
       dir'[n] = dir[n] /\ data'[dir[n]] = data[dir[n]]]_<<dir, data>>

\* With one writer, the files of the store, staged and abandoned ones
\* included, never exceed max_store_bytes, whatever a power loss leaves.
QuotaRespected == \A v \in onDisk : BytesIn(data, v) <= MaxStore

\* DirectFileStore is a snapshot store.
Refinement == Abstract!Spec
=============================================================================
