----------------------------- MODULE FileStore -----------------------------
(***************************************************************************)
(* The persistent file store (file_store.py): rows in SQLite, bytes in one *)
(* blob per content.  The store is one object per process; its lock covers *)
(* save_bytes up to the commit and the transaction of delete, but not the  *)
(* unlink of the blob that follows it, nor the SELECT before it.           *)
(*                                                                         *)
(* A content is its digest, with the size a file of it counts for.  Names, *)
(* scopes, tags and media types are left out: update_metadata changes them *)
(* and nothing else.                                                       *)
(***************************************************************************)
EXTENDS Integers, FiniteSets

CONSTANTS Callers,    \* threads that save and delete files
          Files,      \* bound: file ids (fresh UUIDs, or given by the caller of save_bytes)
          Contents,   \* SHA-256 digests
          Size,       \* size_bytes of each content
          MaxFiles,   \* FILE_STORE_MAX_FILES
          MaxTotal,   \* FILE_STORE_MAX_TOTAL_BYTES
          Loads       \* bound: what happens in one behaviour

\* what is assumed of the constants; the module that instantiates them asserts it
ConstantsAssumption ==
  /\ Size \in [Contents -> Nat] /\ IsFiniteSet(Callers)
  /\ MaxFiles \in Nat \ {0} /\ MaxTotal \in Nat
  /\ \A d \in Loads : d.callers \subseteq Callers /\ d.crash \in BOOLEAN

NoBlob == {}

VARIABLES
  load,     \* the threads at work, and whether the process may die
  rows,     \* stored_files: the content of each file, NoBlob when absent
  blobs,    \* contents with a file under blobs/
  calls,    \* the call of each thread
  left      \* history: contents whose bytes a call has left without a file

vars == <<load, rows, blobs, calls, left>>

Some(d) == {d}

Idle == [pc |-> "idle", file |-> {}, content |-> NoBlob]

Calls == [pc : {"idle", "write", "insert", "delete", "unlink"},
          file : {{}} \cup {{f} : f \in Files},
          content : {NoBlob} \cup {Some(d) : d \in Contents}]

Init ==
  /\ load \in Loads
  /\ rows = [f \in Files |-> NoBlob]
  /\ blobs = {}
  /\ calls = [c \in Callers |-> Idle]
  /\ left = {}

(* Saves that take no lock. *)
LockIgnored == TRUE

(* self._lock: held from the capacity check of a save to its commit. *)
LockFree == \A c \in Callers : calls[c].pc \notin {"write", "insert"}

Stored == {f \in Files : rows[f] # NoBlob}
References(d) == {f \in Files : rows[f] = Some(d)}

(* SUM(size_bytes): the bytes that the files count for, each by file and position. *)
Bytes(f) == {f} \X UNION {1..Size[d] : d \in rows[f]}
Total == Cardinality(UNION {Bytes(f) : f \in Files})

(* _enforce_capacity does not raise. *)
Fits(d) == Cardinality(Stored) < MaxFiles /\ Total + Size[d] <= MaxTotal

Goes(c, pc, f, x) == calls' = [calls EXCEPT ![c] = [pc |-> pc, file |-> f, content |-> x]]

(* save_bytes takes the lock, checks the limits, the id and whether the     *)
(* blob is there.                                                           *)
SaveChecks(c) ==
  \E f \in Files, d \in Contents :
    /\ calls[c].pc = "idle" /\ LockFree
    /\ f \notin Stored /\ Fits(d)
    /\ Goes(c, IF d \in blobs THEN "insert" ELSE "write", {f}, Some(d))
    /\ UNCHANGED <<load, rows, blobs, left>>

(* The temporary file is written and renamed to the blob. *)
SaveWrites(c) ==
  /\ calls[c].pc = "write"
  /\ blobs' = blobs \cup calls[c].content
  /\ calls' = [calls EXCEPT ![c].pc = "insert"]
  /\ UNCHANGED <<load, rows, left>>

(* Contents without a file. *)
Bare(X) == {d \in X : References(d) = {}}

(* A full disk, a directory that a delete has just removed, or an INSERT or *)
(* commit that fails: the blob that was renamed stays.                      *)
SaveFails(c) ==
  /\ calls[c].pc \in {"write", "insert"}
  /\ left' = IF calls[c].pc = "insert" THEN left \cup Bare(calls[c].content) ELSE left
  /\ calls' = [calls EXCEPT ![c] = Idle]
  /\ UNCHANGED <<load, rows, blobs>>

(* The INSERT, its commit and the release of the lock. *)
SaveInserts(c) ==
  /\ calls[c].pc = "insert"
  /\ rows' = [f \in Files |-> IF f \in calls[c].file THEN calls[c].content ELSE rows[f]]
  /\ left' = left \ calls[c].content
  /\ calls' = [calls EXCEPT ![c] = Idle]
  /\ UNCHANGED <<load, blobs>>

(* get_info: delete reads the digest of a file that exists. *)
DeleteReads(c) ==
  \E f \in Stored :
    /\ calls[c].pc = "idle"
    /\ Goes(c, "delete", {f}, rows[f])
    /\ UNCHANGED <<load, rows, blobs, left>>

(* A blob unlinked with the first of its files. *)
DeleteAlwaysUnlinks(c) ==
  /\ calls[c].pc = "delete" /\ LockFree
  /\ rows' = [f \in Files |-> IF f \in calls[c].file THEN NoBlob ELSE rows[f]]
  /\ calls' = [calls EXCEPT ![c].pc = "unlink"]
  /\ UNCHANGED <<load, blobs, left>>

(* A blob left behind with the last of its files. *)
DeleteNeverUnlinks(c) ==
  /\ calls[c].pc = "delete" /\ LockFree
  /\ rows' = [f \in Files |-> IF f \in calls[c].file THEN NoBlob ELSE rows[f]]
  /\ calls' = [calls EXCEPT ![c] = Idle]
  /\ UNCHANGED <<load, blobs, left>>

(* The DELETE and the count of the files left with the content that was    *)
(* read.  The row may be another file's by now, saved under the same id.   *)
DeleteCommits(c) ==
  /\ calls[c].pc = "delete" /\ LockFree
  /\ rows' = [f \in Files |-> IF f \in calls[c].file THEN NoBlob ELSE rows[f]]
  /\ calls' = [calls EXCEPT ![c] =
                 IF \E f \in Files : rows'[f] = calls[c].content THEN Idle
                 ELSE [calls[c] EXCEPT !.pc = "unlink"]]
  /\ left' = left \cup {d \in (UNION {rows[f] : f \in calls[c].file}) \ calls[c].content :
                          \A f \in Files : rows'[f] # Some(d)}
  /\ UNCHANGED <<load, blobs>>

(* The DELETE, its commit or the unlink fails: with the unlink the blob stays. *)
DeleteFails(c) ==
  /\ calls[c].pc \in {"delete", "unlink"}
  /\ left' = IF calls[c].pc = "unlink" THEN left \cup Bare(calls[c].content) ELSE left
  /\ calls' = [calls EXCEPT ![c] = Idle]
  /\ UNCHANGED <<load, rows, blobs>>

(* The unlink, after the lock is released. *)
DeleteUnlinks(c) ==
  /\ calls[c].pc = "unlink"
  /\ blobs' = blobs \ calls[c].content
  /\ left' = left \ calls[c].content
  /\ calls' = [calls EXCEPT ![c] = Idle]
  /\ UNCHANGED <<load, rows>>

(* The process dies; a transaction that has not committed is undone. *)
Crash ==
  /\ load.crash
  /\ \E c \in Callers : calls[c].pc # "idle"
  /\ left' = left \cup Bare(UNION {calls[c].content : c \in {e \in Callers : calls[e].pc \in {"insert", "unlink"}}})
  /\ calls' = [c \in Callers |-> Idle]
  /\ UNCHANGED <<load, rows, blobs>>

Next ==
  \/ \E c \in load.callers :
       \/ SaveChecks(c) \/ SaveWrites(c) \/ SaveFails(c) \/ SaveInserts(c)
       \/ DeleteReads(c) \/ DeleteCommits(c) \/ DeleteFails(c) \/ DeleteUnlinks(c)
  \/ Crash

Spec == Init /\ [][Next]_vars

(***************************************************************************)
(* Properties                                                              *)
(***************************************************************************)

(* Every variable has its type, and at most one save is between its check *)
(* and its commit.                                                         *)
TypeOK ==
  /\ load \in Loads
  /\ rows \in [Files -> {NoBlob} \cup {Some(d) : d \in Contents}]
  /\ blobs \subseteq Contents
  /\ calls \in [Callers -> Calls]
  /\ Cardinality({c \in Callers : calls[c].pc \in {"write", "insert"}}) <= 1
  /\ left \subseteq Contents

(* The store never exceeds its two limits, however many saves run at once. *)
WithinLimits == Cardinality(Stored) <= MaxFiles /\ Total <= MaxTotal

(* One caller: every stored file has its bytes on disk, wherever the       *)
(* process died before.                                                    *)
StoredHasBlob == Cardinality(load.callers) = 1 => \A f \in Stored : rows[f] \subseteq blobs

(* When nothing runs, a blob without a file is one that a failed or killed *)
(* save or deletion left behind, or a deletion that met another            *)
(* file under its id.                                                      *)
NoOrphanBlob ==
  (\A c \in Callers : calls[c].pc = "idle") => \A d \in blobs : References(d) # {} \/ d \in left

=============================================================================
