------------------------------ MODULE KeyFiles ------------------------------
(***************************************************************************)
(* The three routines that read a secret from a file or create it:         *)
(* _download_secret (file_handoff.py), _load_or_create_key of the          *)
(* confirmations (confirmation_v967.py) and of the unsubscribe links       *)
(* (unsubscribe.py).  Threads of one process run one of them at the same   *)
(* time; the process may be killed and started again anywhere.             *)
(*                                                                         *)
(* A key is [n, blank]: n tells keys apart, 0 is the text of an empty      *)
(* file; blank says that its first or last byte is white space, which      *)
(* every reader strips.  Only the raw bytes of an unsubscribe key can      *)
(* begin or end so: the other two are written as base64 text.              *)
(***************************************************************************)
EXTENDS Naturals

CONSTANTS
  Threads,
  Routines,    \* of "download", "confirmation", "unsubscribe": the ones that run
  MaxKeys,     \* bound: keys generated
  MaxStarts,   \* bound: starts of the process after the first
  MaxFaults    \* bound: writes that fail

\* what is assumed of the constants; the module that instantiates them asserts it
KeyFilesAssumption == MaxKeys \in Nat /\ MaxStarts \in Nat /\ MaxFaults \in Nat

VARIABLES
  routine,      \* the routine of this behaviour
  file,         \* the file: Absent, Empty, or the key in it
  keys,         \* keys generated so far
  at, mine,     \* where each thread is, and the key it writes
  held,         \* the key each thread has in memory
  signed,       \* history: the keys that signed something that was given out
  interrupted,  \* history: a creation was cut short after the file was made
  unsynced,     \* history: a key was visible in the file and its fsync failed
  starts, faults

vars == <<routine, file, keys, at, mine, held, signed, interrupted, unsynced, starts, faults>>

Absent == [n |-> 0, blank |-> TRUE]
Empty == [n |-> 0, blank |-> FALSE]
Stripped(k) == [k EXCEPT !.blank = FALSE]

Init ==
  /\ routine \in Routines
  /\ file = Absent /\ keys = 0
  /\ at = [t \in Threads |-> "idle"] /\ mine = [t \in Threads |-> Absent]
  /\ held = [t \in Threads |-> Absent]
  /\ signed = {} /\ interrupted = FALSE /\ unsynced = FALSE
  /\ starts = 0 /\ faults = 0

Goes(t, where) == at' = [at EXCEPT ![t] = where]

\* the thread has its answer; an error leaves it without a key
Return(t, k) == Goes(t, "idle") /\ held' = [held EXCEPT ![t] = k]

\* the file is there: its text, when it is long enough
Answer(t) == IF file.n = 0 THEN Return(t, Absent) ELSE Return(t, Stripped(file))

-----------------------------------------------------------------------------
(* The routine.                                                            *)

\* a missing file is to be created; the download secret treats an empty one the same
Look(t) ==
  /\ at[t] = "idle" /\ held[t] = Absent
  /\ IF file = Absent \/ (file = Empty /\ routine = "download")
     THEN Goes(t, "create") /\ UNCHANGED held
     ELSE Answer(t)
  /\ UNCHANGED <<routine, file, keys, mine, signed, interrupted, unsynced, starts, faults>>

\* a plausible slip: whatever is there is replaced
CreateOver(t) ==
  /\ at[t] = "create" /\ keys < MaxKeys
  /\ mine' = [mine EXCEPT ![t] = [n |-> keys + 1, blank |-> FALSE]]
  /\ keys' = keys + 1 /\ file' = Empty
  /\ Goes(t, "write")
  /\ UNCHANGED <<routine, held, signed, interrupted, unsynced, starts, faults>>

\* O_CREAT | O_EXCL
Create(t) ==
  /\ at[t] = "create" /\ file = Absent /\ keys < MaxKeys
  /\ \E blank \in IF routine = "unsubscribe" THEN BOOLEAN ELSE {FALSE} :
       mine' = [mine EXCEPT ![t] = [n |-> keys + 1, blank |-> blank]]
  /\ keys' = keys + 1 /\ file' = Empty
  /\ Goes(t, "write")
  /\ UNCHANGED <<routine, held, signed, interrupted, unsynced, starts, faults>>

Exists(t) ==
  /\ at[t] = "create" /\ file # Absent
  /\ Goes(t, "reread")
  /\ UNCHANGED <<routine, file, keys, mine, held, signed, interrupted, unsynced, starts, faults>>

\* a plausible slip: nobody looks at what was read
RereadUnchecked(t) ==
  /\ at[t] = "reread"
  /\ Return(t, Stripped(file))
  /\ UNCHANGED <<routine, file, keys, mine, signed, interrupted, unsynced, starts, faults>>

\* whoever lost the race reads what the other one wrote; only the unsubscribe key is taken as it is
Reread(t) ==
  /\ at[t] = "reread"
  /\ IF file = Empty /\ routine = "unsubscribe" THEN Return(t, Empty) ELSE Answer(t)
  /\ UNCHANGED <<routine, file, keys, mine, signed, interrupted, unsynced, starts, faults>>

Write(t) ==
  /\ at[t] = "write"
  /\ file' = mine[t]
  /\ Goes(t, "sync")
  /\ UNCHANGED <<routine, keys, mine, held, signed, interrupted, unsynced, starts, faults>>

\* the key as it was generated, not as it will be read
Sync(t) ==
  /\ at[t] = "sync"
  /\ Return(t, mine[t])
  /\ UNCHANGED <<routine, file, keys, mine, signed, interrupted, unsynced, starts, faults>>

\* a plausible slip: the file stays
FailLeaves(t) ==
  /\ at[t] \in {"write", "sync"} /\ faults < MaxFaults
  /\ interrupted' = (interrupted \/ (at[t] = "write" /\ routine # "download"))
  /\ unsynced' = (unsynced \/ at[t] = "sync")
  /\ faults' = faults + 1
  /\ Goes(t, "idle")
  /\ UNCHANGED <<routine, file, keys, mine, held, signed, starts>>

\* write or fsync fails: the download secret removes its file, the others leave what is there
Fail(t) ==
  /\ at[t] \in {"write", "sync"} /\ faults < MaxFaults
  /\ file' = IF routine = "download" THEN Absent ELSE file
  /\ interrupted' = (interrupted \/ (at[t] = "write" /\ routine # "download"))
  /\ unsynced' = (unsynced \/ at[t] = "sync")
  /\ faults' = faults + 1
  /\ Goes(t, "idle")
  /\ UNCHANGED <<routine, keys, mine, held, signed, starts>>

\* sign_delivery, issue, build_signed_file_url: the download secret is asked for each time
Sign(t) ==
  /\ at[t] = "idle" /\ held[t] # Absent
  /\ signed' = signed \cup {held[t]}
  /\ held' = IF routine = "download" THEN [held EXCEPT ![t] = Absent] ELSE held
  /\ UNCHANGED <<routine, file, keys, at, mine, interrupted, unsynced, starts, faults>>

\* the container is stopped, or dies, and starts again
Restart ==
  /\ starts < MaxStarts
  /\ starts' = starts + 1
  /\ interrupted' = (interrupted \/ \E t \in Threads : at[t] = "write")
  /\ at' = [t \in Threads |-> "idle"] /\ held' = [t \in Threads |-> Absent]
  /\ UNCHANGED <<routine, file, keys, mine, signed, unsynced, faults>>

Next ==
  \/ Restart
  \/ \E t \in Threads :
       \/ Look(t) \/ Create(t) \/ Exists(t) \/ Reread(t) \/ Write(t) \/ Sync(t) \/ Fail(t)
       \/ Sign(t)

Spec == Init /\ [][Next]_vars

-----------------------------------------------------------------------------
(* What must hold.                                                         *)

Keys == [n : 0..MaxKeys, blank : BOOLEAN]

TypeOK ==
  /\ routine \in Routines /\ file \in Keys /\ keys \in 0..MaxKeys
  /\ at \in [Threads -> {"idle", "create", "reread", "write", "sync"}]
  /\ mine \in [Threads -> Keys] /\ held \in [Threads -> Keys] /\ signed \subseteq Keys
  /\ interrupted \in BOOLEAN /\ unsynced \in BOOLEAN
  /\ starts \in 0..MaxStarts /\ faults \in 0..MaxFaults

\* "the signing secret is generated once and persisted" (README.md:707): links and confirmations
\* that were given out are signed with the one key that is held now, whoever created the file,
\* beside whom, and however often the process was killed meanwhile.  An unsubscribe key is that
\* when its bytes survive the reading and nobody took the text of a file that was being filled.
OneKey ==
  ~unsynced /\ ~(routine = "unsubscribe" /\ file.blank) =>
    \A k \in (signed \cup {held[t] : t \in Threads}) \ {Absent} :
      \/ k = file /\ k # Empty
      \/ routine = "unsubscribe" /\ k = Empty

\* A file that is refused as too short is about to be filled, unless its creation was cut short:
\* a write that fails leaves no empty download secret behind.
EmptyIsBeingFilled == file = Empty => interrupted \/ \E t \in Threads : at[t] = "write"

\* A token that sign_delivery gave out resolves ("manager.resolve(token)" is "delivery-123",
\* tests/test_v9_6_0_scopes_unsubscribe_ui.py:115) with the manager of this process.
TokensResolve ==
  \A t \in Threads : held[t] # Absent => \A k \in signed : k = held[t]

=============================================================================
