--------------------------- MODULE RuntimeControl ---------------------------
(***************************************************************************)
(* Version changes: the runtime control file the application writes        *)
(* (runtime_control.py, called by runtime_version_change_execute, by       *)
(* build_status and by the WebGUI) and the bootstrap of the container that *)
(* reads it, installs a release and switches the symlink to it             *)
(* (postmaster-mcp.yml).                                                   *)
(*                                                                         *)
(* write_control opens one temporary file for every writer, so the files   *)
(* are inodes under two names: truncating, writing and renaming are steps  *)
(* of their own.  A release is its number, 0 for none; selector 0 is       *)
(* "latest".  The one-time approval of a change is PendingApproval.        *)
(*                                                                         *)
(* scripts/start.sh (virtual environment, model) is one step that runs the *)
(* release or fails.                                                       *)
(***************************************************************************)
EXTENDS Integers, FiniteSets

CONSTANTS Writers,       \* application threads that change the version
          MaxVersion,    \* bound: releases published
          Loads          \* bound: what happens in one behaviour

\* what is assumed of the constants; the module that instantiates them asserts it
ConstantsAssumption ==
  /\ MaxVersion \in Nat \ {0} /\ IsFiniteSet(Writers)
  /\ \A d \in Loads :
       /\ d.writers \subseteq Writers
       /\ d.writes \in Nat /\ d.faults \in Nat /\ d.crashes \in Nat
       /\ d.check \in BOOLEAN /\ d.refresh \in BOOLEAN /\ d.startFails \in BOOLEAN

VARIABLES
  load,       \* threads that change the version; how many changes, failed lookups
              \* or downloads, and killed containers there are; the settings
              \* POSTMASTER_CHECK_UPDATES_ON_START and POSTMASTER_FORCE_REFRESH;
              \* whether scripts/start.sh may fail after the switch
  control,    \* inode of the control file, 0 when absent
  tmp,        \* inode of its temporary file, 0 when absent
  content,    \* what each inode holds
  writers,    \* write_control of each thread
  boot,       \* the bootstrap, or the application it started
  installed,  \* releases with a .postmaster-source-ready
  current,    \* target of the symlink, 0 when there is none
  running,    \* release that ran last, 0 before the first
  newest,     \* newest stable release published
  approved,   \* one-shot release of the last accepted change not started yet
  uncleared,  \* history: the one-shot release that the last bootstrap failed to clear, 0 for none
  writes, faults, crashes

files == <<control, tmp, content>>
disk == <<installed, current>>
bounds == <<load, writes, faults, crashes>>
vars == <<files, writers, boot, disk, running, newest, approved, uncleared, bounds>>

Versions == 1..MaxVersion
Releases == 0..MaxVersion
Inodes == 1..(Cardinality(Writers) + 2)

Payloads == [sel : Releases, once : Releases, check : BOOLEAN]

Latest == [sel |-> 0, once |-> 0, check |-> FALSE]

(* A file that is empty, or that two writers wrote over each other. *)
Unreadable == [sel |-> 0, once |-> 0, check |-> FALSE, bad |-> TRUE]

Readable(x) == "bad" \notin DOMAIN x

(* What the bootstrap and read_control make of the control file. *)
Control == IF control # 0 /\ Readable(content[control]) THEN content[control] ELSE Latest

IdleWriter == [pc |-> "idle", ino |-> 0, payload |-> Latest]

Booting == [pc |-> "read", sel |-> 0, once |-> 0, check |-> FALSE, ref |-> 0]

Init ==
  /\ load \in Loads
  /\ control = 0 /\ tmp = 0
  /\ content = [i \in Inodes |-> Unreadable]
  /\ writers = [w \in Writers |-> IdleWriter]
  /\ boot = Booting
  /\ installed = {} /\ current = 0 /\ running = 0
  /\ newest = 1 /\ approved = 0 /\ uncleared = 0
  /\ writes = 0 /\ faults = 0 /\ crashes = 0

Up == boot.pc = "up"

(***************************************************************************)
(* write_control                                                           *)
(***************************************************************************)

(* The states a caller asks for: the approved latest, an exact version, an *)
(* update check, or a restart of the running version under the selector    *)
(* read from the control file.                                             *)
Asked ==
  {[Latest EXCEPT !.once = v] : v \in 1..newest}
    \cup {[Latest EXCEPT !.sel = v] : v \in 1..newest}
    \cup {[Latest EXCEPT !.check = TRUE]}
    \cup {[Latest EXCEPT !.sel = Control.sel, !.once = running]}

Ask(w) ==
  /\ Up /\ writers[w].pc = "idle" /\ writes < load.writes
  /\ writes' = writes + 1
  /\ \E p \in Asked : writers' = [writers EXCEPT ![w] = [pc |-> "open", ino |-> 0, payload |-> p]]
  /\ UNCHANGED <<files, boot, disk, running, newest, approved, uncleared, load, faults, crashes>>

FreeInode == CHOOSE i \in Inodes : i \notin {control, tmp} \cup {writers[w].ino : w \in Writers}

(* A rename before the contents are written. *)
OpenReplaces(w) ==
  /\ writers[w].pc = "open"
  /\ LET i == IF tmp = 0 THEN FreeInode ELSE tmp IN
       /\ tmp' = i
       /\ writers' = [writers EXCEPT ![w].pc = "replace", ![w].ino = i]
  /\ UNCHANGED <<content, control, boot, disk, running, newest, approved, uncleared, bounds>>

(* open(tmp, "w") creates the temporary file or truncates the one there is. *)
Open(w) ==
  /\ writers[w].pc = "open"
  /\ LET i == IF tmp = 0 THEN FreeInode ELSE tmp IN
       /\ tmp' = i
       /\ content' = [content EXCEPT ![i] = Unreadable]
       /\ writers' = [writers EXCEPT ![w].pc = "write", ![w].ino = i]
  /\ UNCHANGED <<control, boot, disk, running, newest, approved, uncleared, bounds>>

(* The bytes go to the open file, whatever its name is by now; over longer *)
(* contents of another writer they leave a tail.                           *)
Write(w) ==
  /\ writers[w].pc = "write"
  /\ LET i == writers[w].ino IN
       \E x \in {writers[w].payload} \cup (IF Readable(content[i]) THEN {Unreadable} ELSE {}) :
         content' = [content EXCEPT ![i] = x]
  /\ writers' = [writers EXCEPT ![w].pc = "replace"]
  /\ UNCHANGED <<control, tmp, boot, disk, running, newest, approved, uncleared, bounds>>

(* os.replace renames whatever file has the temporary name. *)
Replace(w) ==
  /\ writers[w].pc = "replace" /\ tmp # 0
  /\ control' = tmp /\ tmp' = 0
  /\ approved' = writers[w].payload.once /\ uncleared' = 0
  /\ writers' = [writers EXCEPT ![w].pc = "restart"]
  /\ UNCHANGED <<content, boot, disk, running, newest, bounds>>

(* FileNotFoundError: the change is answered as rejected. *)
ReplaceFails(w) ==
  /\ writers[w].pc = "replace" /\ tmp = 0
  /\ writers' = [writers EXCEPT ![w] = IdleWriter]
  /\ UNCHANGED <<files, boot, disk, running, newest, approved, uncleared, bounds>>

(* SIGTERM after an accepted change; the container starts again. *)
Terminate(w) ==
  /\ Up /\ writers[w].pc = "restart"
  /\ writers' = [v \in Writers |-> IdleWriter]
  /\ boot' = Booting
  /\ UNCHANGED <<files, disk, running, newest, approved, uncleared, bounds>>

(* The container is restarted for another reason. *)
Stop ==
  /\ Up /\ crashes < load.crashes
  /\ crashes' = crashes + 1
  /\ writers' = [v \in Writers |-> IdleWriter]
  /\ boot' = Booting
  /\ UNCHANGED <<files, disk, running, newest, approved, uncleared, load, writes, faults>>

(***************************************************************************)
(* The bootstrap                                                           *)
(***************************************************************************)

Fault == faults < load.faults /\ faults' = faults + 1

CurrentUsable == current # 0 /\ current \in installed

ReadControl ==
  /\ boot.pc = "read"
  /\ boot' = [pc |-> "resolve", sel |-> Control.sel, once |-> Control.once,
              check |-> Control.check, ref |-> 0]
  /\ UNCHANGED <<files, writers, disk, running, newest, approved, uncleared, bounds>>

Fetches(ref) == boot' = [boot EXCEPT !.pc = "fetch", !.ref = ref]

(* exec of the cached release when the requested one cannot be had. *)
FallsBack == boot' = [boot EXCEPT !.pc = IF CurrentUsable THEN "start" ELSE "failed"]

(* The newest release is looked up. *)
MustLookUp ==
  /\ boot.once = 0 /\ boot.sel = 0
  /\ load.check \/ boot.check \/ ~CurrentUsable

Resolve ==
  /\ boot.pc = "resolve" /\ ~MustLookUp
  /\ Fetches(CASE boot.once # 0 -> boot.once
               [] boot.once = 0 /\ boot.sel # 0 -> boot.sel
               [] OTHER -> current)
  /\ UNCHANGED <<files, writers, disk, running, newest, approved, uncleared, bounds>>

LookUp ==
  /\ boot.pc = "resolve" /\ MustLookUp
  /\ Fetches(newest)
  /\ UNCHANGED <<files, writers, disk, running, newest, approved, uncleared, bounds>>

LookUpFails ==
  /\ boot.pc = "resolve" /\ MustLookUp
  /\ Fault
  /\ FallsBack
  /\ UNCHANGED <<files, writers, disk, running, newest, approved, uncleared, load, writes, crashes>>

Cached == boot.ref \in installed /\ ~load.refresh

UseCached ==
  /\ boot.pc = "fetch" /\ Cached
  /\ boot' = [boot EXCEPT !.pc = "unlink"]
  /\ UNCHANGED <<files, writers, disk, running, newest, approved, uncleared, bounds>>

(* The archive is unpacked into a staging directory. *)
Download ==
  /\ boot.pc = "fetch" /\ ~Cached
  /\ boot' = [boot EXCEPT !.pc = "remove"]
  /\ UNCHANGED <<files, writers, disk, running, newest, approved, uncleared, bounds>>

(* A download that replaces the release before it is complete. *)
DownloadFailsInPlace ==
  /\ boot.pc = "fetch" /\ ~Cached
  /\ Fault
  /\ installed' = installed \ {boot.ref}
  /\ boot' = [boot EXCEPT !.pc = IF current \in installed' THEN "start" ELSE "failed"]
  /\ UNCHANGED <<files, writers, current, running, newest, approved, uncleared, load, writes, crashes>>

DownloadFails ==
  /\ boot.pc = "fetch" /\ ~Cached
  /\ Fault
  /\ IF boot.ref \in installed THEN boot' = [boot EXCEPT !.pc = "unlink"] ELSE FallsBack
  /\ UNCHANGED <<files, writers, disk, running, newest, approved, uncleared, load, writes, crashes>>

(* rm -rf TARGET; mv STAGING TARGET *)
RemoveTarget ==
  /\ boot.pc = "remove"
  /\ installed' = installed \ {boot.ref}
  /\ boot' = [boot EXCEPT !.pc = "move"]
  /\ UNCHANGED <<files, writers, current, running, newest, approved, uncleared, bounds>>

MoveStaging ==
  /\ boot.pc = "move"
  /\ installed' = installed \cup {boot.ref}
  /\ boot' = [boot EXCEPT !.pc = "unlink"]
  /\ UNCHANGED <<files, writers, current, running, newest, approved, uncleared, bounds>>

(* rm -f CURRENT; ln -s TARGET CURRENT *)
Unlink ==
  /\ boot.pc = "unlink"
  /\ current' = 0
  /\ boot' = [boot EXCEPT !.pc = "link"]
  /\ UNCHANGED <<files, writers, installed, running, newest, approved, uncleared, bounds>>

(* The one-shot fields are cleared before the switch. *)
LinkClearsFirst ==
  /\ boot.pc = "link"
  /\ content' = IF control = 0 \/ Control = Latest THEN content
                ELSE [content EXCEPT ![control] = [Control EXCEPT !.once = 0, !.check = FALSE]]
  /\ boot' = [boot EXCEPT !.pc = "clear"]
  /\ current' = boot.ref
  /\ UNCHANGED <<control, tmp, writers, installed, running, newest, approved, uncleared, bounds>>

Link ==
  /\ boot.pc = "link"
  /\ current' = boot.ref
  /\ boot' = [boot EXCEPT !.pc = "clear"]
  /\ UNCHANGED <<files, writers, installed, running, newest, approved, uncleared, bounds>>

OneShot == boot.once # 0 \/ boot.check

(* Only check_updates_once is cleared. *)
ClearChecksOnly ==
  /\ boot.pc = "clear"
  /\ IF OneShot
       THEN /\ content' = [content EXCEPT ![control].check = FALSE]
            /\ tmp' = 0
       ELSE UNCHANGED <<content, tmp>>
  /\ boot' = [boot EXCEPT !.pc = "start"]
  /\ UNCHANGED <<control, writers, disk, running, newest, approved, uncleared, bounds>>

(* The one-shot fields are dropped, through the same temporary name. *)
Clear ==
  /\ boot.pc = "clear"
  /\ IF OneShot
       THEN /\ content' = [content EXCEPT ![control].once = 0, ![control].check = FALSE]
            /\ tmp' = 0 /\ uncleared' = 0
       ELSE UNCHANGED <<content, tmp, uncleared>>
  /\ boot' = [boot EXCEPT !.pc = "start"]
  /\ UNCHANGED <<control, writers, disk, running, newest, approved, bounds>>

(* The temporary file cannot be created, written or renamed: a warning, and *)
(* the release is started all the same.                                     *)
ClearFails ==
  /\ boot.pc = "clear" /\ OneShot
  /\ Fault
  /\ uncleared' = boot.once
  /\ \/ UNCHANGED <<content, tmp>>
     \/ LET i == IF tmp = 0 THEN FreeInode ELSE tmp IN
          /\ tmp' = i
          /\ \E x \in {Unreadable, [content[control] EXCEPT !.once = 0, !.check = FALSE]} :
               content' = [content EXCEPT ![i] = x]
  /\ boot' = [boot EXCEPT !.pc = "start"]
  /\ UNCHANGED <<control, writers, disk, running, newest, approved, load, writes, crashes>>

(* exec CURRENT/scripts/start.sh *)
Start ==
  /\ boot.pc = "start"
  /\ running' = current
  /\ approved' = IF approved = current THEN 0 ELSE approved
  /\ boot' = [Booting EXCEPT !.pc = "up"]
  /\ UNCHANGED <<files, writers, disk, newest, uncleared, bounds>>

(* exit 1: the restart policy starts the container again. *)
RetryBoot ==
  /\ boot.pc = "failed"
  /\ boot' = Booting
  /\ UNCHANGED <<files, writers, disk, running, newest, approved, uncleared, bounds>>

(* The container is killed, or scripts/start.sh fails after the switch. *)
Crash ==
  /\ boot.pc \notin {"read", "failed", "up"}
  /\ boot.pc = "start" => load.startFails
  /\ crashes < load.crashes
  /\ crashes' = crashes + 1
  /\ boot' = Booting
  /\ UNCHANGED <<files, writers, disk, running, newest, approved, uncleared, load, writes, faults>>

(* A release is published. *)
Publish ==
  /\ newest < MaxVersion
  /\ newest' = newest + 1
  /\ UNCHANGED <<files, writers, boot, disk, running, approved, uncleared, bounds>>

Next ==
  \/ \E w \in load.writers :
       Ask(w) \/ Open(w) \/ Write(w) \/ Replace(w) \/ ReplaceFails(w) \/ Terminate(w)
  \/ Stop \/ ReadControl \/ Resolve \/ LookUp \/ LookUpFails
  \/ UseCached \/ Download \/ DownloadFails \/ RemoveTarget \/ MoveStaging
  \/ Unlink \/ Link \/ Clear \/ ClearFails \/ Start \/ RetryBoot \/ Crash \/ Publish

Spec == Init /\ [][Next]_vars

(***************************************************************************)
(* Properties                                                              *)
(***************************************************************************)

(* Every variable has its type, and the control file and its temporary     *)
(* file are two files.                                                     *)
TypeOK ==
  /\ load \in Loads
  /\ control \in Inodes \cup {0} /\ tmp \in Inodes \cup {0}
  /\ control # 0 => control # tmp
  /\ content \in [Inodes -> Payloads \cup {Unreadable}]
  /\ \A w \in Writers : writers[w].payload \in Payloads /\ writers[w].ino \in Inodes \cup {0}
  /\ boot.ref \in Releases /\ boot.sel \in Releases /\ boot.once \in Releases
  /\ installed \subseteq Versions
  /\ current \in Releases /\ running \in Releases
  /\ approved \in Releases /\ uncleared \in Releases
  /\ newest \in Versions

Alone == Cardinality(load.writers) = 1

(* One writer: a change answered as accepted is the one the control file   *)
(* then holds, whole, whatever the temporary file held and wherever the    *)
(* container was killed before.                                            *)
InstalledAsAccepted ==
  [][\A w \in Writers :
       (Alone /\ writers[w].pc = "replace" /\ writers'[w].pc = "restart")
         => content'[control'] = writers[w].payload]_vars

(* One writer, a start script that works: the first start after an         *)
(* approved update runs the approved release, or the one that ran before   *)
(* when the approved one cannot be had: never a newer release published    *)
(* since, however often the container is killed on the way.                *)
FirstRestart ==
  [][(Alone /\ ~load.startFails /\ boot.pc # "up" /\ boot'.pc = "up" /\ approved # 0)
       => running' \in {approved, running}]_vars

(* One writer: a one-shot release is started once.  When it has been, the  *)
(* control file no longer names it, unless the bootstrap failed to clear   *)
(* that name; then the next one clears it, or the next change replaces it. *)
OneShotServedOnce ==
  (Alone /\ Up /\ \A w \in Writers : writers[w].pc = "idle") => Control.once \in {0, approved, uncleared}

(* No container killed: the bootstrap gives up only when no release has    *)
(* ever run.  A release that worked is started when no other can be had,   *)
(* whatever lookups, downloads and forced refreshes fail.                  *)
KeepsWorkingRelease == load.crashes = 0 /\ boot.pc = "failed" => running = 0

=============================================================================
