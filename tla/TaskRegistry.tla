---------------------------- MODULE TaskRegistry ----------------------------
(***************************************************************************)
(* The persistent task registry of scheduler_engine.py.  Nothing executes  *)
(* a task: clients create, reschedule, pause, resume, complete and delete  *)
(* rows, and a task is due when its next time has come.                    *)
(* Python's sqlite3 opens a transaction at the first statement that writes,*)
(* so each operation is two steps: a SELECT on its own, then one           *)
(* transaction with the UPDATE or DELETE and the history event computed    *)
(* from the row that was read.  Only complete_job holds the engine's lock  *)
(* around both.  A restart rolls back what was not committed.              *)
(* Times are instants; a schedule is an instant for "once" and a period    *)
(* for "interval" (from now) and "cron" (on the grid of the clock).        *)
(***************************************************************************)
EXTENDS Integers

CONSTANTS Callers,      \* worker threads of the MCP server and of the WebGUI
          Jobs,         \* job ids; uuid4 never repeats one
          Period,       \* the period of every recurring schedule
          Horizon,      \* bound: the last instant of the clock
          MaxVersions,  \* bound: how often one row is scheduled
          NoCaller      \* nobody holds the engine's lock

ASSUME RegistryAssumption ==
    /\ Period \in Nat \ {0} /\ Horizon \in Nat /\ MaxVersions \in Nat
    /\ NoCaller \notin Callers

VARIABLES now,          \* the wall clock; instant 0 stands for "no time"
          row,          \* the jobs table
          event,        \* the latest job_history event of each job
          version,      \* history: how often the row was given a next time
          served,       \* history: completions of each version of a row
          op,           \* what each caller has read and is about to write
          lock,         \* SchedulerEngine._lock, as complete_job takes it
          overlapped    \* history: one call has read while another was about to write

vars == <<now, row, event, version, served, op, lock, overlapped>>

NoTime == 0
Versions == 0..MaxVersions
Schedules == [kind : {"once"}, value : 1..Horizon] \cup [kind : {"interval", "cron"}, value : {Period}]
Statuses == {"scheduled", "waiting_approval", "paused", "completed"}
Rows == [status : Statuses, next : Nat, schedule : Schedules]
Missing == [status |-> "missing"]
Ops == [what : {"update", "pause", "resume", "complete", "delete"},
        job : Jobs, schedule : Schedules, next : Nat, seen : Versions]
NoOp == [what |-> "none"]

\* Type correctness.
TypeOK ==
    /\ now \in 1..(Horizon + 1)
    /\ row \in [Jobs -> Rows \cup {Missing}]
    /\ event \in [Jobs -> {"none", "created", "updated", "paused", "resumed",
                           "completed_by_user", "deleted"}]
    /\ version \in [Jobs -> Versions]
    /\ served \in [Jobs -> [Versions -> Nat]]
    /\ op \in [Callers -> Ops \cup {NoOp}]
    /\ lock \in Callers \cup {NoCaller}
    /\ overlapped \in BOOLEAN

\* A row kept from a version that still queued approvals; nothing writes that status today.
Waiting == [status |-> "waiting_approval", next |-> 1,
            schedule |-> [kind |-> "interval", value |-> Period]]

Init ==
    /\ now = 1
    /\ row \in [Jobs -> {Missing, Waiting}]
    /\ event = [j \in Jobs |-> "none"]
    /\ version = [j \in Jobs |-> 0]
    /\ served = [j \in Jobs |-> [v \in Versions |-> 0]]
    /\ op = [c \in Callers |-> NoOp]
    /\ lock = NoCaller
    /\ overlapped = FALSE
----------------------------------------------------------------------------
NextRun(s, t) == CASE s.kind = "once"     -> s.value
                   [] s.kind = "interval" -> t + s.value
                   [] s.kind = "cron"     -> ((t \div s.value) + 1) * s.value

Exists(j) == row[j] # Missing

\* A row the caller may still change, and the note of what it will write.
Reads(c, what, j, s, next) ==
    /\ op[c] = NoOp /\ Exists(j)
    /\ op' = [op EXCEPT ![c] = [what |-> what, job |-> j, schedule |-> s,
                                next |-> next, seen |-> version[j]]]
    /\ overlapped' = (overlapped \/ \E d \in Callers : op[d] # NoOp)
    /\ UNCHANGED <<now, row, event, version, served>>

\* The history event is inserted whether or not the UPDATE found its row.
Ends(c, e) ==
    /\ event' = [event EXCEPT ![op[c].job] = e]
    /\ op' = [op EXCEPT ![c] = NoOp]
    /\ UNCHANGED <<now, overlapped>>

\* UPDATE ... WHERE id=? that gives the row a next time.
Schedule(c, r) ==
    LET j == op[c].job IN
    IF Exists(j)
    THEN /\ version[j] < MaxVersions
         /\ row' = [row EXCEPT ![j] = r]
         /\ version' = [version EXCEPT ![j] = @ + 1]
    ELSE UNCHANGED <<row, version>>

\* create_job: the next time must lie ahead.
Create(c, j, s) ==
    /\ op[c] = NoOp /\ ~Exists(j) /\ event[j] = "none"
    /\ s.kind = "once" => s.value > now
    /\ version[j] < MaxVersions
    /\ row' = [row EXCEPT ![j] = [status |-> "scheduled", next |-> NextRun(s, now), schedule |-> s]]
    /\ event' = [event EXCEPT ![j] = "created"]
    /\ version' = [version EXCEPT ![j] = @ + 1]
    /\ UNCHANGED <<now, served, op, lock, overlapped>>
----------------------------------------------------------------------------
\* update_job: fields that are not given keep what was read, and any edit schedules the row anew.
UpdateReads(c, j) ==
    \E s \in Schedules :
        /\ row[j].status # "completed"
        /\ s.kind = "once" => s.value > now
        /\ Reads(c, "update", j, s, NextRun(s, now))
        /\ UNCHANGED lock

UpdateInserts(c) ==
    LET j == op[c].job IN
    /\ op[c].what = "update" /\ version[j] < MaxVersions
    /\ row' = [row EXCEPT ![j] = [status |-> "scheduled", next |-> op[c].next, schedule |-> op[c].schedule]]
    /\ version' = [version EXCEPT ![j] = @ + 1]
    /\ Ends(c, "updated")
    /\ UNCHANGED <<served, lock>>

UpdateKeepsNext(c) ==
    /\ op[c].what = "update"
    /\ Schedule(c, [row[op[c].job] EXCEPT !.status = "scheduled", !.schedule = op[c].schedule])
    /\ Ends(c, "updated")
    /\ UNCHANGED <<served, lock>>

UpdateWrites(c) ==
    /\ op[c].what = "update"
    /\ Schedule(c, [status |-> "scheduled", next |-> op[c].next, schedule |-> op[c].schedule])
    /\ Ends(c, "updated")
    /\ UNCHANGED <<served, lock>>

PauseReadsAny(c, j) ==
    /\ Reads(c, "pause", j, row[j].schedule, NoTime)
    /\ UNCHANGED lock

PauseReads(c, j) ==
    /\ row[j].status # "completed"
    /\ Reads(c, "pause", j, row[j].schedule, NoTime)
    /\ UNCHANGED lock

PauseWrites(c) ==
    LET j == op[c].job IN
    /\ op[c].what = "pause"
    /\ row' = IF Exists(j) THEN [row EXCEPT ![j].status = "paused"] ELSE row
    /\ Ends(c, "paused")
    /\ UNCHANGED <<version, served, lock>>

\* resume_job: a one-shot in the past cannot be resumed.
ResumeReads(c, j) ==
    /\ Exists(j) /\ row[j].status # "completed"
    /\ row[j].schedule.kind = "once" => row[j].schedule.value > now
    /\ Reads(c, "resume", j, row[j].schedule, NextRun(row[j].schedule, now))
    /\ UNCHANGED lock

ResumeKeepsStatus(c) ==
    /\ op[c].what = "resume"
    /\ Schedule(c, [row[op[c].job] EXCEPT !.next = op[c].next])
    /\ Ends(c, "resumed")
    /\ UNCHANGED <<served, lock>>

ResumeWrites(c) ==
    /\ op[c].what = "resume"
    /\ Schedule(c, [row[op[c].job] EXCEPT !.status = "scheduled", !.next = op[c].next])
    /\ Ends(c, "resumed")
    /\ UNCHANGED <<served, lock>>
----------------------------------------------------------------------------
\* The status and the next time a completion writes, from the row it read.
Advanced(r, o) ==
    IF o.schedule.kind = "once"
    THEN [r EXCEPT !.status = "completed", !.next = NoTime]
    ELSE [r EXCEPT !.status = "scheduled", !.next = o.next]

CompleteReadsUnlocked(c, j) ==
    /\ row[j].status \in {"scheduled", "waiting_approval"}
    /\ row[j].next <= now
    /\ Reads(c, "complete", j, row[j].schedule, NextRun(row[j].schedule, now))
    /\ lock' = c

\* complete_job takes the lock, and the task must be due.
CompleteReads(c, j) ==
    /\ lock = NoCaller
    /\ row[j].status \in {"scheduled", "waiting_approval"}
    /\ row[j].next <= now
    /\ Reads(c, "complete", j, row[j].schedule, NextRun(row[j].schedule, now))
    /\ lock' = c

CompleteWrites(c) ==
    LET j == op[c].job IN
    /\ op[c].what = "complete"
    /\ Schedule(c, Advanced(row[j], op[c]))
    /\ served' = IF Exists(j) THEN [served EXCEPT ![j][op[c].seen] = @ + 1] ELSE served
    /\ Ends(c, "completed_by_user")
    /\ lock' = NoCaller

DeleteReads(c, j) ==
    /\ Reads(c, "delete", j, row[j].schedule, NoTime)
    /\ UNCHANGED lock

DeleteWrites(c) ==
    /\ op[c].what = "delete"
    /\ row' = [row EXCEPT ![op[c].job] = Missing]
    /\ Ends(c, "deleted")
    /\ UNCHANGED <<version, served, lock>>

\* The process ends: what was read is lost, and nothing of it was committed.
Restart ==
    /\ op' = [c \in Callers |-> NoOp]
    /\ lock' = NoCaller
    /\ UNCHANGED <<now, row, event, version, served, overlapped>>

Tick ==
    /\ now <= Horizon
    /\ now' = now + 1
    /\ UNCHANGED <<row, event, version, served, op, lock, overlapped>>

Step(c) ==
    \/ \E j \in Jobs :
          \/ \E s \in Schedules : Create(c, j, s)
          \/ UpdateReads(c, j) \/ PauseReads(c, j) \/ ResumeReads(c, j)
          \/ CompleteReads(c, j) \/ DeleteReads(c, j)
    \/ UpdateWrites(c) \/ PauseWrites(c) \/ ResumeWrites(c)
    \/ CompleteWrites(c) \/ DeleteWrites(c)

Next == (\E c \in Callers : Step(c)) \/ Restart \/ Tick

Spec == Init /\ [][Next]_vars
----------------------------------------------------------------------------
\* Two completions never serve the same due time: a client that answers a task twice, or two
\* clients that saw the same due task, get it once, whatever edits interleave.  _lock is held
\* from the SELECT to the commit, and the row a completion leaves is not completable as it was.
ServedOnce == \A j \in Jobs, v \in Versions : served[j][v] <= 1

\* A row that is to come due has a time, or list_due_jobs would never show it, and a completed
\* one has none, whichever writer came last: each UPDATE writes status and time together, and
\* the one that writes the status alone writes neither of these two.
RowConsistent ==
    \A j \in Jobs : /\ row[j].status = "scheduled" => row[j].next # NoTime
                    /\ row[j].status = "completed" => row[j].next = NoTime

\* A deleted task stays deleted: an edit that read its row before brings nothing back.
NoResurrection ==
    [][\A j \in Jobs : event[j] # "none" /\ ~Exists(j) => row'[j] = Missing]_vars

\* As long as no two calls overlap, a completed task is never changed, except that it may be
\* deleted.
CompletedImmutable ==
    [][~overlapped =>
          \A j \in Jobs : row[j].status = "completed" => row'[j] \in {row[j], Missing}]_vars

\* As long as no two calls overlap, a one-shot task is scheduled for its own time and completed
\* after it, and a recurring one goes on until it is deleted: no edit, pause or resume loses the
\* time the client gave.
KeepsSchedule ==
    ~overlapped => \A j \in Jobs : Exists(j) =>
        IF row[j].schedule.kind = "once"
        THEN /\ row[j].status = "scheduled" => row[j].next = row[j].schedule.value
             /\ row[j].status = "completed" => row[j].schedule.value <= now
        ELSE row[j].status # "completed"

\* As long as no two calls overlap, the history's latest event and the row tell the same story.
HistoryTellsStatus ==
    ~overlapped => \A j \in Jobs : row[j].status =
        CASE event[j] = "none"    -> IF Exists(j) THEN "waiting_approval" ELSE "missing"
          [] event[j] = "paused"  -> "paused"
          [] event[j] = "deleted" -> "missing"
          [] event[j] = "completed_by_user" ->
                IF row[j].schedule.kind = "once" THEN "completed" ELSE "scheduled"
          [] OTHER -> "scheduled"
=============================================================================
