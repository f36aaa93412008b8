------------------------ MODULE TaskRegistryProofs ------------------------
(***************************************************************************)
(* The task registry, for every number of clients, tasks and instants.     *)
(* ServedOnce rests on the lock (one completion between its SELECT and its *)
(* commit) and on what the rows are left as: a version that was served is  *)
(* never completable again.                                                *)
(***************************************************************************)
EXTENDS TaskRegistry, TLAPS

Completable == {"scheduled", "waiting_approval"}
Timed == {"update", "resume", "complete"}

LockHeld == \A c \in Callers : op[c].what = "complete" <=> lock = c

\* No version is served before it exists, and a completable row's version is unserved.
Fresh ==
    \A j \in Jobs :
        /\ \A v \in Versions : v > version[j] => served[j][v] = 0
        /\ row[j].status \in Completable => served[j][version[j]] = 0

\* What the lock's holder is about to serve is unserved.
Held ==
    \A c \in Callers : op[c].what = "complete" =>
        op[c].seen <= version[op[c].job] /\ served[op[c].job][op[c].seen] = 0

\* A time that is going to be written is a time.
OpsTimed == \A c \in Callers : op[c].what \in Timed => op[c].next # NoTime

IInv == TypeOK /\ LockHeld /\ Fresh /\ Held /\ ServedOnce /\ OpsTimed /\ RowConsistent
----------------------------------------------------------------------------
\* Every schedule has a next time.
LEMMA NextRunTimed ==
    ASSUME NEW s \in Schedules, NEW t \in Nat PROVE NextRun(s, t) \in Nat \ {0}
  <1> USE RegistryAssumption
  <1>1. CASE s.kind = "once"
    BY <1>1 DEF Schedules, NextRun
  <1>2. CASE s.kind = "interval"
    BY <1>2 DEF Schedules, NextRun
  <1>3. CASE s.kind = "cron"
    <2>1. s.value \in Nat \ {0}
      BY <1>3 DEF Schedules
    <2>2. PICK k \in Nat : k = t \div s.value
      BY <2>1
    <2>3. (k + 1) * s.value \in Nat \ {0}
      BY <2>1, <2>2
    <2> QED BY <1>3, <2>2, <2>3 DEF NextRun
  <1> QED BY <1>1, <1>2, <1>3 DEF Schedules

\* Missing and NoOp are no rows and no operations.
LEMMA Distinct == Missing.status \notin Statuses /\ NoOp.what \notin Timed /\ NoOp.what # "complete"
  BY DEF Missing, NoOp, Statuses, Timed
----------------------------------------------------------------------------
\* A SELECT changes the caller's note only.
LEMMA ReadKeeps ==
    ASSUME IInv, NEW c \in Callers, NEW j \in Jobs, NEW s \in Schedules, NEW n \in Nat,
           NEW w \in {"update", "pause", "resume", "complete", "delete"},
           Reads(c, w, j, s, n), w \in Timed => n # NoTime,
           IF w = "complete" THEN lock = NoCaller /\ lock' = c /\ row[j].status \in Completable
                             ELSE lock' = lock
    PROVE  IInv'
  <1> USE RegistryAssumption DEF IInv
  <1> DEFINE o == [what |-> w, job |-> j, schedule |-> s, next |-> n, seen |-> version[j]]
  <1>1. o \in Ops
    BY DEF Ops, TypeOK
  <1>2. /\ op \in [Callers -> Ops \cup {NoOp}]
        /\ op' = [op EXCEPT ![c] = o] /\ op[c] = NoOp
        /\ UNCHANGED <<now, row, event, version, served>>
    BY DEF Reads, TypeOK
  <1>9. overlapped' \in BOOLEAN
    BY DEF Reads
  <1>3. op'[c] = o /\ \A d \in Callers \ {c} : op'[d] = op[d]
    BY <1>2
  <1>4. TypeOK'
    BY <1>1, <1>2, <1>9 DEF TypeOK
  <1>5. LockHeld'
    BY <1>2, <1>3, Distinct DEF LockHeld, TypeOK
  <1>6. Fresh' /\ ServedOnce' /\ RowConsistent'
    BY <1>2 DEF Fresh, ServedOnce, RowConsistent
  <1>7. Held'
    BY <1>2, <1>3 DEF Held, Fresh, TypeOK, Versions
  <1>8. OpsTimed'
    BY <1>2, <1>3 DEF OpsTimed
  <1> QED BY <1>4, <1>5, <1>6, <1>7, <1>8
----------------------------------------------------------------------------
\* An operation that ends leaves the notes of the others, and no completion of its own.
LEMMA EndKeeps ==
    ASSUME IInv, NEW c \in Callers, op[c] \in Ops, op' = [op EXCEPT ![c] = NoOp],
           lock' = IF op[c].what = "complete" THEN NoCaller ELSE lock
    PROVE  /\ op' \in [Callers -> Ops \cup {NoOp}] /\ lock' \in Callers \cup {NoCaller}
           /\ LockHeld' /\ OpsTimed'
           /\ \A d \in Callers : op'[d] = op[d] \/ op'[d] = NoOp
           /\ \A d \in Callers : op'[d].what = "complete" =>
                 op'[d] = op[d] /\ d # c /\ op[c].what # "complete"
  <1> USE RegistryAssumption DEF IInv
  <1>1. op \in [Callers -> Ops \cup {NoOp}] /\ lock \in Callers \cup {NoCaller}
    BY DEF TypeOK
  <1>2. op'[c] = NoOp /\ \A d \in Callers \ {c} : op'[d] = op[d]
    BY <1>1
  <1>3. op' \in [Callers -> Ops \cup {NoOp}] /\ lock' \in Callers \cup {NoCaller}
    BY <1>1
  <1>4. LockHeld'
    BY <1>1, <1>2, Distinct DEF LockHeld
  <1>5. OpsTimed'
    BY <1>2, Distinct DEF OpsTimed
  <1>6. \A d \in Callers : op'[d].what = "complete" =>
           op'[d] = op[d] /\ d # c /\ op[c].what # "complete"
    BY <1>1, <1>2, Distinct DEF LockHeld
  <1> QED BY <1>2, <1>3, <1>4, <1>5, <1>6

\* An UPDATE that gives its row a time makes a new version of it, which nobody has served.
LEMMA ScheduleKeeps ==
    ASSUME IInv, NEW c \in Callers, op[c] \in Ops, op[c].what \in Timed, NEW r,
           Exists(op[c].job) => /\ r \in Rows
                                /\ r.status = "scheduled" => r.next # NoTime
                                /\ r.status = "completed" => r.next = NoTime,
           Schedule(c, r), NEW e \in {"updated", "resumed", "completed_by_user"}, Ends(c, e),
           served' = IF op[c].what = "complete" /\ Exists(op[c].job)
                     THEN [served EXCEPT ![op[c].job][op[c].seen] = @ + 1] ELSE served,
           lock' = IF op[c].what = "complete" THEN NoCaller ELSE lock
    PROVE  IInv'
  <1> USE RegistryAssumption DEF IInv
  <1> DEFINE j == op[c].job
             v == op[c].seen
  <1>1. j \in Jobs /\ v \in Versions
    BY DEF Ops
  <1>2. /\ now' = now /\ op' = [op EXCEPT ![c] = NoOp]
        /\ event' = [event EXCEPT ![j] = e]
    BY DEF Ends
  <1>3. /\ op' \in [Callers -> Ops \cup {NoOp}] /\ lock' \in Callers \cup {NoCaller}
        /\ LockHeld' /\ OpsTimed'
        /\ \A d \in Callers : op'[d] = op[d] \/ op'[d] = NoOp
        /\ \A d \in Callers : op'[d].what = "complete" =>
              op'[d] = op[d] /\ d # c /\ op[c].what # "complete"
    BY <1>2, EndKeeps
  <1>4. /\ row \in [Jobs -> Rows \cup {Missing}] /\ version \in [Jobs -> Versions]
        /\ served \in [Jobs -> [Versions -> Nat]]
        /\ now \in 1..(Horizon + 1)
        /\ event \in [Jobs -> {"none", "created", "updated", "paused", "resumed",
                               "completed_by_user", "deleted"}]
    BY DEF TypeOK
  <1>7. overlapped' = overlapped /\ overlapped \in BOOLEAN
    BY DEF Ends, TypeOK
  <1>5. CASE Exists(j)
    <2>1. row' = [row EXCEPT ![j] = r] /\ version' = [version EXCEPT ![j] = @ + 1]
          /\ version[j] < MaxVersions /\ r \in Rows
      BY <1>5 DEF Schedule
    <2>2. version' \in [Jobs -> Versions]
      BY <1>1, <1>4, <2>1, SMTT(60) DEF Versions
    <2>3. row' \in [Jobs -> Rows \cup {Missing}]
      BY <1>1, <1>4, <2>1
    <2>4. RowConsistent'
      BY <1>1, <1>4, <1>5, <2>1 DEF RowConsistent
    <2>5. CASE op[c].what = "complete"
      <3>1. served' = [served EXCEPT ![j][v] = @ + 1]
        BY <1>5, <2>5
      <3>2. v <= version[j] /\ served[j][v] = 0
        BY <2>5 DEF Held
      <3>3. served' \in [Jobs -> [Versions -> Nat]] /\ served'[j][v] = 1
        BY <1>1, <1>4, <3>1, <3>2
      <3>4. \A k \in Jobs, w \in Versions : k # j \/ w # v => served'[k][w] = served[k][w]
        BY <1>1, <1>4, <3>1
      <3>5. ServedOnce'
        BY <1>1, <3>3, <3>4 DEF ServedOnce
      <3>6. \A w \in Versions : w > version'[j] => served'[j][w] = 0
        <4> SUFFICES ASSUME NEW w \in Versions, w > version'[j] PROVE served'[j][w] = 0
          OBVIOUS
        <4>1. version'[j] = version[j] + 1 /\ version[j] \in Nat /\ w \in Nat /\ v \in Nat
          BY <1>1, <1>4, <2>1, RegistryAssumption DEF Versions
        <4>2. w > version[j] /\ w # v
          BY <3>2, <4>1
        <4>3. served'[j][w] = served[j][w]
          BY <1>1, <3>4, <4>2
        <4>4. served[j][w] = 0
          BY <1>1, <4>2 DEF Fresh
        <4> QED BY <4>3, <4>4
      <3>7. served'[j][version'[j]] = 0
        BY <1>1, <1>4, <2>1, <2>2, <3>2, <3>4, SMTT(60) DEF Fresh, Versions
      <3>8. \A k \in Jobs \ {j} : version'[k] = version[k] /\ row'[k] = row[k]
        BY <1>4, <2>1
      <3>9. Fresh'
        BY <1>4, <3>4, <3>6, <3>7, <3>8, SMTT(60) DEF Fresh
      <3>10. Held'
        BY <1>3, <2>5 DEF Held
      <3> QED BY <1>1, <1>2, <1>3, <1>4, <1>7, <2>2, <2>3, <2>4, <3>3, <3>5, <3>9, <3>10 DEF TypeOK
    <2>6. CASE op[c].what # "complete"
      <3>1. served' = served
        BY <2>6
      <3>2. version'[j] \in Versions /\ version'[j] = version[j] + 1
        BY <1>1, <1>4, <2>1, <2>2
      <3>5. \A w \in Versions : w > version'[j] => served'[j][w] = 0
        <4>1. \A w \in Versions : w > version[j] => served[j][w] = 0
          BY <1>1 DEF Fresh
        <4>2. \A w \in Versions : w > version[j] + 1 => w > version[j]
          BY <1>1, <1>4 DEF Versions
        <4> QED BY <3>1, <3>2, <4>1, <4>2
      <3>9. served'[j][version'[j]] = 0
        <4>1. \A w \in Versions : w > version[j] => served[j][w] = 0
          BY <1>1 DEF Fresh
        <4>2. version[j] + 1 > version[j]
          BY <1>1, <1>4 DEF Versions
        <4> QED BY <3>1, <3>2, <4>1, <4>2
      <3>6. \A k \in Jobs \ {j} : version'[k] = version[k] /\ row'[k] = row[k]
        BY <1>4, <2>1
      <3>7. Fresh'
        <4> SUFFICES ASSUME NEW k \in Jobs
                     PROVE  /\ \A w \in Versions : w > version'[k] => served'[k][w] = 0
                            /\ row'[k].status \in Completable => served'[k][version'[k]] = 0
          BY DEF Fresh
        <4>1. CASE k = j
          BY <3>5, <3>9, <4>1
        <4>2. CASE k # j
          BY <3>1, <3>6, <4>2 DEF Fresh
        <4> QED BY <4>1, <4>2
      <3>8. \A k \in Jobs : version[k] <= version'[k] /\ version[k] \in Int /\ version'[k] \in Int
        <4> SUFFICES ASSUME NEW k \in Jobs
                     PROVE  version[k] <= version'[k] /\ version[k] \in Int /\ version'[k] \in Int
          OBVIOUS
        <4>1. version[k] \in Int
          BY <1>4 DEF Versions
        <4>2. version'[k] = version[k] \/ version'[k] = version[k] + 1
          BY <3>2, <3>6
        <4> QED BY <4>1, <4>2
      <3>3. \A d \in Callers : op[d].what = "complete" => op[d] \in Ops
        BY Distinct DEF TypeOK
      <3>4. Held'
        <4> SUFFICES ASSUME NEW d \in Callers, op'[d].what = "complete"
                     PROVE  /\ op'[d].seen <= version'[op'[d].job]
                            /\ served'[op'[d].job][op'[d].seen] = 0
          BY DEF Held
        <4>1. op'[d] = op[d] /\ op[d] \in Ops
          BY <1>3, <3>3
        <4>2. op[d].job \in Jobs /\ op[d].seen \in Versions
          BY <4>1 DEF Ops
        <4> QED BY <3>1, <3>8, <4>1, <4>2 DEF Held, Versions
      <3> QED BY <1>1, <1>2, <1>3, <1>4, <1>7, <2>2, <2>3, <2>4, <3>1, <3>7, <3>4 DEF TypeOK, ServedOnce
    <2> QED BY <2>5, <2>6
  <1>6. CASE ~Exists(j)
    <2>1. UNCHANGED <<row, version, served>>
      BY <1>6 DEF Schedule
    <2>2. Held'
      BY <1>3, <2>1 DEF Held
    <2> QED BY <1>1, <1>2, <1>3, <1>4, <1>7, <2>1, <2>2 DEF TypeOK, Fresh, ServedOnce, RowConsistent
  <1> QED BY <1>5, <1>6
----------------------------------------------------------------------------
\* Init establishes the invariant.
LEMMA InitHolds == Init => IInv
  <1> SUFFICES ASSUME Init PROVE IInv
    OBVIOUS
  <1> USE RegistryAssumption DEF Init
  <1>1. Waiting \in Rows
    BY DEF Waiting, Rows, Statuses, Schedules
  <1>6. overlapped \in BOOLEAN
    OBVIOUS
  <1>2. TypeOK
    BY <1>1, <1>6 DEF TypeOK, Versions, NoOp, Missing
  <1>3. LockHeld /\ Held /\ OpsTimed
    BY DEF LockHeld, Held, OpsTimed, NoOp, Timed
  <1>4. Fresh /\ ServedOnce
    BY DEF Fresh, ServedOnce, Versions
  <1>5. RowConsistent
    BY DEF RowConsistent, Waiting, Missing
  <1> QED BY <1>2, <1>3, <1>4, <1>5 DEF IInv
----------------------------------------------------------------------------
\* The operations that end without giving the row a time.
LEMMA PauseWritesKeeps == ASSUME IInv, NEW c \in Callers, PauseWrites(c) PROVE IInv'
  <1> USE RegistryAssumption DEF IInv, PauseWrites
  <1> DEFINE j == op[c].job
  <1>1. op[c] \in Ops /\ j \in Jobs
    BY DEF TypeOK, Ops, NoOp
  <1>2. /\ now' = now /\ overlapped' = overlapped /\ op' = [op EXCEPT ![c] = NoOp]
        /\ event' = [event EXCEPT ![j] = "paused"]
    BY DEF Ends
  <1>3. /\ op' \in [Callers -> Ops \cup {NoOp}] /\ lock' \in Callers \cup {NoCaller}
        /\ LockHeld' /\ OpsTimed'
        /\ \A d \in Callers : op'[d].what = "complete" =>
              op'[d] = op[d] /\ d # c /\ op[c].what # "complete"
    BY <1>1, <1>2, EndKeeps
  <1>4. /\ row' \in [Jobs -> Rows \cup {Missing}]
        /\ \A k \in Jobs : row'[k] = row[k] \/ row'[k].status = "paused"
    <2>1. row \in [Jobs -> Rows \cup {Missing}]
      BY DEF TypeOK
    <2>2. CASE Exists(j)
      <3>1. row' = [row EXCEPT ![j].status = "paused"] /\ row[j] \in Rows
        BY <1>1, <2>1, <2>2 DEF Exists
      <3>2. [row[j] EXCEPT !.status = "paused"] \in Rows
        BY <3>1 DEF Rows, Statuses
      <3>3. row' = [row EXCEPT ![j] = [row[j] EXCEPT !.status = "paused"]]
        BY <3>1
      <3>4. [row[j] EXCEPT !.status = "paused"].status = "paused"
        BY <3>1 DEF Rows
      <3> QED BY <1>1, <2>1, <3>2, <3>3, <3>4
    <2>3. CASE ~Exists(j)
      BY <2>1, <2>3
    <2> QED BY <2>2, <2>3
  <1>5. TypeOK'
    BY <1>1, <1>2, <1>3, <1>4 DEF TypeOK
  <1>6. Fresh' /\ ServedOnce' /\ RowConsistent'
    BY <1>4 DEF Fresh, ServedOnce, RowConsistent, Completable
  <1>7. Held'
    BY <1>3 DEF Held
  <1> QED BY <1>3, <1>5, <1>6, <1>7

LEMMA DeleteWritesKeeps == ASSUME IInv, NEW c \in Callers, DeleteWrites(c) PROVE IInv'
  <1> USE RegistryAssumption DEF IInv, DeleteWrites
  <1>1. op[c] \in Ops /\ op[c].job \in Jobs
    BY DEF TypeOK, Ops, NoOp
  <1>2. /\ now' = now /\ overlapped' = overlapped /\ op' = [op EXCEPT ![c] = NoOp]
        /\ event' = [event EXCEPT ![op[c].job] = "deleted"]
    BY DEF Ends
  <1>3. /\ op' \in [Callers -> Ops \cup {NoOp}] /\ lock' \in Callers \cup {NoCaller}
        /\ LockHeld' /\ OpsTimed'
        /\ \A d \in Callers : op'[d].what = "complete" =>
              op'[d] = op[d] /\ d # c /\ op[c].what # "complete"
    BY <1>1, <1>2, EndKeeps
  <1>4. /\ row' \in [Jobs -> Rows \cup {Missing}]
        /\ \A k \in Jobs : row'[k] = row[k] \/ row'[k].status = "missing"
    BY <1>1 DEF TypeOK, Missing
  <1>5. TypeOK'
    BY <1>1, <1>2, <1>3, <1>4 DEF TypeOK
  <1>6. Fresh' /\ ServedOnce' /\ RowConsistent'
    BY <1>4 DEF Fresh, ServedOnce, RowConsistent, Completable
  <1>7. Held'
    BY <1>3 DEF Held
  <1> QED BY <1>3, <1>5, <1>6, <1>7

\* A new row is a version of its own.
LEMMA CreateKeeps ==
    ASSUME IInv, NEW c \in Callers, NEW j \in Jobs, NEW s \in Schedules, Create(c, j, s)
    PROVE  IInv'
  <1> USE RegistryAssumption DEF IInv, Create
  <1>1. now \in Nat
    BY DEF TypeOK
  <1>2. PICK n \in Nat \ {0} : n = NextRun(s, now)
    BY <1>1, NextRunTimed
  <1> DEFINE r == [status |-> "scheduled", next |-> n, schedule |-> s]
  <1>3. r \in Rows
    BY DEF Rows, Statuses
  <1>4. /\ row' = [row EXCEPT ![j] = r] /\ version' = [version EXCEPT ![j] = @ + 1]
        /\ version[j] < MaxVersions /\ event' = [event EXCEPT ![j] = "created"]
        /\ UNCHANGED <<now, served, op, lock, overlapped>>
    BY <1>2
  <1>5. /\ row \in [Jobs -> Rows \cup {Missing}] /\ version \in [Jobs -> Versions]
        /\ served \in [Jobs -> [Versions -> Nat]]
    BY DEF TypeOK
  <1>6. version' \in [Jobs -> Versions] /\ version'[j] = version[j] + 1
    BY <1>4, <1>5 DEF Versions
  <1>7. row' \in [Jobs -> Rows \cup {Missing}] /\ row'[j] = r
    BY <1>3, <1>4, <1>5
  <1>8. TypeOK'
    BY <1>4, <1>6, <1>7 DEF TypeOK
  <1>9. LockHeld' /\ ServedOnce' /\ OpsTimed'
    BY <1>4 DEF LockHeld, ServedOnce, OpsTimed
  <1>10. \A k \in Jobs \ {j} : version'[k] = version[k] /\ row'[k] = row[k]
    BY <1>4, <1>5
  <1>11. RowConsistent'
    BY <1>2, <1>7, <1>10 DEF RowConsistent, NoTime
  <1>12. \A w \in Versions : w > version[j] => served[j][w] = 0
    BY DEF Fresh
  <1>13. \A w \in Versions : w >= version'[j] => w > version[j]
    BY <1>5, <1>6 DEF Versions
  <1>14. \A w \in Versions : w >= version'[j] => served'[j][w] = 0
    BY <1>4, <1>12, <1>13
  <1>15. version'[j] >= version'[j] /\ \A w \in Versions : w > version'[j] => w >= version'[j]
    BY <1>6 DEF Versions
  <1>16. Fresh'
    <2> SUFFICES ASSUME NEW k \in Jobs
                 PROVE  /\ \A w \in Versions : w > version'[k] => served'[k][w] = 0
                        /\ row'[k].status \in Completable => served'[k][version'[k]] = 0
      BY DEF Fresh
    <2>1. CASE k = j
      BY <1>6, <1>14, <1>15, <2>1
    <2>2. CASE k # j
      BY <1>4, <1>10, <2>2 DEF Fresh
    <2> QED BY <2>1, <2>2
  <1>17. Held'
    <2> SUFFICES ASSUME NEW d \in Callers, op[d].what = "complete"
                 PROVE  /\ op[d].seen <= version'[op[d].job]
                        /\ served[op[d].job][op[d].seen] = 0
      BY <1>4 DEF Held
    <2>1. op[d] \in Ops
      BY Distinct DEF TypeOK
    <2>2. op[d].job \in Jobs /\ op[d].seen \in Versions
      BY <2>1 DEF Ops
    <2>3. op[d].seen <= version[op[d].job] /\ served[op[d].job][op[d].seen] = 0
      BY DEF Held
    <2>5. \A k \in Jobs : version[k] <= version'[k] /\ version[k] \in Int /\ version'[k] \in Int
      <3> SUFFICES ASSUME NEW k \in Jobs
                   PROVE  version[k] <= version'[k] /\ version[k] \in Int /\ version'[k] \in Int
        OBVIOUS
      <3>1. version[k] \in Int
        BY <1>5 DEF Versions
      <3>2. version'[k] = version[k] \/ version'[k] = version[k] + 1
        BY <1>6, <1>10
      <3> QED BY <3>1, <3>2
    <2>4. version[op[d].job] <= version'[op[d].job] /\ version[op[d].job] \in Int
          /\ version'[op[d].job] \in Int
      BY <2>2, <2>5
    <2> QED BY <2>2, <2>3, <2>4 DEF Versions
  <1> QED BY <1>8, <1>9, <1>11, <1>16, <1>17
----------------------------------------------------------------------------
\* Every step keeps the invariant.
LEMMA StepHolds == IInv /\ [Next]_vars => IInv'
  <1> SUFFICES ASSUME IInv, [Next]_vars PROVE IInv'
    OBVIOUS
  <1> USE RegistryAssumption
  <1>0. now \in Nat /\ row \in [Jobs -> Rows \cup {Missing}]
        /\ \A c \in Callers : op[c] \in Ops \cup {NoOp}
    BY DEF IInv, TypeOK
  <1>1. ASSUME NEW c \in Callers, NEW j \in Jobs, NEW s \in Schedules, Create(c, j, s) PROVE IInv'
    BY <1>1, CreateKeeps
  <1>2. ASSUME NEW c \in Callers, NEW j \in Jobs, UpdateReads(c, j) PROVE IInv'
    <2>1. PICK s \in Schedules : Reads(c, "update", j, s, NextRun(s, now)) /\ lock' = lock
      BY <1>2 DEF UpdateReads
    <2>2. PICK n \in Nat \ {0} : n = NextRun(s, now)
      BY <1>0, NextRunTimed
    <2>3. Reads(c, "update", j, s, n)
      BY <2>1, <2>2
    <2> QED BY <2>1, <2>3, ReadKeeps DEF NoTime
  <1>3. ASSUME NEW c \in Callers, NEW j \in Jobs, PauseReads(c, j) PROVE IInv'
    <2>1. PICK s : s = row[j].schedule
      OBVIOUS
    <2>2. Reads(c, "pause", j, s, NoTime) /\ lock' = lock
      BY <1>3, <2>1 DEF PauseReads
    <2>3. s \in Schedules
      BY <1>0, <2>1, <2>2 DEF Reads, Exists, Rows
    <2> QED BY <2>2, <2>3, ReadKeeps DEF NoTime, Timed
  <1>4. ASSUME NEW c \in Callers, NEW j \in Jobs, ResumeReads(c, j) PROVE IInv'
    <2>1. PICK s : s = row[j].schedule
      OBVIOUS
    <2>2. Reads(c, "resume", j, s, NextRun(s, now)) /\ lock' = lock
      BY <1>4, <2>1 DEF ResumeReads
    <2>3. s \in Schedules
      BY <1>0, <2>1, <2>2 DEF Reads, Exists, Rows
    <2>4. PICK n \in Nat \ {0} : n = NextRun(s, now)
      BY <1>0, <2>3, NextRunTimed
    <2>5. Reads(c, "resume", j, s, n)
      BY <2>2, <2>4
    <2> QED BY <2>2, <2>3, <2>5, ReadKeeps DEF NoTime
  <1>5. ASSUME NEW c \in Callers, NEW j \in Jobs, CompleteReads(c, j) PROVE IInv'
    <2>1. PICK s : s = row[j].schedule
      OBVIOUS
    <2>2. /\ Reads(c, "complete", j, s, NextRun(s, now)) /\ lock = NoCaller /\ lock' = c
          /\ row[j].status \in Completable
      BY <1>5, <2>1 DEF CompleteReads, Completable
    <2>3. s \in Schedules
      BY <1>0, <2>1, <2>2 DEF Reads, Exists, Rows
    <2>4. PICK n \in Nat \ {0} : n = NextRun(s, now)
      BY <1>0, <2>3, NextRunTimed
    <2>5. Reads(c, "complete", j, s, n)
      BY <2>2, <2>4
    <2> QED BY <2>2, <2>3, <2>5, ReadKeeps DEF NoTime
  <1>6. ASSUME NEW c \in Callers, NEW j \in Jobs, DeleteReads(c, j) PROVE IInv'
    <2>1. PICK s : s = row[j].schedule
      OBVIOUS
    <2>2. Reads(c, "delete", j, s, NoTime) /\ lock' = lock
      BY <1>6, <2>1 DEF DeleteReads
    <2>3. s \in Schedules
      BY <1>0, <2>1, <2>2 DEF Reads, Exists, Rows
    <2> QED BY <2>2, <2>3, ReadKeeps DEF NoTime, Timed
  <1>7. ASSUME NEW c \in Callers, UpdateWrites(c) PROVE IInv'
    <2>1. op[c] \in Ops /\ op[c].what = "update"
      BY <1>0, <1>7 DEF UpdateWrites, NoOp
    <2>2. PICK r : r = [status |-> "scheduled", next |-> op[c].next, schedule |-> op[c].schedule]
      OBVIOUS
    <2>3. r \in Rows /\ r.status = "scheduled" /\ r.next # NoTime
      BY <2>1, <2>2 DEF Ops, Rows, Statuses, IInv, OpsTimed, Timed
    <2>4. Schedule(c, r) /\ Ends(c, "updated") /\ served' = served /\ lock' = lock
      BY <1>7, <2>2 DEF UpdateWrites
    <2> QED BY <2>1, <2>3, <2>4, ScheduleKeeps DEF Timed
  <1>8. ASSUME NEW c \in Callers, ResumeWrites(c) PROVE IInv'
    <2>1. op[c] \in Ops /\ op[c].what = "resume"
      BY <1>0, <1>8 DEF ResumeWrites, NoOp
    <2>2. PICK r : r = [row[op[c].job] EXCEPT !.status = "scheduled", !.next = op[c].next]
      OBVIOUS
    <2>3. Exists(op[c].job) => r \in Rows /\ r.status = "scheduled" /\ r.next # NoTime
      <3> SUFFICES ASSUME Exists(op[c].job) PROVE r \in Rows /\ r.status = "scheduled" /\ r.next # NoTime
        OBVIOUS
      <3>1. row[op[c].job] \in Rows /\ op[c].next \in Nat
        BY <1>0, <2>1 DEF Ops, Exists
      <3>2. op[c].next # NoTime
        BY <2>1 DEF IInv, OpsTimed, Timed
      <3> QED BY <2>2, <3>1, <3>2 DEF Rows, Statuses
    <2>4. Schedule(c, r) /\ Ends(c, "resumed") /\ served' = served /\ lock' = lock
      BY <1>8, <2>2 DEF ResumeWrites
    <2> QED BY <2>1, <2>3, <2>4, ScheduleKeeps DEF Timed
  <1>9. ASSUME NEW c \in Callers, CompleteWrites(c) PROVE IInv'
    <2>1. op[c] \in Ops /\ op[c].what = "complete"
      BY <1>0, <1>9 DEF CompleteWrites, NoOp
    <2>2. PICK r : r = Advanced(row[op[c].job], op[c])
      OBVIOUS
    <2>3. Exists(op[c].job) => /\ r \in Rows
                               /\ r.status = "scheduled" => r.next # NoTime
                               /\ r.status = "completed" => r.next = NoTime
      <3> SUFFICES ASSUME Exists(op[c].job)
                   PROVE  /\ r \in Rows
                          /\ r.status = "scheduled" => r.next # NoTime
                          /\ r.status = "completed" => r.next = NoTime
        OBVIOUS
      <3>1. row[op[c].job] \in Rows /\ op[c].next \in Nat
        BY <1>0, <2>1 DEF Ops, Exists
      <3>2. op[c].next # NoTime
        BY <2>1 DEF IInv, OpsTimed, Timed
      <3> QED BY <2>2, <3>1, <3>2 DEF Advanced, Rows, Statuses, NoTime
    <2>4. /\ Schedule(c, r) /\ Ends(c, "completed_by_user") /\ lock' = NoCaller
          /\ served' = IF Exists(op[c].job)
                       THEN [served EXCEPT ![op[c].job][op[c].seen] = @ + 1] ELSE served
      BY <1>9, <2>2 DEF CompleteWrites
    <2> QED BY <2>1, <2>3, <2>4, ScheduleKeeps DEF Timed
  <1>10. CASE Restart
    BY <1>10, Distinct DEF Restart, IInv, TypeOK, LockHeld, Fresh, Held, ServedOnce, OpsTimed, RowConsistent
  <1>11. CASE Tick \/ UNCHANGED vars
    BY <1>11 DEF Tick, vars, IInv, TypeOK, LockHeld, Fresh, Held, ServedOnce, OpsTimed, RowConsistent
  <1> QED BY <1>1, <1>2, <1>3, <1>4, <1>5, <1>6, <1>7, <1>8, <1>9, <1>10, <1>11,
             PauseWritesKeeps, DeleteWritesKeeps DEF Next, Step
----------------------------------------------------------------------------
\* The inductive invariant.
THEOREM Invariance == Spec => []IInv
  <1> QED BY InitHolds, StepHolds, PTL DEF Spec

\* The registry's rows, notes and lock are what they should be, for every client and task.
THEOREM TypeCorrect == Spec => []TypeOK
  <1>1. IInv => TypeOK
    BY DEF IInv
  <1> QED BY <1>1, Invariance, PTL

\* No due time is served twice, whatever edits, deletions and restarts interleave.
THEOREM ServedAtMostOnce == Spec => []ServedOnce
  <1>1. IInv => ServedOnce
    BY DEF IInv
  <1> QED BY <1>1, Invariance, PTL

\* A scheduled row has a time and a completed one has none, whichever writer came last.
THEOREM Consistent == Spec => []RowConsistent
  <1>1. IInv => RowConsistent
    BY DEF IInv
  <1> QED BY <1>1, Invariance, PTL

\* What was deleted stays deleted.
THEOREM DeletedForGood == Spec => NoResurrection
  <1>1. IInv /\ [Next]_vars =>
          [\A j \in Jobs : event[j] # "none" /\ ~Exists(j) => row'[j] = Missing]_vars
    <2> SUFFICES ASSUME IInv, Next, NEW j \in Jobs, event[j] # "none", ~Exists(j)
                 PROVE  row'[j] = Missing
      BY DEF vars
    <2>1. row \in [Jobs -> Rows \cup {Missing}] /\ row[j] = Missing
      BY DEF IInv, TypeOK, Exists
    <2>2. ASSUME NEW c \in Callers, Step(c) PROVE row'[j] = Missing
      <3>1. ASSUME NEW k \in Jobs, NEW s \in Schedules, Create(c, k, s) PROVE row'[j] = Missing
        BY <2>1, <3>1 DEF Create
      <3>2. ASSUME NEW r, Schedule(c, r) PROVE row'[j] = Missing
        BY <2>1, <3>2 DEF Schedule, Exists
      <3>3. UpdateWrites(c) \/ ResumeWrites(c) \/ CompleteWrites(c) => row'[j] = Missing
        BY <2>1 DEF UpdateWrites, ResumeWrites, CompleteWrites, Schedule, Exists
      <3>4. PauseWrites(c) \/ DeleteWrites(c) => row'[j] = Missing
        BY <2>1 DEF PauseWrites, DeleteWrites, Exists
      <3>5. ASSUME NEW k \in Jobs, UpdateReads(c, k) \/ PauseReads(c, k) \/ ResumeReads(c, k)
                                    \/ CompleteReads(c, k) \/ DeleteReads(c, k)
            PROVE  row'[j] = Missing
        BY <2>1, <3>5 DEF UpdateReads, PauseReads, ResumeReads, CompleteReads, DeleteReads, Reads
      <3> QED BY <2>2, <3>1, <3>3, <3>4, <3>5 DEF Step
    <2>3. Restart \/ Tick => row'[j] = Missing
      BY <2>1 DEF Restart, Tick
    <2> QED BY <2>2, <2>3 DEF Next
  <1> QED BY <1>1, Invariance, PTL DEF Spec, NoResurrection
----------------------------------------------------------------------------
(* While no two calls overlap.  A call that has read its row is then the only one, so the row is  *)
(* still what it read; what it writes is written over that.                                        *)

\* What row and latest event say of a task, as KeepsSchedule and HistoryTellsStatus put it; a row
\* that still waits for an approval is a recurring one.
Tells(r, e, t) ==
    /\ r # Missing =>
          IF r.schedule.kind = "once"
          THEN /\ r.status = "scheduled" => r.next = r.schedule.value
               /\ r.status = "completed" => r.schedule.value <= t
               /\ r.status # "waiting_approval"
          ELSE r.status # "completed"
    /\ r.status = CASE e = "none"    -> IF r # Missing THEN "waiting_approval" ELSE "missing"
                    [] e = "paused"  -> "paused"
                    [] e = "deleted" -> "missing"
                    [] e = "completed_by_user" ->
                          IF r.schedule.kind = "once" THEN "completed" ELSE "scheduled"
                    [] OTHER -> "scheduled"

\* A note fits the row it was made of.
NoteFits(o) ==
    LET r == row[o.job] IN
    /\ r # Missing
    /\ o.what # "delete" => r.status # "completed"
    /\ o.what \in {"update", "resume"} /\ o.schedule.kind = "once" => o.next = o.schedule.value
    /\ o.what \in {"resume", "complete"} => o.schedule = r.schedule
    /\ o.what = "complete" /\ r.schedule.kind = "once" => r.schedule.value <= now

Orderly ==
    ~overlapped =>
        /\ \A c, d \in Callers : op[c] # NoOp /\ op[d] # NoOp => c = d
        /\ \A c \in Callers : op[c] # NoOp => NoteFits(op[c])
        /\ \A j \in Jobs : Tells(row[j], event[j], now)

OrderlyInv == IInv /\ Orderly

\* A note is made: nobody else has one, if no call has overlapped.
LEMMA OrderlyReads ==
    ASSUME OrderlyInv, NEW c \in Callers, NEW j \in Jobs, NEW s, NEW n, NEW w, Reads(c, w, j, s, n),
           ~overlapped => NoteFits([what |-> w, job |-> j, schedule |-> s, next |-> n, seen |-> version[j]])
    PROVE  Orderly'
  <1> DEFINE o == [what |-> w, job |-> j, schedule |-> s, next |-> n, seen |-> version[j]]
  <1>1. /\ op \in [Callers -> Ops \cup {NoOp}] /\ op' = [op EXCEPT ![c] = o]
        /\ row' = row /\ now' = now /\ event' = event
        /\ overlapped' = (overlapped \/ \E d \in Callers : op[d] # NoOp)
    BY DEF OrderlyInv, IInv, TypeOK, Reads
  <1>2. op'[c] = o /\ \A d \in Callers \ {c} : op'[d] = op[d]
    BY <1>1
  <1> SUFFICES ASSUME ~overlapped' PROVE Orderly'
    BY DEF Orderly
  <1>3. ~overlapped /\ \A d \in Callers : op[d] = NoOp
    BY <1>1
  <1>4. \A d \in Callers : op'[d] # NoOp => d = c
    BY <1>2, <1>3
  <1>5. NoteFits(o)
    BY <1>3
  <1>6. row'[o.job] = row[o.job] /\ now' = now
    BY <1>1
  <1>7. \A d \in Callers : op'[d] # NoOp => NoteFits(op[d])' 
    BY <1>1, <1>2, <1>4, <1>5 DEF NoteFits
  <1>8. \A k \in Jobs : Tells(row[k], event[k], now)
    BY <1>3 DEF OrderlyInv, Orderly
  <1>9. (\A k \in Jobs : Tells(row[k], event[k], now))'
    BY <1>1, <1>8
  <1> QED BY <1>4, <1>7, <1>9 DEF Orderly

\* A note is written down: row and history event of its task change together.
LEMMA OrderlyWrites ==
    ASSUME OrderlyInv, NEW c \in Callers, op[c] # NoOp, NEW e, Ends(c, e),
           NEW r, ~overlapped => row' = [row EXCEPT ![op[c].job] = r] /\ Tells(r, e, now)
    PROVE  Orderly'
  <1>1. /\ op \in [Callers -> Ops \cup {NoOp}] /\ op' = [op EXCEPT ![c] = NoOp]
        /\ row \in [Jobs -> Rows \cup {Missing}] /\ DOMAIN event = Jobs
        /\ event' = [event EXCEPT ![op[c].job] = e] /\ now' = now /\ overlapped' = overlapped
    BY DEF OrderlyInv, IInv, TypeOK, Ends
  <1> SUFFICES ASSUME ~overlapped PROVE Orderly'
    BY <1>1 DEF Orderly
  <1>2. \A d \in Callers : op[d] # NoOp => d = c
    BY DEF OrderlyInv, Orderly
  <1>3. \A d \in Callers : op'[d] = NoOp
    BY <1>1, <1>2
  <1>4. \A k \in Jobs : Tells(row[k], event[k], now)
    BY DEF OrderlyInv, Orderly
  <1>5. \A k \in Jobs : Tells(row'[k], event'[k], now)
    <2> TAKE k \in Jobs
    <2>1. CASE k = op[c].job
      <3>1. row'[k] = r /\ event'[k] = e
        BY <1>1, <2>1
      <3> QED BY <3>1
    <2>2. CASE k # op[c].job
      <3>1. row'[k] = row[k] /\ event'[k] = event[k]
        BY <1>1, <2>2
      <3> QED BY <1>4, <3>1
    <2> QED BY <2>1, <2>2
  <1>6. (\A k \in Jobs : Tells(row[k], event[k], now))'
    BY <1>1, <1>5
  <1> QED BY <1>3, <1>6 DEF Orderly

\* What the caller of a write knows, if no call has overlapped.
LEMMA Known ==
    ASSUME OrderlyInv, NEW c \in Callers, op[c] # NoOp, ~overlapped
    PROVE  /\ op[c] \in Ops /\ op[c].job \in Jobs /\ row[op[c].job] \in Rows
           /\ Exists(op[c].job) /\ NoteFits(op[c]) /\ Tells(row[op[c].job], event[op[c].job], now)
  <1>1. op[c] \in Ops /\ row \in [Jobs -> Rows \cup {Missing}]
    BY DEF OrderlyInv, IInv, TypeOK
  <1>2. op[c].job \in Jobs
    BY <1>1 DEF Ops
  <1>3. NoteFits(op[c]) /\ Tells(row[op[c].job], event[op[c].job], now)
    BY <1>2 DEF OrderlyInv, Orderly
  <1>4. row[op[c].job] # Missing
    BY <1>3 DEF NoteFits
  <1> QED BY <1>1, <1>2, <1>3, <1>4 DEF Exists

\* A schedule's own time is its next time.
LEMMA NextRunOnce == ASSUME NEW s, NEW t, s.kind = "once" PROVE NextRun(s, t) = s.value
  BY DEF NextRun

LEMMA OrderlyStarts == Init => Orderly
  <1> SUFFICES ASSUME Init PROVE Orderly
    OBVIOUS
  <1>1. \A j \in Jobs : row[j] = Missing \/ row[j] = Waiting
    BY DEF Init
  <1>2. \A j \in Jobs : event[j] = "none"
    BY DEF Init
  <1>3. Tells(Missing, "none", now) /\ Tells(Waiting, "none", now)
    BY DEF Tells, Missing, Waiting
  <1>4. \A c \in Callers : op[c] = NoOp
    BY DEF Init
  <1>5. \A j \in Jobs : Tells(row[j], event[j], now)
    <2> TAKE j \in Jobs
    <2> QED BY <1>1, <1>2, <1>3
  <1> QED BY <1>4, <1>5 DEF Orderly

\* The reads of the five operations.
LEMMA OrderlyReadSteps ==
    ASSUME OrderlyInv, NEW c \in Callers, NEW j \in Jobs,
           UpdateReads(c, j) \/ PauseReads(c, j) \/ ResumeReads(c, j) \/ CompleteReads(c, j) \/ DeleteReads(c, j)
    PROVE  Orderly'
  <1>1. ~overlapped => Tells(row[j], event[j], now)
    BY DEF OrderlyInv, Orderly
  <1>2. CASE UpdateReads(c, j)
    <2>1. PICK s \in Schedules : row[j].status # "completed" /\ Reads(c, "update", j, s, NextRun(s, now))
      BY <1>2 DEF UpdateReads
    <2>2. NoteFits([what |-> "update", job |-> j, schedule |-> s, next |-> NextRun(s, now), seen |-> version[j]])
      BY <2>1, NextRunOnce DEF NoteFits, Reads, Exists
    <2> QED BY <2>1, <2>2, OrderlyReads
  <1>3. CASE PauseReads(c, j)
    <2>1. row[j].status # "completed" /\ Reads(c, "pause", j, row[j].schedule, NoTime)
      BY <1>3 DEF PauseReads
    <2>2. NoteFits([what |-> "pause", job |-> j, schedule |-> row[j].schedule, next |-> NoTime, seen |-> version[j]])
      BY <2>1 DEF NoteFits, Reads, Exists
    <2> QED BY <2>1, <2>2, OrderlyReads
  <1>4. CASE ResumeReads(c, j)
    <2>1. row[j].status # "completed" /\ Reads(c, "resume", j, row[j].schedule, NextRun(row[j].schedule, now))
      BY <1>4 DEF ResumeReads
    <2>2. NoteFits([what |-> "resume", job |-> j, schedule |-> row[j].schedule,
                    next |-> NextRun(row[j].schedule, now), seen |-> version[j]])
      BY <2>1, NextRunOnce DEF NoteFits, Reads, Exists
    <2> QED BY <2>1, <2>2, OrderlyReads
  <1>5. CASE CompleteReads(c, j)
    <2>1. /\ row[j].status \in {"scheduled", "waiting_approval"} /\ row[j].next <= now
          /\ Reads(c, "complete", j, row[j].schedule, NextRun(row[j].schedule, now))
      BY <1>5 DEF CompleteReads
    <2>2. row[j] # Missing
      BY <2>1 DEF Reads, Exists
    <2>3. ~overlapped /\ row[j].schedule.kind = "once" => row[j].schedule.value <= now
      BY <1>1, <2>1, <2>2 DEF Tells
    <2>4. ~overlapped => NoteFits([what |-> "complete", job |-> j, schedule |-> row[j].schedule,
                                   next |-> NextRun(row[j].schedule, now), seen |-> version[j]])
      BY <2>1, <2>2, <2>3 DEF NoteFits
    <2> QED BY <2>1, <2>4, OrderlyReads
  <1>6. CASE DeleteReads(c, j)
    <2>1. Reads(c, "delete", j, row[j].schedule, NoTime)
      BY <1>6 DEF DeleteReads
    <2>2. NoteFits([what |-> "delete", job |-> j, schedule |-> row[j].schedule, next |-> NoTime, seen |-> version[j]])
      BY <2>1 DEF NoteFits, Reads, Exists
    <2> QED BY <2>1, <2>2, OrderlyReads
  <1> QED BY <1>2, <1>3, <1>4, <1>5, <1>6

\* The writes of the five operations.
LEMMA OrderlyWriteSteps ==
    ASSUME OrderlyInv, NEW c \in Callers,
           UpdateWrites(c) \/ PauseWrites(c) \/ ResumeWrites(c) \/ CompleteWrites(c) \/ DeleteWrites(c)
    PROVE  Orderly'
  <1>0. op[c] # NoOp
    BY DEF UpdateWrites, PauseWrites, ResumeWrites, CompleteWrites, DeleteWrites, NoOp
  <1> DEFINE j == op[c].job
  <1>1. ~overlapped => /\ op[c] \in Ops /\ j \in Jobs /\ row[j] \in Rows /\ Exists(j) /\ NoteFits(op[c])
                       /\ Tells(row[j], event[j], now)
    BY <1>0, Known
  <1>2. CASE UpdateWrites(c)
    <2> DEFINE r == [status |-> "scheduled", next |-> op[c].next, schedule |-> op[c].schedule]
    <2>1. op[c].what = "update" /\ Schedule(c, r) /\ Ends(c, "updated")
      BY <1>2 DEF UpdateWrites
    <2>2. ~overlapped => row' = [row EXCEPT ![j] = r]
      BY <1>1, <2>1 DEF Schedule
    <2>3. ~overlapped => Tells(r, "updated", now)
      BY <1>1, <2>1 DEF Tells, NoteFits
    <2> QED BY <1>0, <2>1, <2>2, <2>3, OrderlyWrites
  <1>3. CASE PauseWrites(c)
    <2>1. op[c].what = "pause" /\ Ends(c, "paused") /\ row' = IF Exists(j) THEN [row EXCEPT ![j].status = "paused"] ELSE row
      BY <1>3 DEF PauseWrites
    <2>2. PICK r : r = [row[j] EXCEPT !.status = "paused"]
      OBVIOUS
    <2>3. ~overlapped => row' = [row EXCEPT ![j] = r]
      BY <1>1, <2>1, <2>2
    <2>4. ~overlapped => r.status = "paused"
      BY <1>1, <2>2 DEF Rows
    <2>5. ~overlapped => Tells(r, "paused", now)
      BY <1>1, <2>4 DEF Tells
    <2> QED BY <1>0, <2>1, <2>3, <2>5, OrderlyWrites
  <1>4. CASE ResumeWrites(c)
    <2>1. op[c].what = "resume" /\ Ends(c, "resumed")
      BY <1>4 DEF ResumeWrites
    <2>2. PICK r : r = [row[op[c].job] EXCEPT !.status = "scheduled", !.next = op[c].next]
      OBVIOUS
    <2>3. ~overlapped => row' = [row EXCEPT ![j] = r]
      BY <1>1, <1>4, <2>2 DEF ResumeWrites, Schedule
    <2>4. ~overlapped => r.status = "scheduled" /\ r.next = op[c].next /\ r.schedule = row[j].schedule
      BY <1>1, <2>2 DEF Rows
    <2>5. ~overlapped => Tells(r, "resumed", now)
      BY <1>1, <2>1, <2>4 DEF Tells, NoteFits
    <2> QED BY <1>0, <2>1, <2>3, <2>5, OrderlyWrites
  <1>5. CASE CompleteWrites(c)
    <2>1. op[c].what = "complete" /\ Ends(c, "completed_by_user")
      BY <1>5 DEF CompleteWrites
    <2>2. PICK r : r = Advanced(row[op[c].job], op[c])
      OBVIOUS
    <2>3. ~overlapped => row' = [row EXCEPT ![j] = r]
      BY <1>1, <1>5, <2>2 DEF CompleteWrites, Schedule
    <2>4. ~overlapped => /\ r.status = IF op[c].schedule.kind = "once" THEN "completed" ELSE "scheduled"
                         /\ r.schedule = row[j].schedule /\ op[c].schedule = row[j].schedule
      BY <1>1, <2>1, <2>2 DEF Rows, Advanced, NoteFits
    <2>5. ~overlapped => Tells(r, "completed_by_user", now)
      <3> SUFFICES ASSUME ~overlapped PROVE Tells(r, "completed_by_user", now)
        OBVIOUS
      <3>1. r.schedule.kind = "once" => r.schedule.value <= now
        BY <1>1, <2>1, <2>4 DEF NoteFits
      <3> QED BY <2>4, <3>1 DEF Tells
    <2> QED BY <1>0, <2>1, <2>3, <2>5, OrderlyWrites
  <1>6. CASE DeleteWrites(c)
    <2>1. Ends(c, "deleted") /\ row' = [row EXCEPT ![j] = Missing]
      BY <1>6 DEF DeleteWrites
    <2>2. Tells(Missing, "deleted", now)
      BY DEF Tells, Missing
    <2> QED BY <1>0, <2>1, <2>2, OrderlyWrites
  <1> QED BY <1>2, <1>3, <1>4, <1>5, <1>6

\* Every other step.
LEMMA OrderlyCreate ==
    ASSUME OrderlyInv, NEW c \in Callers, NEW j \in Jobs, NEW s \in Schedules, Create(c, j, s)
    PROVE  Orderly'
  <1> DEFINE r == [status |-> "scheduled", next |-> NextRun(s, now), schedule |-> s]
  <1>1. /\ row \in [Jobs -> Rows \cup {Missing}] /\ DOMAIN event = Jobs
        /\ row[j] = Missing /\ row' = [row EXCEPT ![j] = r] /\ event' = [event EXCEPT ![j] = "created"]
        /\ UNCHANGED <<now, op, overlapped>>
    BY DEF OrderlyInv, IInv, TypeOK, Create, Exists
  <1> SUFFICES ASSUME ~overlapped PROVE Orderly'
    BY <1>1 DEF Orderly
  <1>2. Tells(r, "created", now)
    BY NextRunOnce DEF Tells
  <1>3. \A k \in Jobs : Tells(row[k], event[k], now)
    BY DEF OrderlyInv, Orderly
  <1>4. \A k \in Jobs : Tells(row'[k], event'[k], now)
    <2> TAKE k \in Jobs
    <2>1. CASE k = j
      <3>1. row'[k] = r /\ event'[k] = "created"
        BY <1>1, <2>1
      <3> QED BY <1>2, <3>1
    <2>2. CASE k # j
      <3>1. row'[k] = row[k] /\ event'[k] = event[k]
        BY <1>1, <2>2
      <3> QED BY <1>3, <3>1
    <2> QED BY <2>1, <2>2
  <1>5. \A d \in Callers : op[d] # NoOp => op[d].job # j /\ row'[op[d].job] = row[op[d].job] /\ NoteFits(op[d])
    <2> SUFFICES ASSUME NEW d \in Callers, op[d] # NoOp
                 PROVE  op[d].job # j /\ row'[op[d].job] = row[op[d].job] /\ NoteFits(op[d])
      OBVIOUS
    <2>1. NoteFits(op[d]) /\ row[op[d].job] # Missing
      BY Known DEF Exists
    <2> QED BY <1>1, <2>1
  <1>6. (\A d \in Callers : op[d] # NoOp => NoteFits(op[d]))'
    BY <1>1, <1>5 DEF NoteFits
  <1>7. \A d, e \in Callers : op[d] # NoOp /\ op[e] # NoOp => d = e
    BY DEF OrderlyInv, Orderly
  <1>8. (\A k \in Jobs : Tells(row[k], event[k], now))'
    BY <1>1, <1>4
  <1> QED BY <1>1, <1>6, <1>7, <1>8 DEF Orderly

LEMMA OrderlyTick == ASSUME OrderlyInv, Tick PROVE Orderly'
  <1>1. /\ now \in Nat /\ row \in [Jobs -> Rows \cup {Missing}]
        /\ now' = now + 1 /\ UNCHANGED <<row, event, op, overlapped>>
    BY RegistryAssumption DEF OrderlyInv, IInv, TypeOK, Tick
  <1> SUFFICES ASSUME ~overlapped PROVE Orderly'
    BY <1>1 DEF Orderly
  <1>2. \A j \in Jobs : row[j] # Missing => row[j].schedule.value \in Nat
    <2> TAKE j \in Jobs
    <2>1. row[j] # Missing => row[j] \in Rows
      BY <1>1
    <2>2. \A s \in Schedules : s.value \in Nat
      BY RegistryAssumption DEF Schedules
    <2> QED BY <2>1, <2>2 DEF Rows
  <1>3. \A j \in Jobs : Tells(row[j], event[j], now + 1)
    <2> TAKE j \in Jobs
    <2>1. Tells(row[j], event[j], now)
      BY DEF OrderlyInv, Orderly
    <2>2. row[j] # Missing /\ row[j].schedule.value <= now => row[j].schedule.value <= now + 1
      BY <1>1, <1>2
    <2> QED BY <2>1, <2>2 DEF Tells
  <1>4. \A c \in Callers : op[c] # NoOp =>
           /\ NoteFits(op[c]) /\ row[op[c].job] # Missing /\ row[op[c].job].schedule.value \in Nat
    <2> SUFFICES ASSUME NEW c \in Callers, op[c] # NoOp
                 PROVE  NoteFits(op[c]) /\ row[op[c].job] # Missing /\ row[op[c].job].schedule.value \in Nat
      OBVIOUS
    <2> QED BY <1>2, Known DEF Exists
  <1>5. (\A c \in Callers : op[c] # NoOp => NoteFits(op[c]))'
    <2> SUFFICES ASSUME NEW c \in Callers, op[c] # NoOp PROVE NoteFits(op[c])'
      BY <1>1
    <2>1. row[op[c].job].schedule.value <= now => row[op[c].job].schedule.value <= now + 1
      BY <1>1, <1>4
    <2> QED BY <1>1, <1>4, <2>1 DEF NoteFits
  <1>6. \A d, e \in Callers : op[d] # NoOp /\ op[e] # NoOp => d = e
    BY DEF OrderlyInv, Orderly
  <1>7. (\A j \in Jobs : Tells(row[j], event[j], now))'
    BY <1>1, <1>3
  <1> QED BY <1>1, <1>5, <1>6, <1>7 DEF Orderly

LEMMA OrderlyHolds == OrderlyInv /\ [Next]_vars => Orderly'
  <1> SUFFICES ASSUME OrderlyInv, [Next]_vars PROVE Orderly'
    OBVIOUS
  <1>1. ASSUME NEW c \in Callers, Step(c) PROVE Orderly'
    <2>1. \/ \E j \in Jobs : \E s \in Schedules : Create(c, j, s)
          \/ \E j \in Jobs : UpdateReads(c, j) \/ PauseReads(c, j) \/ ResumeReads(c, j)
                             \/ CompleteReads(c, j) \/ DeleteReads(c, j)
          \/ UpdateWrites(c) \/ PauseWrites(c) \/ ResumeWrites(c) \/ CompleteWrites(c) \/ DeleteWrites(c)
      BY <1>1 DEF Step
    <2> QED BY <2>1, OrderlyCreate, OrderlyReadSteps, OrderlyWriteSteps
  <1>2. CASE Restart
    <2>1. /\ \A c \in Callers : op'[c] = NoOp
          /\ UNCHANGED <<now, row, event, overlapped>>
      BY <1>2 DEF Restart
    <2> QED BY <2>1 DEF OrderlyInv, Orderly
  <1>3. CASE UNCHANGED vars
    BY <1>3 DEF vars, OrderlyInv, Orderly, NoteFits
  <1> QED BY <1>1, <1>2, <1>3, OrderlyTick DEF Next

\* The stronger invariant.
THEOREM Orderliness == Spec => []OrderlyInv
  <1>1. Init => OrderlyInv
    BY InitHolds, OrderlyStarts DEF OrderlyInv
  <1>2. OrderlyInv /\ [Next]_vars => OrderlyInv'
    BY StepHolds, OrderlyHolds DEF OrderlyInv
  <1> QED BY <1>1, <1>2, PTL DEF Spec

LEMMA OrderlyTells == OrderlyInv => TypeOK /\ RowConsistent /\ KeepsSchedule /\ HistoryTellsStatus
  <1> SUFFICES ASSUME OrderlyInv PROVE TypeOK /\ RowConsistent /\ KeepsSchedule /\ HistoryTellsStatus
    OBVIOUS
  <1>1. TypeOK /\ RowConsistent
    BY DEF OrderlyInv, IInv
  <1>2. ~overlapped => \A j \in Jobs : Tells(row[j], event[j], now)
    BY DEF OrderlyInv, Orderly
  <1>3. KeepsSchedule
    BY <1>2 DEF KeepsSchedule, Tells, Exists
  <1>4. HistoryTellsStatus
    BY <1>2 DEF HistoryTellsStatus, Tells, Exists
  <1> QED BY <1>1, <1>3, <1>4

\* While no two calls overlap, no edit, pause or resume loses the time the client gave, and the
\* latest event of the history tells what the row is.
THEOREM ScheduleAndHistory == Spec => [](KeepsSchedule /\ HistoryTellsStatus)
  BY Orderliness, OrderlyTells, PTL

\* While no two calls overlap, a completed task is left as it is or deleted.
LEMMA CompletedStep ==
    OrderlyInv /\ [Next]_vars =>
      [~overlapped => \A j \in Jobs : row[j].status = "completed" => row'[j] \in {row[j], Missing}]_vars
  <1> SUFFICES ASSUME OrderlyInv, Next, ~overlapped, NEW j \in Jobs, row[j].status = "completed"
               PROVE  row'[j] \in {row[j], Missing}
    BY DEF vars
  <1>1. row \in [Jobs -> Rows \cup {Missing}] /\ row[j] # Missing
    BY DEF OrderlyInv, IInv, TypeOK, Missing
  <1>2. ASSUME NEW c \in Callers, Step(c) PROVE row'[j] \in {row[j], Missing}
    <2>1. ASSUME NEW k \in Jobs, NEW s \in Schedules, Create(c, k, s) PROVE row'[j] = row[j]
      BY <1>1, <2>1 DEF Create, Exists
    <2>2. ASSUME op[c] # NoOp, op[c].what # "delete" PROVE op[c].job # j
      BY <2>2, Known DEF NoteFits
    <2>3. UpdateWrites(c) \/ ResumeWrites(c) \/ CompleteWrites(c) => row'[j] = row[j]
      BY <1>1, <2>2 DEF UpdateWrites, ResumeWrites, CompleteWrites, Schedule, NoOp
    <2>4. PauseWrites(c) => row'[j] = row[j]
      BY <1>1, <2>2 DEF PauseWrites, NoOp
    <2>5. DeleteWrites(c) => row'[j] \in {row[j], Missing}
      BY <1>1 DEF DeleteWrites
    <2>6. ASSUME NEW k \in Jobs, UpdateReads(c, k) \/ PauseReads(c, k) \/ ResumeReads(c, k)
                                  \/ CompleteReads(c, k) \/ DeleteReads(c, k)
          PROVE  row'[j] = row[j]
      BY <2>6 DEF UpdateReads, PauseReads, ResumeReads, CompleteReads, DeleteReads, Reads
    <2> QED BY <1>2, <2>1, <2>3, <2>4, <2>5, <2>6 DEF Step
  <1>3. Restart \/ Tick => row'[j] = row[j]
    BY DEF Restart, Tick
  <1> QED BY <1>2, <1>3 DEF Next

THEOREM CompletedForGood == Spec => CompletedImmutable
  BY Orderliness, CompletedStep, PTL DEF Spec, CompletedImmutable
=============================================================================
