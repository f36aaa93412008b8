--------------------------- MODULE OutboundSafety ---------------------------
(***************************************************************************)
(* The persistent outbound ledger of outbound_safety.py: every send, reply *)
(* or follow-up reserves a row of outbound_operations before its callback  *)
(* (the SMTP backend) runs and settles the row afterwards.  One            *)
(* (account, action) partition of the table is modelled, since both        *)
(* lookups are scoped by the pair.  Callers are threads or processes; the  *)
(* two BEGIN IMMEDIATE transactions, _reserve and _finish, are atomic and  *)
(* everything between them interleaves.  The clock is read before the      *)
(* write lock is taken, so a caller may reserve with an old time stamp.    *)
(* The callback is opaque here; OutboundDelivery gives it its steps.       *)
(***************************************************************************)
EXTENDS Integers, Sequences

CONSTANTS Callers,     \* threads and processes that call execute
          Keys,        \* explicit idempotency keys
          NoKey,       \* the empty key
          Contents,    \* visible contents (duplicate_payload), fingerprinted
          Variants,    \* the rest of the payload, in the full hash only
          Asked,       \* the requests that callers make
          Window,      \* duplicate_window_seconds
          Horizon,     \* bound: the last instant of the clock
          MaxRows      \* bound: rows the table holds

Requests == [key : Keys \cup {NoKey}, content : Contents, variant : Variants, force : BOOLEAN]

ASSUME LedgerAssumption ==
    /\ NoKey \notin Keys
    /\ Asked # {} /\ Asked \subseteq Requests
    /\ Window \in Nat /\ Horizon \in Nat /\ MaxRows \in Nat

VARIABLES now,         \* the wall clock
          rows,        \* outbound_operations, in order of insertion
          pc,          \* where each caller is inside execute
          req,         \* the arguments of each caller's current or last call
          stamp,       \* the clock value the caller read on entry
          op,          \* the row the caller holds, or 0
          verdict,     \* the state the caller is about to write
          reply        \* what the caller's last finished call told it

callerVars == <<pc, req, stamp, op, verdict, reply>>
vars == <<now, rows, callerVars>>

Outcomes == {"sent", "failed", "delivery_uncertain"}
Rows == [key : Keys \cup {NoKey}, content : Contents, variant : Variants, force : BOOLEAN,
         state : {"in_progress"} \cup Outcomes, created : 0..Horizon]
Replies == [kind : {"none", "sent", "replay", "guard_replay", "error"}, op : 0..MaxRows]
NoReply == [kind |-> "none", op |-> 0]
Error == [kind |-> "error", op |-> 0]
AnyRequest == CHOOSE r \in Asked : TRUE

\* Type correctness of the ledger and of its callers.
TypeOK ==
    /\ now \in 0..Horizon
    /\ rows \in Seq(Rows) /\ Len(rows) <= MaxRows
    /\ pc \in [Callers -> {"idle", "reserving", "sending", "finishing"}]
    /\ req \in [Callers -> Asked]
    /\ stamp \in [Callers -> 0..now]
    /\ op \in [Callers -> 0..Len(rows)]
    /\ verdict \in [Callers -> Outcomes]
    /\ reply \in [Callers -> Replies]

Init ==
    /\ now = 0
    /\ rows = << >>
    /\ pc = [c \in Callers |-> "idle"]
    /\ req = [c \in Callers |-> AnyRequest]
    /\ stamp = [c \in Callers |-> 0]
    /\ op = [c \in Callers |-> 0]
    /\ verdict = [c \in Callers |-> "failed"]
    /\ reply = [c \in Callers |-> NoReply]

-----------------------------------------------------------------------------
(***************************************************************************)
(* What the two SELECTs of _reserve find.                                  *)
(***************************************************************************)

\* Slip: the key lookup only sees rows that are already settled.
KeyRowsSettledOnly(c) ==
    {i \in 1..Len(rows) : /\ req[c].key # NoKey /\ rows[i].key = req[c].key
                          /\ rows[i].state # "in_progress"}

KeyRows(c) == {i \in 1..Len(rows) : req[c].key # NoKey /\ rows[i].key = req[c].key}

\* Slip: the window is compared strictly, so its last instant is lost.
RecentStrict(c) ==
    {i \in 1..Len(rows) :
        /\ ~req[c].force /\ Window > 0
        /\ rows[i].content = req[c].content
        /\ rows[i].created > stamp[c] - Window
        /\ rows[i].state \in {"sent", "in_progress", "delivery_uncertain"}}

Recent(c) ==
    {i \in 1..Len(rows) :
        /\ ~req[c].force /\ Window > 0
        /\ rows[i].content = req[c].content
        /\ rows[i].created >= stamp[c] - Window
        /\ rows[i].state \in {"sent", "in_progress", "delivery_uncertain"}}

Newest(S) == {i \in S : \A j \in S : rows[j].created <= rows[i].created}

SamePayload(i, c) == rows[i].content = req[c].content /\ rows[i].variant = req[c].variant

-----------------------------------------------------------------------------
\* The call ends and tells its caller r.  Its locals are gone; what was asked
\* is remembered only next to an answer that names an operation.
Answer(c, r) ==
    /\ pc' = [pc EXCEPT ![c] = "idle"]
    /\ reply' = [reply EXCEPT ![c] = r]
    /\ req' = [req EXCEPT ![c] = IF r.op = 0 THEN AnyRequest ELSE @]
    /\ op' = [op EXCEPT ![c] = 0]
    /\ stamp' = [stamp EXCEPT ![c] = 0]
    /\ verdict' = [verdict EXCEPT ![c] = "failed"]

\* execute is entered: the payload is hashed and _reserve reads the clock.
Begin(c, r) ==
    /\ pc[c] = "idle"
    /\ pc' = [pc EXCEPT ![c] = "reserving"]
    /\ req' = [req EXCEPT ![c] = r]
    /\ stamp' = [stamp EXCEPT ![c] = now]
    /\ reply' = [reply EXCEPT ![c] = NoReply]
    /\ UNCHANGED <<now, rows, op, verdict>>

\* The call ends without a callback.
Decline(c, r) == Answer(c, r) /\ UNCHANGED <<now, rows>>

\* The explicit key exists.
ReserveKnownKey(c) ==
    /\ pc[c] = "reserving"
    /\ \E i \in KeyRows(c) :
          \/ ~SamePayload(i, c) /\ Decline(c, Error)
          \/ SamePayload(i, c) /\ rows[i].state = "sent" /\ Decline(c, [kind |-> "replay", op |-> i])
          \/ SamePayload(i, c) /\ rows[i].state # "sent" /\ Decline(c, Error)

\* No explicit key, or an unused one: the near-duplicate guard finds a row.
ReserveNearDuplicate(c) ==
    /\ pc[c] = "reserving"
    /\ KeyRows(c) = {}
    /\ \E i \in Newest(Recent(c)) :
          \/ rows[i].state = "sent" /\ Decline(c, [kind |-> "guard_replay", op |-> i])
          \/ rows[i].state # "sent" /\ Decline(c, Error)

\* Neither lookup finds a row: one is inserted, in progress, and committed
\* before the callback runs.
ReserveInsert(c) ==
    /\ pc[c] = "reserving"
    /\ KeyRows(c) = {} /\ Recent(c) = {}
    /\ Len(rows) < MaxRows
    /\ rows' = Append(rows, [key |-> req[c].key, content |-> req[c].content,
                             variant |-> req[c].variant, force |-> req[c].force,
                             state |-> "in_progress", created |-> stamp[c]])
    /\ op' = [op EXCEPT ![c] = Len(rows) + 1]
    /\ pc' = [pc EXCEPT ![c] = "sending"]
    /\ UNCHANGED <<now, req, stamp, verdict, reply>>

\* The write lock is not obtained within the busy timeout.
ReserveFails(c) ==
    /\ pc[c] = "reserving"
    /\ Decline(c, Error)

\* The callback returns or raises; execute has chosen the state to record.
CallbackEnds(c, o) ==
    /\ pc[c] = "sending"
    /\ pc' = [pc EXCEPT ![c] = "finishing"]
    /\ verdict' = [verdict EXCEPT ![c] = o]
    /\ UNCHANGED <<now, rows, req, stamp, op, reply>>

\* Slip: _finish runs for an outcome but leaves the row in progress.
FinishForgets(c) ==
    /\ pc[c] = "finishing"
    /\ Answer(c, IF verdict[c] = "sent" THEN [kind |-> "sent", op |-> op[c]] ELSE Error)
    /\ UNCHANGED <<now, rows>>

Finish(c) ==
    /\ pc[c] = "finishing"
    /\ rows' = [rows EXCEPT ![op[c]].state = verdict[c]]
    /\ Answer(c, IF verdict[c] = "sent" THEN [kind |-> "sent", op |-> op[c]] ELSE Error)
    /\ UNCHANGED now

\* The UPDATE cannot be written: the row stays in progress.
FinishFails(c) ==
    /\ pc[c] = "finishing"
    /\ Answer(c, Error)
    /\ UNCHANGED <<now, rows>>

\* The caller's process dies: its row stays as it is, nothing recovers it.
Crash(c) ==
    /\ pc[c] # "idle"
    /\ Answer(c, NoReply)
    /\ UNCHANGED <<now, rows>>

Tick ==
    /\ now < Horizon
    /\ now' = now + 1
    /\ UNCHANGED <<rows, callerVars>>

Reserve(c) == ReserveKnownKey(c) \/ ReserveNearDuplicate(c) \/ ReserveInsert(c) \/ ReserveFails(c)

Next ==
    \/ Tick
    \/ \E c \in Callers :
          \/ \E r \in Asked : Begin(c, r)
          \/ Reserve(c)
          \/ \E o \in Outcomes : CallbackEnds(c, o)
          \/ Finish(c) \/ FinishFails(c)
          \/ Crash(c)

Spec == Init /\ [][Next]_vars

-----------------------------------------------------------------------------
(***************************************************************************)
(* Properties.                                                             *)
(***************************************************************************)

\* An explicit key is submitted at most once: no interleaving of callers, no
\* crash, no settled failure, no force_send and no passing of the window lets
\* a second row (and with it a second callback) be opened for the same key.
AtMostOncePerKey ==
    \A i, j \in 1..Len(rows) :
        (rows[i].key # NoKey /\ rows[i].key = rows[j].key) => i = j

\* The near-duplicate guard: of two operations with the same visible content
\* whose time stamps are within the window, the one reserved later was forced
\* or the earlier one is known to have failed.  Time stamps are read before
\* the lock, so the later row may even carry the earlier stamp.
WindowGuard ==
    Window > 0 =>
        \A i, j \in 1..Len(rows) :
            ( /\ i < j /\ ~rows[j].force
              /\ rows[i].content = rows[j].content
              /\ rows[j].created - rows[i].created <= Window )
            => rows[i].state = "failed"

\* What callers are told is the truth and stays so: a call that reports a
\* send or a replay names a row recorded as sent, with the caller's visible
\* content, and for an explicit-key replay with its key and whole payload.
AnswersTruthful ==
    \A c \in Callers :
        reply[c].kind \in {"sent", "replay", "guard_replay"} =>
            /\ reply[c].op \in 1..Len(rows)
            /\ LET row == rows[reply[c].op]
               IN /\ row.state = "sent" /\ row.content = req[c].content
                  /\ reply[c].kind # "guard_replay" =>
                        row.key = req[c].key /\ row.variant = req[c].variant

\* A row is settled by the caller that reserved it and by no other: callers
\* inside their callback hold distinct rows, and these are still in progress.
OwnedProgress ==
    \A c \in Callers :
        pc[c] \in {"sending", "finishing"} =>
            /\ op[c] \in 1..Len(rows) /\ rows[op[c]].state = "in_progress"
            /\ \A d \in Callers \ {c} : op[d] # op[c]

\* Settled rows are final and no row ever loses its identity: late results
\* and crashed callers change nothing that has been recorded.
SettledRowsFinal ==
    [][ /\ Len(rows) <= Len(rows')
        /\ \A i \in 1..Len(rows) :
              IF rows[i].state = "in_progress"
              THEN rows'[i] = [rows[i] EXCEPT !.state = rows'[i].state]
              ELSE rows'[i] = rows[i] ]_vars

-----------------------------------------------------------------------------
(***************************************************************************)
(* The ledger implements AtMostOnce for its explicit keys.                 *)
(***************************************************************************)
Several(k) == \E i, j \in 1..Len(rows) : i # j /\ rows[i].key = k /\ rows[j].key = k

\* Two rows of one key are no state of the promise.
Submission(k) ==
    IF Several(k) THEN [state |-> "several"]
    ELSE IF \E i \in 1..Len(rows) : rows[i].key = k
    THEN LET i == CHOOSE i \in 1..Len(rows) : rows[i].key = k
         IN [payload |-> [content |-> rows[i].content, variant |-> rows[i].variant],
             state |-> rows[i].state]
    ELSE [state |-> "unused"]

Promise == INSTANCE AtMostOnce WITH
               Payloads <- [content : Contents, variant : Variants],
               submission <- [k \in Keys |-> Submission(k)]

\* Refinement: seen through its explicit keys the ledger binds each key to one
\* payload, submits it at most once and never changes a recorded outcome.
ImplementsAtMostOnce == Promise!Spec
=============================================================================
