-------------------------- MODULE PendingApproval --------------------------
(***************************************************************************)
(* The server-side previews of pending_approval_v969.py as the lifecycle   *)
(* commands of mcp_v969.py use them: a preview inserts a row bound to the  *)
(* operation and to the live state it was computed from; an execution      *)
(* recomputes the binding, consumes the one row that matches it, and then  *)
(* carries the operation out, which changes the live state.  preview_id is *)
(* optional: without it the row is found by its binding alone.             *)
(* Callers are the worker threads of the MCP server.  The live state, the  *)
(* clock and the table are each read and written at different moments, so  *)
(* everything between two of those accesses interleaves.  The row id is    *)
(* the order of insertion; operations and states are opaque.               *)
(***************************************************************************)
EXTENDS Integers, FiniteSets, Sequences

CONSTANTS Callers,      \* threads that run a lifecycle command
          Operations,   \* operation and target, as previewed
          States,       \* the live states a binding includes
          TTL,          \* PENDING_APPROVAL_TTL_SECONDS
          Horizon,      \* bound: the last instant of the clock
          MaxRows       \* bound: previews ever issued

ASSUME ApprovalAssumption ==
    /\ Operations # {} /\ States # {}
    /\ TTL \in Nat /\ Horizon \in Nat /\ MaxRows \in Nat

VARIABLES now,          \* the wall clock
          state,        \* the live state: selector and build, or the proxy's phase
          issued,       \* every row ever inserted, in order; a row never changes
          present,      \* the rows the table still holds
          consumed,     \* those of them whose consumed_at is set
          uses,         \* history: how many executions each row has authorised
          pc,           \* where each caller is
          call,         \* the operation, the binding's state, the preview_id and the clock it read
          held          \* the row that authorised the caller's execution, or 0

table == <<issued, present, consumed, uses>>
callerVars == <<pc, call, held>>
vars == <<now, state, table, callerVars>>

Ids == 1..MaxRows
Calls == [op : Operations, state : States, id : 0..MaxRows, stamp : 0..Horizon]
NoCall == [op |-> CHOOSE o \in Operations : TRUE, state |-> CHOOSE s \in States : TRUE,
           id |-> 0, stamp |-> 0]

\* Type correctness; the table holds only rows that were inserted.
TypeOK ==
    /\ now \in 0..Horizon
    /\ state \in States
    /\ issued \in Seq([op : Operations, state : States, expires : Nat]) /\ Len(issued) <= MaxRows
    /\ present \subseteq 1..Len(issued) /\ consumed \subseteq present
    /\ uses \in [Ids -> Nat]
    /\ pc \in [Callers -> {"idle", "issuing", "inserting", "consuming", "applying"}]
    /\ call \in [Callers -> Calls]
    /\ held \in [Callers -> 0..Len(issued)]

Init ==
    /\ now = 0
    /\ state \in States
    /\ issued = << >> /\ present = {} /\ consumed = {}
    /\ uses = [i \in Ids |-> 0]
    /\ pc = [c \in Callers |-> "idle"]
    /\ call = [c \in Callers |-> NoCall]
    /\ held = [c \in Callers |-> 0]

-----------------------------------------------------------------------------
\* The call of c ends.
Return(c) ==
    /\ pc' = [pc EXCEPT ![c] = "idle"]
    /\ call' = [call EXCEPT ![c] = NoCall]
    /\ held' = [held EXCEPT ![c] = 0]

\* Rows that a DELETE ... WHERE expires_at < t leaves in the table.
Unexpired(t) == {i \in present : issued[i].expires >= t}

\* Slip: the purge compares with <=, and takes rows in their last second.
PurgeInclusive(t) ==
    /\ present' = {i \in present : issued[i].expires > t}
    /\ consumed' = consumed \cap present'

Purge(t) ==
    /\ present' = Unexpired(t)
    /\ consumed' = consumed \cap Unexpired(t)

-----------------------------------------------------------------------------
(***************************************************************************)
(* Preview.                                                                *)
(***************************************************************************)

\* The preview computes its binding from the live state.
PreviewReads(c, o) ==
    /\ pc[c] = "idle"
    /\ pc' = [pc EXCEPT ![c] = "issuing"]
    /\ call' = [call EXCEPT ![c] = [op |-> o, state |-> state, id |-> 0, stamp |-> 0]]
    /\ UNCHANGED <<now, state, table, held>>

\* issue reads the clock and deletes expired rows.  The connection is in
\* autocommit mode: the DELETE and the INSERT are two transactions.
IssuePurges(c) ==
    /\ pc[c] = "issuing"
    /\ Purge(now)
    /\ pc' = [pc EXCEPT ![c] = "inserting"]
    /\ call' = [call EXCEPT ![c].stamp = now]
    /\ UNCHANGED <<now, state, issued, uses, held>>

IssueInserts(c) ==
    /\ pc[c] = "inserting"
    /\ Len(issued) < MaxRows
    /\ issued' = Append(issued, [op |-> call[c].op, state |-> call[c].state,
                                 expires |-> call[c].stamp + TTL])
    /\ present' = present \cup {Len(issued) + 1}
    /\ Return(c)
    /\ UNCHANGED <<now, state, consumed, uses>>

-----------------------------------------------------------------------------
(***************************************************************************)
(* Execute.                                                                *)
(***************************************************************************)

\* The execution recomputes its binding; consume_matching reads the clock.
ExecuteReads(c, o, i) ==
    /\ pc[c] = "idle"
    /\ pc' = [pc EXCEPT ![c] = "consuming"]
    /\ call' = [call EXCEPT ![c] = [op |-> o, state |-> state, id |-> i, stamp |-> now]]
    /\ UNCHANGED <<now, state, table, held>>

\* Slip: a matching preview_id is enough, whatever the row is bound to.
MatchesById(c) ==
    {i \in Unexpired(call[c].stamp) \ consumed :
        IF call[c].id # 0 THEN i = call[c].id
        ELSE issued[i].op = call[c].op /\ issued[i].state = call[c].state}

\* Slip: the SELECT does not test consumed_at.
MatchesConsumed(c) ==
    {i \in Unexpired(call[c].stamp) :
        /\ issued[i].op = call[c].op /\ issued[i].state = call[c].state
        /\ call[c].id \in {0, i}}

\* What the SELECT of consume_matching returns, the purge having run.
Matches(c) ==
    {i \in Unexpired(call[c].stamp) \ consumed :
        /\ issued[i].op = call[c].op /\ issued[i].state = call[c].state
        /\ call[c].id \in {0, i}}

\* Slip: of several matching rows the first one is taken.
ConsumeFirst(c) ==
    /\ pc[c] = "consuming"
    /\ \E i \in Matches(c) :
          /\ present' = Unexpired(call[c].stamp)
          /\ consumed' = (consumed \cap present') \cup {i}
          /\ uses' = [uses EXCEPT ![i] = @ + 1]
          /\ held' = [held EXCEPT ![c] = i]
    /\ pc' = [pc EXCEPT ![c] = "applying"]
    /\ UNCHANGED <<now, state, issued, call>>

\* BEGIN IMMEDIATE, purge, SELECT, UPDATE, COMMIT: exactly one row matches.
Consume(c) ==
    /\ pc[c] = "consuming"
    /\ \E i \in Matches(c) :
          /\ Matches(c) = {i}
          /\ present' = Unexpired(call[c].stamp)
          /\ consumed' = (consumed \cap present') \cup {i}
          /\ uses' = [uses EXCEPT ![i] = @ + 1]
          /\ held' = [held EXCEPT ![c] = i]
    /\ pc' = [pc EXCEPT ![c] = "applying"]
    /\ UNCHANGED <<now, state, issued, call>>

\* No row matches, or several do (AmbiguousPendingPreviewError), or the write
\* lock is not obtained: the transaction, its purge included, is rolled back.
Deny(c) ==
    /\ pc[c] = "consuming"
    /\ Cardinality(Matches(c)) # 1
    /\ Return(c)
    /\ UNCHANGED <<now, state, table>>

ConsumeFails(c) ==
    /\ pc[c] = "consuming"
    /\ Return(c)
    /\ UNCHANGED <<now, state, table>>

\* The approved operation is carried out: the live state becomes s.
Apply(c, s) ==
    /\ pc[c] = "applying"
    /\ state' = s
    /\ Return(c)
    /\ UNCHANGED <<now, table>>

\* The operation fails, or the process ends before it: the row stays consumed.
ApplyFails(c) ==
    /\ pc[c] = "applying"
    /\ Return(c)
    /\ UNCHANGED <<now, state, table>>

\* The process restarts (a version change terminates it): every call under
\* way is gone, the table is on disk.
Restart ==
    /\ \E c \in Callers : pc[c] # "idle"
    /\ pc' = [c \in Callers |-> "idle"]
    /\ call' = [c \in Callers |-> NoCall]
    /\ held' = [c \in Callers |-> 0]
    /\ UNCHANGED <<now, state, table>>

Tick ==
    /\ now < Horizon
    /\ now' = now + 1
    /\ UNCHANGED <<state, table, callerVars>>

Preview(c) == (\E o \in Operations : PreviewReads(c, o)) \/ IssuePurges(c) \/ IssueInserts(c)

Execute(c) ==
    \/ \E o \in Operations, i \in 0..Len(issued) : ExecuteReads(c, o, i)
    \/ Consume(c) \/ Deny(c) \/ ConsumeFails(c)
    \/ (\E s \in States : Apply(c, s)) \/ ApplyFails(c)

Next == Tick \/ Restart \/ \E c \in Callers : Preview(c) \/ Execute(c)

Spec == Init /\ [][Next]_vars

-----------------------------------------------------------------------------
(***************************************************************************)
(* Properties.                                                             *)
(***************************************************************************)

\* An execution in progress was authorised by a row of its own: no two calls
\* hold the same preview, and the row was previewed for the same operation on
\* the state the execution read, by a clock no later than its expiry.
ExactApproval ==
    \A c \in Callers :
        pc[c] = "applying" =>
            /\ held[c] \in 1..Len(issued)
            /\ issued[held[c]].op = call[c].op /\ issued[held[c]].state = call[c].state
            /\ issued[held[c]].expires >= call[c].stamp
            /\ \A d \in Callers \ {c} : held[d] # held[c]

\* A preview stays spent for good: expiry, the purges of other callers with an
\* older or newer clock, rollbacks and restarts never revive it.
SpentForGood == \A i \in Ids : uses[i] <= 1

\* No false denial: while the clock has not passed the expiry of a preview that
\* has authorised nothing, its row is in the table and open, so an execution
\* that names it on the previewed operation and state does find it.
UnspentStaysOpen ==
    \A i \in 1..Len(issued) :
        (uses[i] = 0 /\ issued[i].expires >= now) => i \in present \ consumed

\* An execution that names no preview is never served while its binding is
\* ambiguous: when it takes a row, every other preview it could have meant
\* is spent or expired, rows of older and of newer clocks included.
NeverGuesses ==
    [][ \A c \in Callers :
          (pc[c] = "consuming" /\ pc'[c] = "applying" /\ call[c].id = 0) =>
             \A i \in 1..Len(issued) :
                 (/\ issued[i].op = call[c].op /\ issued[i].state = call[c].state
                  /\ issued[i].expires >= now)
                 => uses'[i] > 0 ]_vars

Promise == INSTANCE OneShotApproval WITH issued <- 1..Len(issued)

\* Refinement: the table of pending previews implements one-shot approvals.
ImplementsOneShot == Promise!Spec
=============================================================================
