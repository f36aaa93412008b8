------------------------- MODULE ConfirmationTokens -------------------------
(***************************************************************************)
(* The stateless confirmation tokens of confirmation_v967.py, which the    *)
(* legacy build_status command still uses: a token carries its binding and *)
(* its expiry under a signature, issuing it writes nothing, and consuming  *)
(* it inserts the digest of its nonce into a table whose rows are purged   *)
(* once they have expired.  consume reads the clock twice, to authenticate *)
(* the token and to purge the table, and the two reads are apart.          *)
(***************************************************************************)
EXTENDS Integers, Sequences

CONSTANTS Callers,      \* threads that execute a confirmed operation
          Bindings,     \* what a confirmation is bound to
          TTL,          \* CONFIRMATION_TTL_SECONDS
          Horizon,      \* bound: the last instant of the clock
          MaxTokens     \* bound: tokens ever issued

\* what is assumed of the constants; the module that instantiates them asserts it
TokenAssumption ==
    Bindings # {} /\ TTL \in Nat /\ Horizon \in Nat /\ MaxTokens \in Nat

VARIABLES now,          \* the wall clock
          issued,       \* the tokens handed out, each with its binding and expiry
          spent,        \* mcp_confirmation_consumed: tokens whose nonce has a row
          uses,         \* history: how many attempts each token has served until its expiry
          late,         \* history: how many of each caller it has served afterwards
          held,         \* history: the callers that had authenticated it when it expired
          pc,           \* where each caller is inside consume
          token,        \* the token the caller presented
          binding       \* the binding the caller recomputed

callerVars == <<pc, token, binding>>
historyVars == <<uses, late, held>>
vars == <<now, issued, spent, historyVars, callerVars>>

Ids == 1..MaxTokens
AnyBinding == CHOOSE b \in Bindings : TRUE

\* Type correctness; only tokens that exist have a row, and only callers
\* inside consume or the confirmed operation hold a token.
TypeOK ==
    /\ now \in 0..Horizon
    /\ issued \in Seq([binding : Bindings, exp : Nat]) /\ Len(issued) <= MaxTokens
    /\ spent \subseteq 1..Len(issued)
    /\ uses \in [Ids -> Nat] /\ late \in [Ids -> [Callers -> Nat]]
    /\ held \in [Ids -> SUBSET Callers]
    /\ pc \in [Callers -> {"idle", "authenticated", "confirmed"}]
    /\ token \in [Callers -> 0..Len(issued)]
    /\ binding \in [Callers -> Bindings]
    /\ \A c \in Callers : pc[c] = "idle" <=> token[c] = 0

Init ==
    /\ now = 0
    /\ issued = << >> /\ spent = {}
    /\ uses = [i \in Ids |-> 0] /\ late = [i \in Ids |-> [c \in Callers |-> 0]]
    /\ held = [i \in Ids |-> {}]
    /\ pc = [c \in Callers |-> "idle"]
    /\ token = [c \in Callers |-> 0]
    /\ binding = [c \in Callers |-> AnyBinding]

Return(c) ==
    /\ pc' = [pc EXCEPT ![c] = "idle"]
    /\ token' = [token EXCEPT ![c] = 0]
    /\ binding' = [binding EXCEPT ![c] = AnyBinding]

\* A preview signs a token; no table is written.
Issue(b) ==
    /\ Len(issued) < MaxTokens
    /\ issued' = Append(issued, [binding |-> b, exp |-> now + TTL])
    /\ UNCHANGED <<now, spent, historyVars, callerVars>>

\* _decode_authenticated accepts a token that has not expired.
Authenticate(c, i, b) ==
    /\ pc[c] = "idle"
    /\ issued[i].exp >= now
    /\ pc' = [pc EXCEPT ![c] = "authenticated"]
    /\ token' = [token EXCEPT ![c] = i]
    /\ binding' = [binding EXCEPT ![c] = b]
    /\ UNCHANGED <<now, issued, spent, historyVars>>

\* Slip: the purge also takes the nonces in their last second.
UnpurgedExclusive == {i \in spent : issued[i].exp > now}

\* The rows that DELETE ... WHERE expires_at < now leaves, now read again.
Unpurged == {i \in spent : issued[i].exp >= now}

\* An attempt is served, before the expiry or after it.
Serves(c, i) ==
    /\ IF issued[i].exp >= now
       THEN uses' = [uses EXCEPT ![i] = @ + 1] /\ UNCHANGED late
       ELSE late' = [late EXCEPT ![i][c] = late[i][c] + 1] /\ UNCHANGED uses
    /\ UNCHANGED held

\* Slip: a token confirms whatever it is presented for.
SpendUnbound(c) ==
    /\ pc[c] = "authenticated"
    /\ token[c] \notin Unpurged
    /\ spent' = Unpurged \cup {token[c]}
    /\ Serves(c, token[c])
    /\ pc' = [pc EXCEPT ![c] = "confirmed"]
    /\ UNCHANGED <<now, issued, token, binding>>

\* The INSERT of the nonce succeeds and is committed; then the bindings are
\* compared, so a mismatch spends the token as well.
Spend(c) ==
    /\ pc[c] = "authenticated"
    /\ token[c] \notin Unpurged
    /\ spent' = Unpurged \cup {token[c]}
    /\ Serves(c, token[c])
    /\ \/ /\ issued[token[c]].binding = binding[c]
          /\ pc' = [pc EXCEPT ![c] = "confirmed"]
          /\ UNCHANGED <<token, binding>>
       \/ /\ issued[token[c]].binding # binding[c]
          /\ Return(c)
    /\ UNCHANGED <<now, issued>>

\* IntegrityError: the nonce has a row; the purge is rolled back.  A database
\* error ends the attempt in the same way.
Reject(c) ==
    /\ pc[c] = "authenticated"
    /\ Return(c)
    /\ UNCHANGED <<now, issued, spent, historyVars>>

\* The confirmed operation is carried out, or fails.
Done(c) ==
    /\ pc[c] = "confirmed"
    /\ Return(c)
    /\ UNCHANGED <<now, issued, spent, historyVars>>

\* The process restarts: key and table are on disk, tokens are with clients.
Restart ==
    /\ \E c \in Callers : pc[c] # "idle"
    /\ pc' = [c \in Callers |-> "idle"]
    /\ token' = [c \in Callers |-> 0]
    /\ binding' = [c \in Callers |-> AnyBinding]
    /\ UNCHANGED <<now, issued, spent, historyVars>>

Tick ==
    /\ now < Horizon
    /\ now' = now + 1
    /\ held' = [i \in Ids |-> IF i \in 1..Len(issued) /\ issued[i].exp = now
                              THEN {c \in Callers : pc[c] = "authenticated" /\ token[c] = i} ELSE held[i]]
    /\ UNCHANGED <<issued, spent, uses, late, callerVars>>

Next ==
    \/ Tick \/ Restart
    \/ \E b \in Bindings : Issue(b)
    \/ \E c \in Callers :
          \/ \E i \in 1..Len(issued), b \in Bindings : Authenticate(c, i, b)
          \/ Spend(c) \/ Reject(c) \/ Done(c)

Spec == Init /\ [][Next]_vars

-----------------------------------------------------------------------------
(***************************************************************************)
(* Properties.                                                             *)
(***************************************************************************)

\* While a token is valid it serves one attempt, matching or not, across
\* callers and restarts: its nonce keeps its row for as long.
OnceWhileValid ==
    \A i \in 1..Len(issued) :
        issued[i].exp >= now => /\ uses[i] <= 1
                                /\ uses[i] = 1 => i \in spent

\* Once it has expired a token serves nobody but the calls that had authenticated it before, each of
\* them once: their purge takes the nonce of the first use, so that the replay does happen.
OnlyStraddlersReplay ==
    \A i \in Ids, c \in Callers : late[i][c] <= 1 /\ (late[i][c] > 0 => c \in held[i])

\* A confirmed caller presented a token of exactly its binding, and while that
\* token is valid nobody else is confirmed by it.
ConfirmedExactly ==
    \A c \in Callers :
        pc[c] = "confirmed" =>
            /\ issued[token[c]].binding = binding[c]
            /\ issued[token[c]].exp >= now =>
                  \A d \in Callers \ {c} : pc[d] = "confirmed" => token[d] # token[c]
=============================================================================
