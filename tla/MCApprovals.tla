----------------------------- MODULE MCApprovals ----------------------------
(***************************************************************************)
(* Approvals and what they are for, one component to a behaviour: they     *)
(* share no state.                                                         *)
(*                                                                         *)
(* approvals: two threads, two operations, two live states, two previews,  *)
(* a TTL of one instant on a clock of three.  tokens: two threads, two     *)
(* tokens, two bindings, a TTL of one on a clock of four.  scopes: two     *)
(* callers with one project and one item, crashes anywhere, or one caller  *)
(* with two projects; a client passes no list of scopes, an empty one, or  *)
(* some.  signing: two threads, two addresses, three keys, three previews. *)
(***************************************************************************)
EXTENDS PendingApproval

CONSTANTS
  c1, c2, update, pin, s1, s2,
  Bindings, LastInstant, MaxTokens,                     \* of tokens
  Projects, Items, Files, Global, MaxRefs, Loads,       \* of scopes
  Urls, NoUrl, MaxKeys, MaxPreviews                     \* of signing

MCCallers == {c1, c2}
MCOperations == {update, pin}
MCStates == {s1, s2}

OneCaller == [callers |-> {c1}, projects |-> {"p1", "p2"},
              given |-> {{}, {"p1", "p2"}, {"p2", "global"}}, crash |-> FALSE]
TwoCallers == [callers |-> {c1, c2}, projects |-> {"p1"},
               given |-> {{"p1"}, {"p1", "global"}}, crash |-> TRUE]
ScopeLoads == {OneCaller, TwoCallers}

\* where nothing crashes
SteadyCallers == [TwoCallers EXCEPT !.crash = FALSE]
SteadyLoads == {SteadyCallers}

VARIABLES
  component,   \* the part this behaviour is about
  ctNow, ctIssued, spent, ctUses, ctLate, ctHeld, ctPc, token, binding,
  load, status, refs, kept, column, revisions, scopes, primary, audit, files, psPc, psCall, restored,
  url, key, keys, previews, approvals, skCall, maker, shown, posted

Tokens == INSTANCE ConfirmationTokens WITH
  Horizon <- LastInstant, now <- ctNow, issued <- ctIssued, uses <- ctUses, late <- ctLate,
  held <- ctHeld, pc <- ctPc

Scopes == INSTANCE ProjectScopes WITH
  pc <- psPc, call <- psCall

Signing == INSTANCE SigningKey WITH
  Threads <- Callers, call <- skCall

tokensVars == <<ctNow, ctIssued, spent, ctUses, ctLate, ctHeld, ctPc, token, binding>>
scopesVars == <<load, status, refs, kept, column, revisions, scopes, primary, audit, files, psPc, psCall, restored>>
signingVars == <<url, key, keys, previews, approvals, skCall, maker, shown, posted>>
allVars == <<component, vars, tokensVars, scopesVars, signingVars>>

AllInit ==
  /\ component \in {"approvals", "tokens", "scopes", "signing"}
  /\ Init
  /\ Tokens!Init /\ Scopes!Init /\ Signing!Init
  \* one initial state of each component that does not act
  /\ component # "approvals" => state = CHOOSE s \in States : TRUE
  /\ component # "scopes" => load = CHOOSE l \in Loads : TRUE

AllNext ==
  /\ UNCHANGED component
  /\ \/ component = "approvals" /\ Next /\ UNCHANGED <<tokensVars, scopesVars, signingVars>>
     \/ component = "tokens" /\ Tokens!Next /\ UNCHANGED <<vars, scopesVars, signingVars>>
     \/ component = "scopes" /\ Scopes!Next /\ UNCHANGED <<vars, tokensVars, signingVars>>
     \/ component = "signing" /\ Signing!Next /\ UNCHANGED <<vars, tokensVars, scopesVars>>

AllSpec == AllInit /\ [][AllNext]_allVars

-----------------------------------------------------------------------------
ASSUME ApprovalsAssumption == Tokens!TokenAssumption /\ Scopes!ScopesAssumption /\ Loads # {}

\* See the comments of these parts in the modules they come from; the other properties are those
\* of PendingApproval, which this module extends.

\* A token serves one attempt while it is valid, afterwards at most one of each call that was
\* inside when it expired, and confirms exactly its binding.  A signing key that was told is
\* replaced by nobody but a call that had found none when it was told.
SigningSafety ==
  /\ component = "tokens" =>
       Tokens!TypeOK /\ Tokens!OnceWhileValid /\ Tokens!OnlyStraddlersReplay /\ Tokens!ConfirmedExactly
  /\ component = "signing" => Signing!ToldKeyStays

\* Nothing refers to a project while it is deleted, and where one caller works nothing afterwards but
\* what a restored revision writes back; the column of an item and its scope rows agree.
ScopesSafety ==
  component = "scopes" =>
    /\ Scopes!TypeOK
    /\ Scopes!DeletionExcludesReferences /\ Scopes!DeletedIsDetached /\ Scopes!PrimaryAgrees

\* What a deletion left Unassigned stays so, until it is saved.
UnassignedStays == Scopes!UnassignedStays

\* What the comment of ProjectService.delete promises, and two callers break.
NoDanglingReference == component = "scopes" => Scopes!NoDanglingReference
=============================================================================
