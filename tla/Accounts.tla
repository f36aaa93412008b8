------------------------------ MODULE Accounts ------------------------------
(***************************************************************************)
(* The mail accounts (account_store.py): an encrypted row per account, at  *)
(* most one of them the default by a partial unique index, the account a   *)
(* call gets that names none, and the one-time import of the account of    *)
(* the environment.  A call that changes an account answers with           *)
(* get_account, which finds only enabled accounts.                         *)
(***************************************************************************)
EXTENDS Integers, FiniteSets, FiniteSetsExt

CONSTANTS
  Callers,
  Ids,          \* account ids the forms are given
  EnvAccount,   \* the id made of MAIL_EMAIL, or NoAccount
  NoAccount,
  MaxSaves,     \* bound: accounts created
  MaxCalls,     \* bound: calls made
  MaxBoots      \* bound: starts of the process

\* what is assumed of the constants; the module that instantiates them asserts it
AccountsAssumption ==
  /\ NoAccount \notin Ids /\ EnvAccount \in Ids \cup {NoAccount}
  /\ MaxSaves \in Nat /\ MaxCalls \in Nat /\ MaxBoots \in Nat

VARIABLES
  account,      \* mail_accounts, or NoRow: [made, enabled, default, amp]
  marker,       \* mail_accounts_meta.legacy_env_import is there
  boot,         \* the constructor: "migrate", "mark" or "up"
  call,         \* what each caller is doing or was told
  made,         \* accounts created so far; stands for created_at
  chosen,       \* history: the account last made default, NoAccount when none is
  raced,        \* history: an account was deleted under the last set_default
  imports,      \* history: rows created from the environment
  torn,         \* history: how often the process ended between import and marker
  calls, boots

vars == <<account, marker, boot, call, made, chosen, raced, imports, torn, calls, boots>>
counters == <<calls, boots>>

-----------------------------------------------------------------------------

NoRow == [made |-> 0, enabled |-> FALSE, default |-> FALSE, amp |-> FALSE]
Kept == {i \in Ids : account[i].made > 0}
Enabled == {i \in Kept : account[i].enabled}
Default == {i \in Kept : account[i].default}
Oldest(S) == CHOOSE i \in S : \A j \in S : account[i].made <= account[j].made

\* resolve_id(None): enabled accounts, the default first, then by age
Resolved ==
  IF Enabled = {} THEN NoAccount
  ELSE IF Enabled \cap Default # {} THEN Oldest(Enabled \cap Default) ELSE Oldest(Enabled)

Idle == [at |-> "idle", told |-> "nothing"]

Init ==
  /\ account = [i \in Ids |-> NoRow]
  /\ marker = FALSE
  /\ boot = "migrate"
  /\ call = [c \in Callers |-> Idle]
  /\ made = 0 /\ chosen = NoAccount
  /\ raced = FALSE /\ imports = 0 /\ torn = 0
  /\ calls = 0 /\ boots = 1

-----------------------------------------------------------------------------
(* One save, under the lock.                                               *)

\* make_default as the caller asked, or because no account is enabled yet
BecomesDefault(i, make) == make \/ (i \notin Kept /\ Enabled = {})

\* the partial unique index: the others are cleared first only when the caller asked
Fits(i, make) == make \/ ~BecomesDefault(i, make) \/ Default \ {i} = {}

\* a plausible slip: the upsert takes is_default as given
SavedRowAsGiven(i, enabled, make) ==
  [made |-> IF i \in Kept THEN account[i].made ELSE made + 1,
   enabled |-> enabled, default |-> BecomesDefault(i, make), amp |-> account[i].amp]

SavedRow(i, enabled, make) ==
  [made |-> IF i \in Kept THEN account[i].made ELSE made + 1,
   enabled |-> enabled,
   default |-> BecomesDefault(i, make) \/ (i \in Kept /\ account[i].default),
   amp |-> account[i].amp]

\* save_account up to its commit
Saved(i, enabled, make) ==
  /\ account' = [j \in Ids |-> IF j = i THEN SavedRow(i, enabled, make)
                               ELSE [account[j] EXCEPT !.default = @ /\ ~BecomesDefault(i, make)]]
  /\ made' = IF i \in Kept THEN made ELSE made + 1
  /\ chosen' = IF BecomesDefault(i, make) THEN i ELSE chosen
  /\ raced' = (raced /\ ~BecomesDefault(i, make))

Begins(c) == boot = "up" /\ call[c].at = "idle" /\ calls < MaxCalls /\ calls' = calls + 1
Tells(c, t) == call' = [call EXCEPT ![c] = [at |-> "idle", told |-> t]]

\* save_account and what the form says of it: the row is committed, then get_account is asked
Save(c, i, enabled, make) ==
  /\ Begins(c) /\ (i \notin Kept => made < MaxSaves)
  /\ IF Fits(i, make)
     THEN Saved(i, enabled, make) /\ Tells(c, IF enabled THEN "saved" ELSE "failed after saving")
     ELSE Tells(c, "failed") /\ UNCHANGED <<account, made, chosen, raced>>
  /\ UNCHANGED <<marker, boot, imports, torn, boots>>

\* set_default and set_amp_state resolve the id before they take the lock
Resolves(c, i, what) ==
  /\ Begins(c)
  /\ IF i \in Enabled THEN call' = [call EXCEPT ![c] = [at |-> what, told |-> "nothing", id |-> i]]
     ELSE Tells(c, "failed")
  /\ UNCHANGED <<account, marker, boot, made, chosen, raced, imports, torn, boots>>

Answer(i) == IF i \in Enabled THEN "saved" ELSE IF i \in Kept THEN "failed after saving" ELSE "failed"

SetDefault(c) ==
  /\ call[c].at = "default"
  /\ LET i == call[c].id IN
     /\ account' = [j \in Ids |-> [account[j] EXCEPT !.default = j = i /\ i \in Kept]]
     /\ chosen' = IF i \in Kept THEN i ELSE chosen
     /\ raced' = (i \notin Kept)
     /\ Tells(c, Answer(i))
  /\ UNCHANGED <<marker, boot, made, imports, torn, counters>>

SetAmpState(c, on) ==
  /\ call[c].at = "amp"
  /\ LET i == call[c].id IN
     /\ account' = IF i \in Kept THEN [account EXCEPT ![i].amp = on] ELSE account
     /\ Tells(c, Answer(i))
  /\ UNCHANGED <<marker, boot, made, chosen, raced, imports, torn, counters>>

\* delete_account: the oldest enabled account follows a default
Delete(c, i) ==
  /\ Begins(c) /\ i \in Kept
  /\ LET rest == Enabled \ {i}
         next == IF rest = {} THEN NoAccount ELSE Oldest(rest)
     IN /\ account' = [j \in Ids |-> IF j = i THEN NoRow
                                     ELSE IF account[i].default /\ j = next THEN [account[j] EXCEPT !.default = TRUE]
                                     ELSE account[j]]
        /\ chosen' = IF account[i].default THEN next ELSE IF chosen = i THEN NoAccount ELSE chosen
  /\ Tells(c, "saved")
  /\ UNCHANGED <<marker, boot, made, raced, imports, torn, boots>>

-----------------------------------------------------------------------------
(* The constructor.                                                        *)

\* a plausible slip: the marker is written and never looked at
SettledByRows == Kept # {}

Settled == Kept # {} \/ marker

\* _migrate_legacy_env: an account or the marker ends it; else the account of the environment
\* is saved as the default ...
Migrate ==
  /\ boot = "migrate"
  /\ IF Settled
     THEN boot' = "up" /\ UNCHANGED <<account, made, chosen, raced, imports>>
     ELSE /\ boot' = "mark"
          /\ IF EnvAccount # NoAccount /\ made < MaxSaves
             THEN Saved(EnvAccount, TRUE, TRUE) /\ imports' = imports + 1
             ELSE UNCHANGED <<account, made, chosen, raced, imports>>
  /\ UNCHANGED <<marker, call, torn, counters>>

\* ... and then the marker is written
Mark ==
  /\ boot = "mark"
  /\ marker' = TRUE /\ boot' = "up"
  /\ UNCHANGED <<account, call, made, chosen, raced, imports, torn, counters>>

Restart ==
  /\ boots < MaxBoots /\ boots' = boots + 1
  /\ boot' = "migrate" /\ call' = [c \in Callers |-> Idle]
  /\ torn' = IF boot = "mark" THEN torn + 1 ELSE torn
  /\ UNCHANGED <<account, marker, made, chosen, raced, imports, calls>>

Next ==
  \/ \E c \in Callers :
       \/ SetDefault(c) \/ \E on \in BOOLEAN : SetAmpState(c, on)
       \/ \E i \in Ids :
            \/ Delete(c, i)
            \/ \E what \in {"default", "amp"} : Resolves(c, i, what)
            \/ \E enabled, make \in BOOLEAN : Save(c, i, enabled, make)
  \/ Migrate \/ Mark \/ Restart

Spec == Init /\ [][Next]_vars

-----------------------------------------------------------------------------
(* What must hold.                                                         *)

TypeOK ==
  /\ \A i \in Ids : account[i].made \in 0..MaxSaves /\ (account[i].made = 0 => account[i] = NoRow)
  /\ Cardinality(Default) <= 1
  /\ chosen \in Ids \cup {NoAccount}

\* A call that names no account gets the one last chosen while that one is enabled, through
\* edits, deletions and restarts.  A set_default whose account was deleted under it leaves none
\* chosen, until another is.
ChosenAnswers == chosen \in Enabled /\ ~raced => Resolved = chosen

\* The environment is imported once, and once more for each time the process ended between an
\* import and its marker: no other account its owner deleted comes back with a restart.
ImportedOnce == imports <= 1 + torn

\* What a form answers of a save is what happened to the account.
SaveTellsTruth == \A c \in Callers : call[c].told # "failed after saving"

\* While no account is enabled, one can be added (account_store.py: "Add one from the WebGUI
\* Accounts tab").
CanBeAdded == \A i \in Ids \ Kept : Enabled = {} => Fits(i, FALSE)

=============================================================================
