------------------------------ MODULE MCRecords -----------------------------
(***************************************************************************)
(* What the application keeps in tables of its own and answers from, one   *)
(* component to a behaviour: they share no state.                          *)
(*                                                                         *)
(* data: one table with a required and a defaulted column, a key, rows     *)
(* given, upserted and imported, three migrations.  reads: three rows,     *)
(* overrides that hold for a while, queries, an export and a join beside   *)
(* one edit.  accounts: two, one of them made of the environment.  ledger: *)
(* two callers, one explicit key, one visible content with two payloads,   *)
(* two rows; the horizon is longer than the window, so that rows leave it  *)
(* and a caller's stale time stamp can fall on either side of it.          *)
(* recipients: what three earlier releases left, sends, replies and a      *)
(* follow-up, of one caller or of two whose messages are not               *)
(* individualised, with and without the Sent folder in the policy, beside  *)
(* an edit or two.  operations: two accounts, two sends and two answers,   *)
(* beside an operation of the pseudo-id format.                            *)
(***************************************************************************)
EXTENDS OutboundSafety, TLC

CONSTANTS
  none, c1, c2, k1, m1, v1, v2,
  Tables, TableColumns, Values, Null, Declarations, RowKeys, NoRowKey, MatchLimit, MaxTableRows,
  MaxRecords, Given, Batches, MaxBatch, ConflictColumns, Plans,                      \* of data
  ReadIds, ReadColumns, Stored, Other, NoValue, Overridings, TableAsks, NoFilter, NoSort,
  MaxTime, MaxOverrides, MaxRowEdits, MaxReads,                                      \* of reads
  AccountIds, EnvAccount, MaxSaves, MaxCalls, MaxBoots,                              \* of accounts
  Senders, Addresses, Own, Domains, CoveredBy, EnvDomains, Legacies, Means, Asks, SendLoads,                                                            \* of recipients
  Mailboxes, OperationShapes, LegacyOperation, NoOperation, MaxSends, MaxReplies, MaxFaults \* of operations

Ask(k, v, f) == [key |-> k, content |-> m1, variant |-> v, force |-> f]

\* one request of each kind that the two lookups tell apart; a forced one without a key is part
\* of the deliveries of MCOutboundDelivery
AskedHere == {Ask(k1, v1, FALSE), Ask(k1, v2, FALSE), Ask(k1, v1, TRUE),
              Ask(NoKey, v1, FALSE)}

ColumnsDeclared == [a |-> [required |-> TRUE, unique |-> FALSE, default |-> none, allowed |-> {}],
                    b |-> [required |-> FALSE, unique |-> FALSE, default |-> 1, allowed |-> {1}]]
GivenRows == {"a" :> 1, [a |-> 1, b |-> 1]}
GivenBatches == {<<"a" :> 1, "a" :> 1>>}
Operation(a, c) == [action |-> a, table |-> "t", column |-> c]
PlansMade == {<<Operation("add_column", "b"), Operation("create_index", "a")>>,
              <<Operation("create_index", "a")>>, <<Operation("drop_column", "b")>>}

StoredRows == <<[k |-> 1, v |-> 1], [k |-> 2, v |-> 1], [k |-> 3, v |-> 2]>>
OtherRows == <<[k |-> 1, v |-> 1], [k |-> 2, v |-> 1]>>
Unfiltered == <<"none", 0>>
Override(i, c, v, priority, window) ==
  [row |-> i, column |-> c, value |-> v, priority |-> priority, window |-> window, enabled |-> TRUE]
OverridesMade == {Override(1, "k", 4, 1, <<0, 9>>), Override(1, "k", 0, 2, <<1, 9>>),
                  Override(3, "k", 0, 1, <<0, 1>>), Override(2, "v", 2, 1, <<0, 9>>),
                  [Override(2, "k", 0, 3, <<0, 9>>) EXCEPT !.enabled = FALSE]}
Asking(kind, columns, filter, sort, effective) ==
  [kind |-> kind, columns |-> columns, filter |-> filter, sort |-> sort, page |-> 2, effective |-> effective]
TablesAsked == {Asking("query", {"k", "v"}, Unfiltered, "k", TRUE), Asking("query", {"k", "v"}, <<"v", 1>>, "k", TRUE),
                Asking("query", {"k"}, Unfiltered, "none", TRUE), Asking("export", {"k", "v"}, Unfiltered, "none", TRUE),
                Asking("query", {"v"}, Unfiltered, "none", FALSE), Asking("join", {"k", "v"}, <<"v", 1>>, "none", FALSE)}

Incoming == [from |-> {"ann"}, replyTo |-> {}, to |-> {"me"}, cc |-> {"bob"}]
Outgoing == [from |-> {"me"}, replyTo |-> {}, to |-> {"ann", "me"}, cc |-> {"bob", "me"}]
Letter(kind, thread, to, cc, bcc, confirm, manual, single) ==
  [kind |-> kind, thread |-> thread, to |-> to, cc |-> cc, bcc |-> bcc, confirm |-> confirm,
   manual |-> manual, single |-> single]
Letters == {Letter("send", Incoming, {"ann"}, {}, {"bob"}, {}, FALSE, TRUE),
            Letter("send", Incoming, {"ann"}, {}, {"bob"}, {"bob"}, FALSE, FALSE),
            Letter("send", Incoming, {"bob"}, {}, {"ann"}, {"bob"}, TRUE, FALSE),
            Letter("reply", Incoming, {}, {"me", "bob"}, {}, {}, TRUE, TRUE),
            Letter("reply", Outgoing, {}, {}, {}, {}, FALSE, TRUE),
            Letter("follow_up", Outgoing, {}, {}, {"me"}, {}, FALSE, FALSE)}
Load(callers, previous, letters, calls, edits) ==
  [callers |-> callers, previous |-> previous, asks |-> letters, calls |-> calls, edits |-> edits]
Whole == {m \in Letters : ~m.single}
LoadsOfSends == {Load({c1}, TRUE, Letters, 2, 1), Load({c1}, FALSE, Letters, 1, 2),
                 Load({c1, c2}, TRUE, Whole, 2, 1), Load({c1, c2}, FALSE, Whole, 2, 1)}
Spaced == [kind |-> "old", exact |-> {"Bob ", " "}, domains |-> {}]
OddlySpaced == [kind |-> "odd", exact |-> {"Bob "}, domains |-> {}]
NothingLeft == [kind |-> "none", exact |-> {}, domains |-> {}]
Inherited == {NothingLeft, Spaced, OddlySpaced}
Covered == [me |-> {}, ann |-> {"x"}, bob |-> {"y"}]
Spelt == "Bob " :> {"bob"} @@ " " :> {}

Shapes == {[to |-> {"p"}, cc |-> {}, bcc |-> {"q"}, single |-> FALSE],
           [to |-> {"p", "q"}, cc |-> {}, bcc |-> {}, single |-> TRUE]}
Pseudo == [account |-> "a", shape |-> [to |-> {"p"}, cc |-> {"q"}, bcc |-> {}, single |-> FALSE]]

VARIABLES
  component,   \* the part this behaviour is about
  schema, indexes, sdRows, trail, done, inserted, attached, migrations, importing,
  tqRows, overrides, tqNow, read, changed, result, tqEdits, reads,
  account, marker, boot, acCall, made, chosen, raced, imports, torn, acCalls, boots,
  reLoad, legacy, seeded, domains, exact, history, drafts, suppressed, reCall, last, reCalls, reEdits,
  ops, deliveries, mappings, sends, migrated, mails, told, replies, faults

Data == INSTANCE StructuredData WITH
  Columns <- TableColumns, Column <- Declarations, Keys <- RowKeys, NoKey <- NoRowKey,
  MaxRows <- MaxTableRows, rows <- sdRows

Reads == INSTANCE TableReads WITH
  Ids <- ReadIds, Columns <- ReadColumns, Asks <- TableAsks, MaxEdits <- MaxRowEdits,
  rows <- tqRows, now <- tqNow, edits <- tqEdits

Accts == INSTANCE Accounts WITH
  Ids <- AccountIds, NoAccount <- none, call <- acCall, calls <- acCalls

Sends == INSTANCE Recipients WITH
  Callers <- Senders, Loads <- SendLoads, load <- reLoad, call <- reCall, calls <- reCalls,
  edits <- reEdits

Filed == INSTANCE OutboundOperations WITH
  Accounts <- Mailboxes, Shapes <- OperationShapes, Legacy <- LegacyOperation

dataVars == <<schema, indexes, sdRows, trail, done, inserted, attached, migrations, importing>>
readsVars == <<tqRows, overrides, tqNow, read, changed, result, tqEdits, reads>>
accountsVars == <<account, marker, boot, acCall, made, chosen, raced, imports, torn, acCalls, boots>>
recipientsVars == <<reLoad, legacy, seeded, domains, exact, history, drafts, suppressed, reCall, last,
  reCalls, reEdits>>
operationsVars == <<ops, deliveries, mappings, sends, migrated, mails, told, replies, faults>>
allVars == <<component, vars, dataVars, readsVars, accountsVars, recipientsVars, operationsVars>>

AllInit ==
  /\ component \in {"ledger", "data", "reads", "accounts", "recipients", "operations"}
  /\ Init
  /\ Data!Init /\ Reads!Init /\ Accts!Init /\ Sends!Init /\ Filed!Init
  \* one initial state of the component when it does not act
  /\ component # "recipients" => legacy = CHOOSE l \in Legacies : TRUE
  /\ component # "recipients" => reLoad = CHOOSE l \in SendLoads : TRUE

AllNext ==
  /\ UNCHANGED component
  /\ \/ component = "ledger" /\ Next /\ UNCHANGED <<dataVars, readsVars, accountsVars, recipientsVars, operationsVars>>
     \/ component = "data" /\ Data!Next /\ UNCHANGED <<vars, readsVars, accountsVars, recipientsVars, operationsVars>>
     \/ component = "reads" /\ Reads!Next /\ UNCHANGED <<vars, dataVars, accountsVars, recipientsVars, operationsVars>>
     \/ component = "accounts" /\ Accts!Next /\ UNCHANGED <<vars, dataVars, readsVars, recipientsVars, operationsVars>>
     \/ component = "recipients" /\ Sends!Next /\ UNCHANGED <<vars, dataVars, readsVars, accountsVars, operationsVars>>
     \/ component = "operations" /\ Filed!Next /\ UNCHANGED <<vars, dataVars, readsVars, accountsVars, recipientsVars>>

AllSpec == AllInit /\ [][AllNext]_allVars

-----------------------------------------------------------------------------
ASSUME RecordsAssumption ==
  /\ Data!DataAssumption /\ Reads!ReadsAssumption
  /\ Accts!AccountsAssumption /\ Sends!RecipientsAssumption /\ Filed!OperationsAssumption /\ Legacies # {} /\ SendLoads # {}

\* See the comments of these parts in the modules they come from; the other properties are those
\* of OutboundSafety, which this module extends.

\* An idempotency key inserts at most once, and what the migrations say holds of the schema.
DataSafety == component = "data" => Data!TypeOK /\ Data!KeyedOnce /\ Data!AppliedInEffect

\* The pages of a quiet read cover the table once, and the stored value is told beside an override.
ReadsSafety == component = "reads" => Reads!TypeOK /\ Reads!PagesCover /\ Reads!OriginalIsTold

\* The chosen account answers as the default, and the environment is imported once.
AccountsSafety == component = "accounts" => Accts!TypeOK /\ Accts!ChosenAnswers /\ Accts!ImportedOnce

\* Nobody is written to behind the policy, and replies stay in their thread.
RecipientsSafety ==
  component = "recipients" => Sends!TypeOK /\ Sends!NoneBehindThePolicy /\ Sends!StaysInThread

\* An answer is filed under the operation it answers, and names who sent it.
OperationsSafety ==
  component = "operations" => Filed!TypeOK /\ Filed!FiledWhereItBelongs /\ Filed!DirectAnswerNamesItsSender
=============================================================================
