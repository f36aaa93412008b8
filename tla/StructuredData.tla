--------------------------- MODULE StructuredData ---------------------------
(***************************************************************************)
(* The typed tables of one project (structured_data_v980.py): schema, rows, *)
(* indexes, migrations, and the audit trail and idempotency table that each *)
(* mutation writes in its own transaction.  A mutation is one BEGIN         *)
(* IMMEDIATE transaction, so it is one action; a row import without conflict *)
(* columns is one transaction per row and may stop between two of them.     *)
(*                                                                         *)
(* A column is always declared as Column gives it.  A row keeps Null  *)
(* where it has no value.  Of the audit trail only this is kept: whether    *)
(* the newest event of a row tells what became of the row since.            *)
(***************************************************************************)
EXTENDS Integers, Sequences, FiniteSets, SequencesExt

CONSTANTS Tables, Columns, Values, Null,
          Column,           \* what a declaration says of each column
          Keys, NoKey,      \* idempotency keys of callers
          MatchLimit,       \* LIMIT of _matching_rows
          MaxRows,          \* bound: row ids ever allocated per behaviour
          MaxRecords,       \* bound: migrations, overrides, links and views together
          Given,            \* what callers insert: partial rows
          Batches,          \* what callers upsert and import: sequences of rows
          MaxBatch,         \* bound: rows of a batch
          ConflictColumns,  \* what callers name as conflict column
          Plans             \* what callers migrate: sequences of operations

VARIABLES schema,     \* [table -> its columns], {} before create_table
          indexes,    \* [table -> columns under a unique index]
          rows,       \* [id -> row or NoRow]
          trail,      \* [id -> what the newest audit event says of the row]
          done,       \* [key -> the operation stored with its result, or NoOp]
          inserted,   \* history: [key -> ids inserted under it]
          attached,   \* overrides of a cell, memory links of a row, saved views of a table
          migrations, \* every migration recorded, in sequence
          importing   \* the row import under way

vars == <<schema, indexes, rows, trail, done, inserted, attached, migrations, importing>>

Ids == 1 .. MaxRows
\* Index 0 is the key itself, i the key of the i-th row of an import.
AllKeys == Keys \X (0 .. MaxBatch)
CallKeys == (Keys \cup {NoKey}) \X {0}
Kinds == {"insert", "update", "delete", "upsert"}
NoRow == [table |-> Null]
NoOp == [kind |-> "none"]
Events == {"none", "present", "deleted", "stale"}
NotImporting == [at |-> 0]

Cells == Values \cup {Null}

\* A row as callers give it: some of the columns.
Partial(given) == DOMAIN given \subseteq Columns /\ given \in [DOMAIN given -> Cells]

DataAssumption ==
    /\ Null \notin Tables /\ Null \notin Values /\ NoKey \notin Keys
    /\ MatchLimit \in Nat /\ MaxRows \in Nat /\ MaxRecords \in Nat /\ MaxBatch \in Nat
    /\ \A c \in Columns :
          /\ Column[c].required \in BOOLEAN /\ Column[c].unique \in BOOLEAN
          /\ Column[c].default \in Cells /\ Column[c].allowed \subseteq Cells
    /\ \A given \in Given : Partial(given)
    /\ \A batch \in Batches :
          /\ batch \in Seq({batch[i] : i \in DOMAIN batch}) /\ Len(batch) <= MaxBatch
          /\ \A i \in DOMAIN batch : Partial(batch[i])
    /\ \A plan \in Plans :
          /\ plan \in Seq([action : {"add_column", "create_index", "drop_column"}, table : Tables, column : Columns])

TypeOK ==
    /\ schema \in [Tables -> SUBSET Columns]
    /\ indexes \in [Tables -> SUBSET Columns]
    /\ \A id \in Ids : rows[id] = NoRow
          \/ /\ rows[id].table \in Tables
             /\ rows[id].cells \in [Columns -> Cells]
    /\ trail \in [Ids -> Events]
    /\ \A k \in AllKeys : done[k].kind \in {"none"} \cup Kinds
    /\ inserted \in [AllKeys -> SUBSET Ids]
    /\ Len(migrations) + Cardinality(attached) <= MaxRecords
    /\ importing.at \in 0 .. MaxBatch

Init ==
    /\ schema = [t \in Tables |-> {}]
    /\ indexes = [t \in Tables |-> {}]
    /\ rows = [id \in Ids |-> NoRow]
    /\ trail = [id \in Ids |-> "none"]
    /\ done = [k \in AllKeys |-> NoOp]
    /\ inserted = [k \in AllKeys |-> {}]
    /\ attached = {}
    /\ migrations = <<>>
    /\ importing = NotImporting

-----------------------------------------------------------------------------
(* Helpers of the mutations. *)

Recordable == Len(migrations) + Cardinality(attached) < MaxRecords

\* What a new row holds: the value given, else the default, else nothing.
Payload(t, given) ==
    [c \in Columns |-> CASE c \in DOMAIN given -> given[c]
                         [] c \in schema[t] \ DOMAIN given -> Column[c].default
                         [] OTHER -> Null]

\* The checks of insert on the payload; upsert omits the last one.
Declared(t, given) == DOMAIN given \subseteq schema[t]
Allowed(t, given) ==
    \A c \in schema[t] :
       LET v == Payload(t, given)[c] IN
       (c \in DOMAIN given \/ v # Null) =>
          Column[c].allowed = {} \/ v \in Column[c].allowed

\* The constraints SQLite enforces on the physical table.
UniqueColumns(t) == indexes[t] \cup {c \in schema[t] : Column[c].unique}
Fits(t, table) ==
    /\ \A id \in Ids : table[id].table = t =>
          \A c \in schema[t] : Column[c].required => table[id].cells[c] # Null
    /\ \A i, j \in Ids : i # j /\ table[i].table = t /\ table[j].table = t =>
          \A c \in UniqueColumns(t) :
             table[i].cells[c] = table[j].cells[c] => table[i].cells[c] = Null

\* The cells of a row with some of them set.
With(given, cells) == [c \in Columns |-> IF c \in DOMAIN given THEN given[c] ELSE cells[c]]

\* Rows of t whose column c holds v, and the part of them that _matching_rows sees.
Matches(table, t, c, v) ==
    {id \in Ids : table[id].table = t /\ table[id].cells[c] = v}
Seen(ids) == {id \in ids : Cardinality({i \in ids : i < id}) < MatchLimit}

Free(events) == {id \in Ids : events[id] = "none"}
Fresh(events) == CHOOSE id \in Free(events) : \A i \in Free(events) : id <= i

\* The trail after a write that changed rows and audited some of them.
Told(before, after, audited, events) ==
    [id \in Ids |-> CASE id \in audited -> IF after[id] = NoRow THEN "deleted" ELSE "present"
                      [] id \notin audited /\ after[id] # before[id] -> "stale"
                      [] OTHER -> events[id]]

\* The idempotency table answers a key it knows with the stored result.
Unknown(k) == k \in AllKeys => done[k] = NoOp
Remember(k, kind, t) ==
    done' = IF k \notin AllKeys THEN done ELSE [done EXCEPT ![k] = [kind |-> kind, table |-> t]]
Credit(k, ids) ==
    inserted' = IF k \notin AllKeys THEN inserted ELSE [inserted EXCEPT ![k] = @ \cup ids]

-----------------------------------------------------------------------------
(* Schema. *)

CreateTable(t, cs) ==
    /\ cs # {}
    /\ schema[t] = {}
    /\ schema' = [schema EXCEPT ![t] = cs]
    /\ UNCHANGED <<indexes, rows, trail, done, inserted, attached, migrations, importing>>

\* A column that can be added to a table with rows.
Addable(t, c) ==
    /\ schema[t] # {}
    /\ c \notin schema[t]
    /\ ~Column[c].unique
    /\ Column[c].required => Column[c].default # Null

\* Existing rows read the default of a column added later.
WithColumn(t, c) ==
    [id \in Ids |-> IF rows[id].table = t
                    THEN [rows[id] EXCEPT !.cells[c] = Column[c].default]
                    ELSE rows[id]]

AddColumn(t, c) ==
    /\ Addable(t, c)
    /\ schema' = [schema EXCEPT ![t] = @ \cup {c}]
    /\ rows' = WithColumn(t, c)
    /\ UNCHANGED <<indexes, trail, done, inserted, attached, migrations, importing>>

\* CREATE UNIQUE INDEX fails on a name in use and on rows that repeat a value.
Indexable(t, c) ==
    /\ c \in schema[t] \ indexes[t]
    /\ \A v \in Values : Cardinality(Matches(rows, t, c, v)) <= 1

CreateIndex(t, c) ==
    /\ Indexable(t, c)
    /\ indexes' = [indexes EXCEPT ![t] = @ \cup {c}]
    /\ UNCHANGED <<schema, rows, trail, done, inserted, attached, migrations, importing>>

-----------------------------------------------------------------------------
(* Rows.  A call whose key is known changes nothing and is no action. *)

\* insert without the look-up of its key.
InsertRowAgain(t, given, k) ==
    /\ schema[t] # {}
    /\ Declared(t, given)
    /\ Allowed(t, given)
    /\ Free(trail) # {}
    /\ LET id == Fresh(trail) IN
       /\ rows' = [rows EXCEPT ![id] = [table |-> t, cells |-> Payload(t, given)]]
       /\ Fits(t, rows')
       /\ trail' = [trail EXCEPT ![id] = "present"]
       /\ Credit(k, {id})
    /\ Remember(k, "insert", t)

InsertRow(t, given, k) ==
    /\ Unknown(k)
    /\ schema[t] # {}
    /\ Declared(t, given)
    /\ Allowed(t, given)
    /\ Free(trail) # {}
    /\ LET id == Fresh(trail) IN
       /\ rows' = [rows EXCEPT ![id] = [table |-> t, cells |-> Payload(t, given)]]
       /\ Fits(t, rows')
       /\ trail' = [trail EXCEPT ![id] = "present"]
       /\ Credit(k, {id})
    /\ Remember(k, "insert", t)

Insert(t, given, k) ==
    /\ InsertRow(t, given, k)
    /\ UNCHANGED <<schema, indexes, attached, migrations, importing>>

Update(t, c, v, given, k) ==
    /\ Unknown(k)
    /\ DOMAIN given # {}
    /\ Declared(t, given)
    /\ c \in schema[t]
    /\ LET hit == Matches(rows, t, c, v) IN
       /\ rows' = [id \in Ids |->
                     IF id \in hit
                     THEN [rows[id] EXCEPT !.cells = With(given, @)]
                     ELSE rows[id]]
       /\ Fits(t, rows')
       /\ trail' = Told(rows, rows', Seen(hit), trail)
    /\ Remember(k, "update", t)
    /\ UNCHANGED <<schema, indexes, inserted, attached, migrations, importing>>

\* The confirmed call; without confirm the handler only returns a preview.
Delete(t, c, v, k) ==
    /\ Unknown(k)
    /\ c \in schema[t]
    /\ LET hit == Matches(rows, t, c, v) IN
       /\ rows' = [id \in Ids |-> IF id \in hit THEN NoRow ELSE rows[id]]
       /\ trail' = Told(rows, rows', Seen(hit), trail)
    /\ Remember(k, "delete", t)
    /\ UNCHANGED <<schema, indexes, inserted, attached, migrations, importing>>

\* One row of an upsert: the UPDATE takes every row that matches, which for Null
\* are those without a value, the audit takes the one that was read.
UpsertRow(t, c, st, given) ==
    LET hit == Matches(st.rows, t, c, given[c])
        first == CHOOSE id \in hit : \A i \in hit : id <= i
        next == Fresh(st.trail)
    IN  IF hit # {}
        THEN LET changed == [id \in Ids |->
                               IF id \in hit
                               THEN [st.rows[id] EXCEPT !.cells = With(given, @)]
                               ELSE st.rows[id]]
             IN  [st EXCEPT !.rows = changed,
                            !.trail = Told(st.rows, changed, {first}, @)]
        ELSE IF Free(st.trail) = {} THEN [st EXCEPT !.ok = FALSE]
        ELSE [st EXCEPT
               !.rows[next] = [table |-> t, cells |-> Payload(t, given)],
               !.trail[next] = "present",
               !.new = @ \cup {next}]

\* What the row leaves must fit the constraints.
UpsertStep(t, c, st, given) ==
    LET after == UpsertRow(t, c, st, given)
    IN  [after EXCEPT !.ok = @ /\ Fits(t, after.rows)]

Upsert(t, batch, c, k) ==
    /\ Unknown(k)
    /\ c \in schema[t]
    /\ \A i \in DOMAIN batch : Declared(t, batch[i]) /\ c \in DOMAIN batch[i]
    /\ LET end == FoldLeft(LAMBDA st, given : UpsertStep(t, c, st, given),
                           [rows |-> rows, trail |-> trail, new |-> {}, ok |-> TRUE], batch)
       IN  /\ end.ok
           /\ rows' = end.rows
           /\ trail' = end.trail
           /\ Credit(k, end.new)
    /\ Remember(k, "upsert", t)
    /\ UNCHANGED <<schema, indexes, attached, migrations, importing>>

-----------------------------------------------------------------------------
(* What points at rows and columns.  None of it changes a stored row, and the *)
(* deletion of a row does not remove it.                                     *)

Attach(item) ==
    /\ Recordable
    /\ attached' = attached \cup {item}
    /\ UNCHANGED <<schema, indexes, rows, trail, done, inserted, migrations, importing>>

SetOverride(id, c) ==
    /\ rows[id] # NoRow
    /\ c \in schema[rows[id].table]
    /\ Attach([kind |-> "override", table |-> rows[id].table, row |-> id, column |-> c])

LinkMemory(id) ==
    /\ rows[id] # NoRow
    /\ Attach([kind |-> "memory", table |-> rows[id].table, row |-> id])

CreateView(t) ==
    /\ schema[t] # {}
    /\ Attach([kind |-> "view", table |-> t])

-----------------------------------------------------------------------------
(* A row import: insert after insert, each with a key of its own. *)

ImportKey == <<importing.key, importing.at>>

ImportBegins(t, batch, k) ==
    /\ importing = NotImporting
    /\ schema[t] # {}
    /\ batch # <<>>
    /\ importing' = [at |-> 1, table |-> t, batch |-> batch, key |-> k]
    /\ UNCHANGED <<schema, indexes, rows, trail, done, inserted, attached, migrations>>

Advance ==
    importing' = IF importing.at = Len(importing.batch)
                 THEN NotImporting
                 ELSE [importing EXCEPT !.at = @ + 1]

ImportRow ==
    /\ importing # NotImporting
    /\ InsertRow(importing.table, importing.batch[importing.at], ImportKey)
    /\ Advance
    /\ UNCHANGED <<schema, indexes, attached, migrations>>

\* The key was used by an earlier attempt: the stored result counts as inserted.
ImportReplays ==
    /\ importing # NotImporting
    /\ ~Unknown(ImportKey)
    /\ done[ImportKey].table = importing.table
    /\ Advance
    /\ UNCHANGED <<schema, indexes, rows, trail, done, inserted, attached, migrations>>

\* A row is refused, or the process dies: the rows before it stay.
ImportStops ==
    /\ importing # NotImporting
    /\ importing' = NotImporting
    /\ UNCHANGED <<schema, indexes, rows, trail, done, inserted, attached, migrations>>

-----------------------------------------------------------------------------
(* Migrations: a plan is a sequence of operations, applied in one transaction. *)

Planned(plan, status) ==
    migrations' = Append(migrations, [plan |-> plan, status |-> status])

\* Anything but the two safe actions is recorded and never executed.
PlanMigration(plan) ==
    /\ Recordable
    /\ plan # <<>>
    /\ \E status \in {"planned", "review"} :
          /\ status = "review" => \E i \in DOMAIN plan : plan[i].action = "drop_column"
          /\ Planned(plan, status)
    /\ UNCHANGED <<schema, indexes, rows, trail, done, inserted, attached, importing>>

\* Columns first or indexes first: an operation sees what the earlier ones did.
Before(plan, i, action, t) ==
    {plan[j].column : j \in {j \in 1 .. i - 1 : plan[j].action = action /\ plan[j].table = t}}

ApplyMigration(plan) ==
    /\ Recordable
    /\ plan # <<>>
    /\ \A i \in DOMAIN plan :
          LET o == plan[i] IN
          \/ /\ o.action = "add_column"
             /\ Addable(o.table, o.column)
             /\ o.column \notin Before(plan, i, "add_column", o.table)
          \/ /\ o.action = "create_index"
             /\ o.column \notin Before(plan, i, "create_index", o.table)
             /\ \/ Indexable(o.table, o.column)
                \/ /\ o.column \in Before(plan, i, "add_column", o.table)
                   /\ \/ Column[o.column].default = Null
                      \/ Cardinality({id \in Ids : rows[id].table = o.table}) <= 1
    /\ LET end == Len(plan) + 1
           added(t) == Before(plan, end, "add_column", t) IN
       /\ schema' = [t \in Tables |-> schema[t] \cup added(t)]
       /\ rows' = [id \in Ids |->
                     IF rows[id] = NoRow THEN NoRow
                     ELSE [rows[id] EXCEPT !.cells =
                             With([c \in added(rows[id].table) |-> Column[c].default], @)]]
       /\ indexes' = [t \in Tables |-> indexes[t] \cup Before(plan, end, "create_index", t)]
    /\ Planned(plan, "applied")
    /\ UNCHANGED <<trail, done, inserted, attached, importing>>

\* A rollback that does not look at the status.
RollbackAgain(m) ==
    /\ migrations[m].status \in {"applied", "rolled_back"}
    /\ \A i \in DOMAIN migrations[m].plan : migrations[m].plan[i].action = "create_index"
    /\ indexes' = [t \in Tables |->
                     indexes[t] \ Before(migrations[m].plan, Len(migrations[m].plan) + 1,
                                         "create_index", t)]
    /\ migrations' = [migrations EXCEPT ![m].status = "rolled_back"]
    /\ UNCHANGED <<schema, rows, trail, done, inserted, attached, importing>>

\* A rollback drops indexes; one that would drop a column is refused whole.
RollbackMigration(m) ==
    /\ migrations[m].status = "applied"
    /\ \A i \in DOMAIN migrations[m].plan : migrations[m].plan[i].action = "create_index"
    /\ indexes' = [t \in Tables |->
                     indexes[t] \ Before(migrations[m].plan, Len(migrations[m].plan) + 1,
                                         "create_index", t)]
    /\ migrations' = [migrations EXCEPT ![m].status = "rolled_back"]
    /\ UNCHANGED <<schema, rows, trail, done, inserted, attached, importing>>

-----------------------------------------------------------------------------
Next ==
    \/ \E t \in Tables, cs \in SUBSET Columns : CreateTable(t, cs)
    \/ \E t \in Tables, c \in Columns : AddColumn(t, c) \/ CreateIndex(t, c)
    \/ \E t \in Tables, given \in Given, k \in CallKeys : Insert(t, given, k)
    \/ \E t \in Tables, c \in Columns, v \in Values, k \in CallKeys :
          \/ Delete(t, c, v, k)
          \/ \E d \in Columns, w \in Cells : Update(t, c, v, [e \in {d} |-> w], k)
    \/ \E t \in Tables, batch \in Batches, k \in CallKeys :
          \/ ImportBegins(t, batch, k[1])
          \/ \E c \in ConflictColumns : Upsert(t, batch, c, k)
    \/ \E id \in Ids, c \in Columns : SetOverride(id, c)
    \/ \E id \in Ids : LinkMemory(id)
    \/ \E t \in Tables : CreateView(t)
    \/ ImportRow \/ ImportReplays \/ ImportStops
    \/ \E plan \in Plans : PlanMigration(plan) \/ ApplyMigration(plan)
    \/ \E m \in DOMAIN migrations : RollbackMigration(m)

Spec == Init /\ [][Next]_vars

-----------------------------------------------------------------------------
(* A replayed key performs its mutation at most once, and a keyed import that *)
(* was interrupted and retried has inserted each row before its position      *)
(* exactly once (_idempotent_get, import_rows).                               *)
KeyedOnce ==
    /\ \A k \in AllKeys :
          /\ done[k].kind = "insert" => Cardinality(inserted[k]) = 1
          /\ inserted[k] # {} => done[k].kind \in {"insert", "upsert"}
    /\ importing # NotImporting /\ importing.key # NoKey =>
          \A i \in 1 .. importing.at - 1 :
             Cardinality(inserted[<<importing.key, i>>]) = 1

(* What an applied migration declares or indexes stays in effect until its own *)
(* rollback, and everything that names a column or a row names one that was    *)
(* declared or inserted (create_migration, rollback_migration, set_override).  *)
AppliedInEffect ==
    /\ \A m \in DOMAIN migrations : migrations[m].status = "applied" =>
          \A i \in DOMAIN migrations[m].plan :
             LET o == migrations[m].plan[i] IN
             /\ o.column \in schema[o.table]
             /\ o.action = "create_index" => o.column \in indexes[o.table]
    /\ \A t \in Tables : indexes[t] \subseteq schema[t]
    /\ \A a \in attached :
          /\ schema[a.table] # {}
          /\ a.kind = "override" => a.column \in schema[a.table]
          /\ a.kind # "view" => trail[a.row] # "none"

(* docs/structured-data-v980.md: mutations append audit events with the row's *)
(* identity and payload.  So the newest event of a row says whether the row    *)
(* is there and what its cells are.                                            *)
AuditTellsRows ==
    \A id \in Ids : /\ trail[id] # "stale"
                    /\ trail[id] = "present" <=> rows[id] # NoRow
=============================================================================
