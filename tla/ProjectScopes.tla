---------------------------- MODULE ProjectScopes ----------------------------
(***************************************************************************)
(* A project id and everything that refers to it, in three databases:      *)
(* jobs and execution profiles (scheduler_engine.py), knowledge items with *)
(* a project column and scope rows (knowledge_store.py,                    *)
(* knowledge_scopes.py), stored files (file_store.py); and the deletion    *)
(* that takes the id out of all of them (project_service.py).              *)
(* A caller checks that a project is active in one transaction and writes  *)
(* in another.  Saving an item takes several: update_item, get_item and    *)
(* sync_primary or set_scopes.  A deletion holds the scheduler's write     *)
(* reservation from its check to the deactivation, while the detaches of   *)
(* knowledge and files commit on their own.                                *)
(* A restored revision names the project it was saved with, deleted or    *)
(* not, and is checked after it was written.                               *)
(* There is one owner.  A scope row with no project is the Global scope;   *)
(* an item without any scope row is Unassigned.                            *)
(***************************************************************************)
EXTENDS Naturals, FiniteSets

CONSTANTS Callers,        \* worker threads
          Projects,       \* project ids
          Items,          \* knowledge items
          Files,          \* stored files
          Global,         \* project_id NULL in a column, '' in a scope row
          MaxRefs,        \* bound: jobs and execution profiles of one project
          Loads           \* bound: what the clients of one behaviour do

\* what is assumed of the constants; the module that instantiates them asserts it
ScopesAssumption ==
    /\ IsFiniteSet(Callers) /\ Items # {} /\ Files # {}
    /\ Global \notin Projects
    /\ MaxRefs \in Nat
    /\ \A d \in Loads : /\ d.callers \subseteq Callers /\ d.projects \subseteq Projects
                       /\ d.given \subseteq SUBSET (Projects \cup {Global})
                       /\ d.crash \in BOOLEAN

VARIABLES load,           \* the callers at work, the projects they create, the lists of scopes
                          \* they pass, and whether the process may end in the middle of a call
          status,         \* projects: unused, active or inactive
          refs,           \* rows of jobs and execution_profiles of each project
          kept,           \* ids in knowledge_items
          column,         \* knowledge_items.project_id
          revisions,      \* knowledge_revisions of each item: the projects they name
          scopes,         \* knowledge_item_scopes of each item
          primary,        \* those of them with is_primary
          audit,          \* latest knowledge_scope_audit action of each item
          files,          \* stored_files.project_id
          pc,             \* where each caller is
          call,           \* what it was given and what it has read
          restored        \* history: <<item, project>> that a restored revision wrote back when
                          \* the project was not active, and that no save has replaced since

knowledge == <<kept, column, revisions, scopes, primary, audit, restored>>
caller == <<pc, call>>
vars == <<load, status, refs, knowledge, files, caller>>

Columns == Projects \cup {Global}
Unset == {"no list of scopes"}
Deleting == {"deleting", "detaching", "detached", "filesDetached"}
Steps == {"idle", "jobChecked", "fileChecked", "createChecked", "updateChecked",
          "selected", "stored", "updated", "fetched"} \cup Deleting
Calls == [item : Items, file : Files, project : Columns, set : BOOLEAN,
          given : (SUBSET Columns) \cup {Unset}, ids : SUBSET Items, restore : BOOLEAN]
NoCall == [item |-> CHOOSE i \in Items : TRUE, file |-> CHOOSE f \in Files : TRUE,
           project |-> Global, set |-> FALSE, given |-> Unset, ids |-> {}, restore |-> FALSE]

\* Type correctness; only kept items have scope rows.
TypeOK ==
    /\ load \in Loads
    /\ status \in [Projects -> {"unused", "active", "inactive"}]
    /\ refs \in [Projects -> 0..MaxRefs]
    /\ kept \subseteq Items
    /\ column \in [Items -> Columns]
    /\ revisions \in [Items -> SUBSET Columns] /\ restored \subseteq Items \X Columns
    /\ scopes \in [Items -> SUBSET Columns]
    /\ primary \in [Items -> SUBSET Columns]
    /\ \A i \in Items : primary[i] \subseteq scopes[i] /\ (i \notin kept => scopes[i] = {})
    /\ audit \in [Items -> {"none", "primary_scope", "set_scopes", "kept_scopes", "unassigned"}]
    /\ files \in [Files -> Columns]
    /\ pc \in [Callers -> Steps]
    /\ call \in [Callers -> Calls]

Init ==
    /\ load \in Loads
    /\ status = [p \in Projects |-> "unused"]
    /\ refs = [p \in Projects |-> 0]
    /\ kept = {}
    /\ column = [i \in Items |-> Global]
    /\ revisions = [i \in Items |-> {}] /\ restored = {}
    /\ scopes = [i \in Items |-> {}]
    /\ primary = [i \in Items |-> {}]
    /\ audit = [i \in Items |-> "none"]
    /\ files = [f \in Files |-> Global]
    /\ pc = [c \in Callers |-> "idle"]
    /\ call = [c \in Callers |-> NoCall]

Idle(c) == pc[c] = "idle"
Starts(c, step, r) ==
    /\ Idle(c)
    /\ pc' = [pc EXCEPT ![c] = step]
    /\ call' = [call EXCEPT ![c] = r]
Goes(c, from, to) == pc[c] = from /\ pc' = [pc EXCEPT ![c] = to] /\ UNCHANGED call
Ends(c) == pc' = [pc EXCEPT ![c] = "idle"] /\ call' = [call EXCEPT ![c] = NoCall]

\* _require_project and _require_knowledge_scope: Global needs no project.
Usable(p) == p = Global \/ (p \in Projects /\ status[p] = "active")
----------------------------------------------------------------------------
(* The scheduler's database: one writer at a time. *)

WriterFree == \A c \in Callers : pc[c] \notin Deleting

\* An id is never reused: a deactivated project keeps its row.
CreateProject(c, p) ==
    /\ Idle(c) /\ WriterFree /\ status[p] = "unused"
    /\ status' = [status EXCEPT ![p] = "active"]
    /\ UNCHANGED <<load, refs, knowledge, files, caller>>

\* create_job and create_execution_profile: the project's SELECT, then the INSERT.
CreateJobChecks(c, p) ==
    /\ status[p] = "active"
    /\ refs[p] + Cardinality({d \in Callers : pc[d] = "jobChecked" /\ call[d].project = p}) < MaxRefs
    /\ Starts(c, "jobChecked", [NoCall EXCEPT !.project = p])
    /\ UNCHANGED <<load, status, refs, knowledge, files>>

CreateJobInsertsAny(c) ==
    /\ pc[c] = "jobChecked"
    /\ refs' = [refs EXCEPT ![call[c].project] = @ + 1]
    /\ Ends(c)
    /\ UNCHANGED <<load, status, knowledge, files>>

CreateJobInserts(c) ==
    LET p == call[c].project IN
    /\ pc[c] = "jobChecked" /\ WriterFree
    /\ refs' = [refs EXCEPT ![p] = @ + 1]
    /\ Ends(c)
    /\ UNCHANGED <<load, status, knowledge, files>>

DeleteJob(c, p) ==
    /\ Idle(c) /\ WriterFree /\ refs[p] > 0
    /\ refs' = [refs EXCEPT ![p] = @ - 1]
    /\ UNCHANGED <<load, status, knowledge, files, caller>>
----------------------------------------------------------------------------
(* Knowledge: KnowledgeStore._lock covers update_item, create_item and delete_item, *)
(* KnowledgeScopeStore._lock covers sync_primary, set_scopes and the detach.        *)

StoreFree == \A c \in Callers : pc[c] # "selected"
ScopesFree == \A c \in Callers : pc[c] # "detaching"

Allowed(g) == g = Unset \/ \A p \in g : Usable(p)

\* create_memory and create_skill, and import_knowledge of an item that is not there.
CreateChecks(c, i, p, g) ==
    /\ i \notin kept /\ Usable(p) /\ Allowed(g)
    /\ Starts(c, "createChecked", [NoCall EXCEPT !.item = i, !.project = p, !.set = TRUE, !.given = g])
    /\ UNCHANGED <<load, status, refs, knowledge, files>>

CreateInserts(c) ==
    LET i == call[c].item IN
    /\ pc[c] = "createChecked" /\ StoreFree
    /\ IF i \in kept
       THEN Ends(c) /\ UNCHANGED knowledge
       ELSE /\ kept' = kept \cup {i}
            /\ column' = [column EXCEPT ![i] = call[c].project]
            /\ revisions' = [revisions EXCEPT ![i] = @ \cup {call[c].project}]
            /\ Goes(c, "createChecked", "stored")
            /\ UNCHANGED <<scopes, primary, audit, restored>>
    /\ UNCHANGED <<load, status, refs, files>>

\* update_memory, update_skill and the WebGUI's save: without a project the item's own is checked.
UpdateChecks(c, i, p, set, g) ==
    /\ i \in kept /\ Usable(IF set THEN p ELSE column[i]) /\ Allowed(g)
    /\ Starts(c, "updateChecked",
              [NoCall EXCEPT !.item = i, !.project = IF set THEN p ELSE Global, !.set = set, !.given = g])
    /\ UNCHANGED <<load, status, refs, knowledge, files>>

\* restore_knowledge_revision names the project of a revision, and checks nothing yet.
RestoreReads(c, i, p) ==
    /\ p \in revisions[i]
    /\ Starts(c, "updateChecked", [NoCall EXCEPT !.item = i, !.project = p, !.set = TRUE, !.restore = TRUE])
    /\ UNCHANGED <<load, status, refs, knowledge, files>>

\* update_item: the row is read and written under the store's lock; the revision it saves is read again
\* by restorations, and outlives the item.
UpdateSelects(c) ==
    LET i == call[c].item IN
    /\ pc[c] = "updateChecked" /\ StoreFree
    /\ IF i \notin kept
       THEN Ends(c)
       ELSE /\ pc' = [pc EXCEPT ![c] = "selected"]
            /\ call' = [call EXCEPT ![c].project = IF call[c].set THEN @ ELSE column[i]]
    /\ UNCHANGED <<load, status, refs, knowledge, files>>

UpdateWrites(c) ==
    LET i == call[c].item
        p == call[c].project IN
    /\ Goes(c, "selected", "stored")
    /\ column' = [column EXCEPT ![i] = p]
    /\ revisions' = [revisions EXCEPT ![i] = @ \cup {p}]
    /\ restored' = IF call[c].restore /\ ~Usable(p) THEN restored \cup {<<i, p>>} ELSE restored
    /\ UNCHANGED <<load, status, refs, kept, scopes, primary, audit, files>>

\* get_item after the write: the project that goes into the scope rows is the one read here.
Fetch(c) ==
    LET i == call[c].item IN
    /\ pc[c] = "stored"
    /\ IF i \notin kept
       THEN Ends(c)
       ELSE /\ pc' = [pc EXCEPT ![c] = IF call[c].restore THEN "updated" ELSE "fetched"]
            /\ call' = [call EXCEPT ![c].project = column[i]]
    /\ UNCHANGED <<load, status, refs, knowledge, files>>

\* A restoration checks the project only now: what it wrote stays, and the scope rows are left as they were.
RestoreRequires(c) ==
    /\ IF Usable(call[c].project) THEN Goes(c, "updated", "fetched") ELSE pc[c] = "updated" /\ Ends(c)
    /\ UNCHANGED <<load, status, refs, knowledge, files>>

\* _apply_scopes: sync_primary replaces the primary rows, set_scopes all of them.
Apply(c) ==
    LET i == call[c].item
        p == call[c].project
        g == call[c].given IN
    /\ pc[c] = "fetched" /\ ScopesFree
    /\ IF i \notin kept
       THEN UNCHANGED <<scopes, primary, audit, restored>>
       ELSE /\ scopes' = [scopes EXCEPT ![i] = {p} \cup IF g = Unset THEN @ \ primary[i] ELSE g]
            /\ primary' = [primary EXCEPT ![i] = {p}]
            /\ audit' = [audit EXCEPT ![i] = IF g = Unset THEN "primary_scope" ELSE "set_scopes"]
            /\ restored' = {r \in restored : r[1] = i => r[2] \in scopes'[i]}
    /\ Ends(c)
    /\ UNCHANGED <<load, status, refs, kept, column, revisions, files>>

\* delete_item: the scope rows go with the item, the audit and the revisions stay.
DeleteItem(c, i) ==
    /\ Idle(c) /\ StoreFree /\ i \in kept
    /\ kept' = kept \ {i}
    /\ column' = [column EXCEPT ![i] = Global]
    /\ scopes' = [scopes EXCEPT ![i] = {}]
    /\ primary' = [primary EXCEPT ![i] = {}]
    /\ restored' = {r \in restored : r[1] # i}
    /\ UNCHANGED <<load, status, refs, revisions, audit, files, caller>>
----------------------------------------------------------------------------
(* Files: the scope is checked, the bytes are fetched and written, then the row. *)

SaveFileChecks(c, f, p) ==
    /\ Usable(p)
    /\ Starts(c, "fileChecked", [NoCall EXCEPT !.file = f, !.project = p])
    /\ UNCHANGED <<load, status, refs, knowledge, files>>

SaveFileInserts(c) ==
    /\ pc[c] = "fileChecked"
    /\ files' = [files EXCEPT ![call[c].file] = call[c].project]
    /\ Ends(c)
    /\ UNCHANGED <<load, status, refs, knowledge>>
----------------------------------------------------------------------------
(* ProjectService.delete *)

\* BEGIN IMMEDIATE, then the checks.
DeleteBegins(c, p) ==
    /\ WriterFree /\ status[p] = "active" /\ refs[p] = 0
    /\ Starts(c, "deleting", [NoCall EXCEPT !.project = p])
    /\ UNCHANGED <<load, status, refs, knowledge, files>>

\* _detach_knowledge selects the items under the scope store's lock ...
Affected(p) == {i \in kept : p \in scopes[i] \/ column[i] = p}

DetachReads(c) ==
    /\ pc[c] = "deleting"
    /\ pc' = [pc EXCEPT ![c] = "detaching"]
    /\ call' = [call EXCEPT ![c].ids = Affected(call[c].project)]
    /\ UNCHANGED <<load, status, refs, knowledge, files>>

\* Scope rows are ordered by is_primary, then by project id, and '' comes first.
Heirs(i, rest) ==
    LET best == IF rest \cap primary[i] # {} THEN rest \cap primary[i] ELSE rest IN
    IF rest = {} \/ Global \in best THEN {Global} ELSE best

\* What the row of an item becomes, h being the first of the scopes that remain.
DetachKeepsColumn(i, rest, h) ==
    IF rest = {} THEN [column |-> Global, primary |-> {}, audit |-> "unassigned"]
    ELSE [column |-> column[i], primary |-> {h}, audit |-> "kept_scopes"]

DetachOne(i, rest, h) ==
    IF rest = {} THEN [column |-> Global, primary |-> {}, audit |-> "unassigned"]
    ELSE [column |-> h, primary |-> {h}, audit |-> "kept_scopes"]

\* ... and takes the project out of each of them in one transaction of its own.
Detach(c) ==
    LET ids == call[c].ids
        rest == [i \in Items |-> scopes[i] \ {call[c].project}] IN
    /\ Goes(c, "detaching", "detached")
    /\ \E heir \in [ids -> Columns] :
          /\ \A i \in ids : heir[i] \in Heirs(i, rest[i])
          /\ LET new == [i \in ids |-> DetachOne(i, rest[i], heir[i])] IN
             /\ column' = [i \in Items |-> IF i \in ids THEN new[i].column ELSE column[i]]
             /\ scopes' = [i \in Items |-> IF i \in ids THEN rest[i] ELSE scopes[i]]
             /\ primary' = [i \in Items |-> IF i \in ids THEN new[i].primary ELSE primary[i]]
             /\ audit' = [i \in Items |-> IF i \in ids THEN new[i].audit ELSE audit[i]]
    /\ UNCHANGED <<load, status, refs, kept, revisions, restored, files>>

DetachFilesLater(c) ==
    /\ Goes(c, "detached", "filesDetached")
    /\ UNCHANGED <<load, status, refs, knowledge, files>>

DetachFiles(c) ==
    /\ Goes(c, "detached", "filesDetached")
    /\ files' = [f \in Files |-> IF files[f] = call[c].project THEN Global ELSE files[f]]
    /\ UNCHANGED <<load, status, refs, knowledge>>

Deactivate(c) ==
    /\ pc[c] = "filesDetached"
    /\ status' = [status EXCEPT ![call[c].project] = "inactive"]
    /\ Ends(c)
    /\ UNCHANGED <<load, refs, knowledge, files>>

\* A detach raises: the scheduler's transaction is rolled back, what was detached stays so.
DeleteFails(c) ==
    /\ pc[c] \in Deleting
    /\ Ends(c)
    /\ UNCHANGED <<load, status, refs, knowledge, files>>
----------------------------------------------------------------------------
\* KnowledgeScopeStore._init_schema gives every item a row for its column, and a primary row if
\* it has none; then install_project_scope_semantics takes the Global row back from the items
\* whose latest audit says they became Unassigned.
IsUnassigned(i) == audit[i] = "unassigned" /\ column[i] = Global

Backfilled(i) == scopes[i] \cup {column[i]}
BackfilledPrimary(i) ==
    IF column[i] \notin scopes[i] \/ primary[i] = {} THEN primary[i] \cup {column[i]} ELSE primary[i]

RestartBackfillsAll ==
    /\ load.crash \/ \A c \in Callers : Idle(c)
    /\ scopes' = [i \in Items |-> IF i \in kept THEN Backfilled(i) ELSE {}]
    /\ primary' = [i \in Items |-> IF i \in kept THEN BackfilledPrimary(i) ELSE {}]
    /\ pc' = [c \in Callers |-> "idle"]
    /\ call' = [c \in Callers |-> NoCall]
    /\ UNCHANGED <<load, status, refs, kept, column, revisions, audit, restored, files>>

Restart ==
    /\ load.crash \/ \A c \in Callers : Idle(c)
    /\ scopes' = [i \in Items |-> IF i \notin kept THEN {}
                                  ELSE IF IsUnassigned(i) THEN Backfilled(i) \ {Global} ELSE Backfilled(i)]
    /\ primary' = [i \in Items |-> IF i \notin kept THEN {}
                                   ELSE BackfilledPrimary(i) \cap scopes'[i]]
    /\ pc' = [c \in Callers |-> "idle"]
    /\ call' = [c \in Callers |-> NoCall]
    /\ UNCHANGED <<load, status, refs, kept, column, revisions, audit, restored, files>>

UsedColumns == load.projects \cup {Global}

Saves(c) ==
    \/ \E i \in Items :
          \/ \E p \in UsedColumns, g \in load.given \cup {Unset} :
                CreateChecks(c, i, p, g) \/ \E set \in BOOLEAN : UpdateChecks(c, i, p, set, g)
          \/ DeleteItem(c, i) \/ \E p \in Columns : RestoreReads(c, i, p)
    \/ CreateInserts(c) \/ UpdateSelects(c) \/ UpdateWrites(c) \/ Fetch(c) \/ RestoreRequires(c) \/ Apply(c)
    \/ \E f \in Files, p \in UsedColumns : SaveFileChecks(c, f, p)
    \/ SaveFileInserts(c)

Deletes(c) ==
    \/ \E p \in load.projects : DeleteBegins(c, p)
    \/ DetachReads(c) \/ Detach(c) \/ DetachFiles(c) \/ Deactivate(c) \/ DeleteFails(c)

Next ==
    \/ \E c \in load.callers :
          \/ \E p \in load.projects : CreateProject(c, p) \/ CreateJobChecks(c, p) \/ DeleteJob(c, p)
          \/ CreateJobInserts(c) \/ Saves(c) \/ Deletes(c)
    \/ Restart

Spec == Init /\ [][Next]_vars
----------------------------------------------------------------------------
\* While a project is being deleted nothing refers to it and it is still active: BEGIN IMMEDIATE
\* keeps every other writer of the scheduler's database out from the check to the deactivation.
DeletionExcludesReferences ==
    \A c \in Callers : pc[c] \in Deleting =>
        /\ status[call[c].project] = "active" /\ refs[call[c].project] = 0
        /\ \A d \in Callers \ {c} : pc[d] \notin Deleting

\* An item that a deletion left Unassigned stays so, across restarts too, until it is saved:
\* the backfill that gives every item a scope row must not make it Global.
Unassigned(i) == i \in kept /\ scopes[i] = {} /\ IsUnassigned(i)

UnassignedStays ==
    [][\A i \in kept \cap kept' : Unassigned(i) =>
          \/ Unassigned(i)'
          \/ \E c \in Callers : call[c].item = i /\ (UpdateWrites(c) \/ Apply(c))]_vars

Alone == Cardinality(load.callers) = 1

\* A project that one caller deleted is referred to by nothing: no job, no profile, no file, and no
\* knowledge but the items into which a revision that names it was restored since; however many
\* deletions failed half-way before.
DeletedIsDetached ==
    Alone => \A p \in Projects : status[p] = "inactive" =>
        /\ refs[p] = 0
        /\ \A i \in Items : column[i] = p \/ p \in scopes[i] => <<i, p>> \in restored
        /\ \A f \in Files : files[f] # p

\* Jobs and profiles belong to active projects.
NoDanglingReference == \A p \in Projects : refs[p] > 0 => status[p] = "active"

\* One caller, nothing crashing in the middle: an item at rest is Unassigned, or has one primary
\* scope and that is its column: lists filter by the rows, permissions and revisions by the
\* column.  A restoration that was refused after its write leaves them apart.
PrimaryAgrees ==
    (Alone /\ ~load.crash /\ \A c \in Callers : Idle(c)) =>
        \A i \in kept : i \in {r[1] : r \in restored} \/ Unassigned(i) \/ (primary[i] = {column[i]} /\ column[i] \in scopes[i])
=============================================================================
