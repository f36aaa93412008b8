--------------------------- MODULE KnowledgeIndex ---------------------------
(***************************************************************************)
(* A memory or skill, its revisions, and the index a search reads          *)
(* (knowledge_store.py, context_engine.py, semantic_engine.py, the tools   *)
(* of runtime_v960_knowledge.py).  A save rewrites the item, its chunks    *)
(* and its newest revision in one transaction; vectors are computed        *)
(* outside any transaction and written chunk by chunk, under a chunk id    *)
(* that the next save of the item uses again.  Restoring a revision reads  *)
(* it in one transaction and saves in another.  Scope rows beside the      *)
(* project column are in ProjectScopes.                                    *)
(***************************************************************************)
EXTENDS Integers, Sequences, FiniteSets

CONSTANTS
  Callers,
  Items,          \* ids
  Texts,          \* title, content and tags
  Pieces,         \* by text, the number of chunks _chunk_text cuts it into
  Projects,
  Global,         \* project_id NULL
  MaxRevision,    \* bound: revisions of one item
  MaxCalls,       \* bound: calls of tools
  MaxDeleted      \* bound: projects deleted

\* what is assumed of the constants; the module that instantiates them asserts it
IndexAssumption == Pieces \in [Texts -> Nat] /\ MaxRevision \in Nat \ {0}

VARIABLES
  item,         \* knowledge_items, or NoItem
  chunks,       \* knowledge_chunks in order: [text, part, vector]
  history,      \* knowledge_revisions of an id: revision -> snapshot
  active,       \* the projects _require_knowledge_scope lets pass
  loaded,       \* SemanticEngine._model is there
  call,         \* what each caller is doing
  overlapped,   \* history: ids saved while vectors of theirs were being computed
  count         \* tool calls so far

vars == <<item, chunks, history, active, loaded, call, overlapped, count>>
store == <<item, chunks, history>>

-----------------------------------------------------------------------------

NoItem == [at |-> "none"]
NoVector == <<>>
Idle == [at |-> "idle"]
Kept == {i \in Items : item[i] # NoItem}
Columns == Projects \cup {Global}
\* _require_knowledge_scope
Usable(p) == p = Global \/ p \in active

\* what a call asks to be saved
Savings == [text : Texts, project : Columns, on : BOOLEAN]
Revisions(i) == DOMAIN history[i]

Init ==
  /\ item = [i \in Items |-> NoItem]
  /\ chunks = [i \in Items |-> <<>>]
  /\ history = [i \in Items |-> <<>>]
  /\ active = Projects
  /\ loaded = FALSE
  /\ call = [c \in Callers |-> Idle]
  /\ overlapped = {}
  /\ count = 0

-----------------------------------------------------------------------------
(* One save, under KnowledgeStore._lock.                                   *)

\* a plausible slip: OR IGNORE for OR REPLACE
SaveRevisionOnce(i, row) ==
  [r \in Revisions(i) \cup {row.revision} |->
     IF r \in Revisions(i) THEN history[i][r] ELSE [text |-> row.text, project |-> row.project, on |-> row.on]]

\* _save_revision: INSERT OR REPLACE under (item_id, revision)
SaveRevision(i, row) ==
  [r \in Revisions(i) \cup {row.revision} |->
     IF r = row.revision THEN [text |-> row.text, project |-> row.project, on |-> row.on]
     ELSE history[i][r]]

\* a plausible slip: chunks that keep their place keep their vector
RebuildOver(i, text) ==
  [n \in 1..Pieces[text] |->
     [text |-> text, part |-> n,
      vector |-> IF n <= Len(chunks[i]) THEN chunks[i][n].vector ELSE NoVector]]

\* _rebuild_chunks: new rows, without vectors, under the ids of the old ones
RebuildChunks(i, text) == [n \in 1..Pieces[text] |-> [text |-> text, part |-> n, vector |-> NoVector]]

\* callers that hold rows of i whose vectors they have still to write
Indexing(i) == {c \in Callers : call[c].at = "save" /\ \E r \in call[c].rows : r.item = i}

Write(i, row) ==
  /\ item' = [item EXCEPT ![i] = row]
  /\ chunks' = [chunks EXCEPT ![i] = RebuildChunks(i, row.text)]
  /\ history' = [history EXCEPT ![i] = SaveRevision(i, row)]
  /\ overlapped' = IF Indexing(i) = {} THEN overlapped ELSE overlapped \cup {i}

Row(ask, n) == [at |-> "kept", text |-> ask.text, project |-> ask.project, on |-> ask.on, revision |-> n]

CreateItem(i, ask) == i \notin Kept /\ Write(i, Row(ask, 1))
UpdateItem(i, ask) ==
  /\ i \in Kept /\ item[i].revision < MaxRevision
  /\ Write(i, Row(ask, item[i].revision + 1))

\* delete_item: tags, chunks and scope rows go with the row; the revisions stay under the id
DeleteItem(i) ==
  /\ i \in Kept
  /\ item' = [item EXCEPT ![i] = NoItem]
  /\ chunks' = [chunks EXCEPT ![i] = <<>>]
  /\ overlapped' = IF Indexing(i) = {} THEN overlapped ELSE overlapped \cup {i}
  /\ UNCHANGED history

-----------------------------------------------------------------------------
(* The tools.                                                              *)

Begins(c) == call[c] = Idle /\ count < MaxCalls /\ count' = count + 1
Goes(c, r) == call' = [call EXCEPT ![c] = r]

\* _index_item_if_loaded
ThenIndexes(c, i) == Goes(c, IF loaded THEN [at |-> "select", item |-> i, force |-> FALSE] ELSE Idle)

\* create_memory, create_skill and import of an id not there: the scope is checked before
Create(c, i, ask) ==
  /\ Begins(c) /\ Usable(ask.project) /\ CreateItem(i, ask)
  /\ ThenIndexes(c, i)
  /\ UNCHANGED <<active, loaded>>

\* update_memory and update_skill: what the call leaves out keeps its value
Update(c, i, ask) ==
  /\ Begins(c) /\ Usable(ask.project) /\ UpdateItem(i, ask)
  /\ ThenIndexes(c, i)
  /\ UNCHANGED <<active, loaded>>

\* import_bundle writes without indexing
Import(c, i, ask) ==
  /\ Begins(c) /\ Usable(ask.project)
  /\ CreateItem(i, ask) \/ UpdateItem(i, ask)
  /\ UNCHANGED <<active, loaded, call>>

Delete(c, i) == Begins(c) /\ DeleteItem(i) /\ UNCHANGED <<active, loaded, call>>

\* restore_revision reads the snapshot ...
RestoreReads(c, i, r) ==
  /\ Begins(c) /\ r \in Revisions(i)
  /\ Goes(c, [at |-> "restore", item |-> i, snapshot |-> history[i][r]])
  /\ UNCHANGED <<store, active, loaded, overlapped>>

\* ... saves it as the next revision, and only then checks its project
RestoreWrites(c) ==
  /\ call[c].at = "restore"
  /\ LET i == call[c].item IN
     IF i \in Kept
     THEN /\ UpdateItem(i, call[c].snapshot)
          /\ IF Usable(call[c].snapshot.project) THEN ThenIndexes(c, i) ELSE Goes(c, Idle)
     ELSE Goes(c, Idle) /\ UNCHANGED <<store, overlapped>>
  /\ UNCHANGED <<active, loaded, count>>

-----------------------------------------------------------------------------
(* Vectors.                                                                *)

\* chunks_for_embedding of enabled items: those without a vector, or all under force
RowsOf(i, force) ==
  IF i \in Kept /\ item[i].on
  THEN {[item |-> i, part |-> n, text |-> chunks[i][n].text] :
          n \in {m \in 1..Len(chunks[i]) : force \/ chunks[i][m].vector = NoVector}}
  ELSE {}

\* reindex_knowledge of one id, and a search, which indexes what is missing before it looks;
\* ensure_model loads the model
Reindex(c, i, force) ==
  /\ Begins(c)
  /\ loaded' = TRUE
  /\ Goes(c, [at |-> "select", item |-> i, force |-> force])
  /\ UNCHANGED <<store, active, overlapped>>

Select(c) ==
  /\ call[c].at = "select"
  /\ LET rows == RowsOf(call[c].item, call[c].force)
     IN Goes(c, IF rows = {} THEN Idle ELSE [at |-> "save", rows |-> rows])
  /\ UNCHANGED <<store, active, loaded, overlapped, count>>

\* save_embedding by chunk id, in the order of the chunks: the vector of the text that was
\* read; a chunk that is not there ends the call
SaveEmbedding(c) ==
  /\ call[c].at = "save"
  /\ \E r \in call[c].rows :
       /\ \A s \in call[c].rows : r.part <= s.part
       /\ IF r.part <= Len(chunks[r.item])
          THEN /\ chunks' = [chunks EXCEPT ![r.item][r.part].vector = <<r.text, r.part>>]
               /\ Goes(c, IF call[c].rows = {r} THEN Idle ELSE [at |-> "save", rows |-> call[c].rows \ {r}])
          ELSE Goes(c, Idle) /\ UNCHANGED chunks
  /\ UNCHANGED <<item, history, active, loaded, overlapped, count>>

-----------------------------------------------------------------------------
(* Beside them.                                                            *)

\* a project is deleted: its items move to Global without a save; the id stays, disabled
DeleteProject(p) ==
  /\ p \in active /\ Cardinality(Projects \ active) < MaxDeleted
  /\ active' = active \ {p}
  /\ item' = [i \in Items |-> IF i \in Kept /\ item[i].project = p
                              THEN [item[i] EXCEPT !.project = Global] ELSE item[i]]
  /\ UNCHANGED <<chunks, history, loaded, call, overlapped, count>>

\* the process starts again; what it was doing is lost, the rows stay
Restart ==
  /\ \E c \in Callers : call[c] # Idle
  /\ call' = [c \in Callers |-> Idle] /\ loaded' = FALSE
  /\ UNCHANGED <<store, active, overlapped, count>>

Next ==
  \/ \E c \in Callers :
       \/ RestoreWrites(c) \/ Select(c) \/ SaveEmbedding(c)
       \/ \E i \in Items :
            \/ Delete(c, i)
            \/ \E ask \in Savings : Create(c, i, ask) \/ Update(c, i, ask) \/ Import(c, i, ask)
            \/ \E r \in Revisions(i) : RestoreReads(c, i, r)
            \/ \E force \in BOOLEAN : Reindex(c, i, force)
  \/ \E p \in Projects : DeleteProject(p)
  \/ Restart

Spec == Init /\ [][Next]_vars

-----------------------------------------------------------------------------
(* What must hold.                                                         *)

TypeOK ==
  /\ \A i \in Items : item[i] = NoItem => chunks[i] = <<>>
  /\ \A i \in Kept : item[i].text \in Texts /\ item[i].project \in Columns
                     /\ item[i].revision \in 1..MaxRevision /\ Len(chunks[i]) = Pieces[item[i].text]
  /\ \A i \in Items : Revisions(i) \subseteq 1..MaxRevision
  /\ active \subseteq Projects /\ loaded \in BOOLEAN

\* The newest revision tells what an item says, though the id may have been deleted and
\* imported again over the revisions of the item before it.
CurrentIsKept ==
  \A i \in Kept :
    /\ item[i].revision \in Revisions(i)
    /\ history[i][item[i].revision].text = item[i].text
    /\ history[i][item[i].revision].on = item[i].on

\* A search finds an item by the meaning of the text it has: a vector is one of its chunk's
\* text, unless the item was saved between the reading and the writing of an indexing.
VectorOfItsText ==
  \A i \in Items \ overlapped : \A n \in 1..Len(chunks[i]) :
    chunks[i][n].vector \in {NoVector, <<chunks[i][n].text, n>>}

\* A deleted project has no knowledge (CHANGELOG.md:276).
NoneInDeleted == \A i \in Kept : Usable(item[i].project)

=============================================================================
