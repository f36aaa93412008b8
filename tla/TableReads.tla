----------------------------- MODULE TableReads -----------------------------
(***************************************************************************)
(* Reads of structured data (structured_data_v980.py): queries page by     *)
(* page, joins and exports, with the overrides that stand over stored      *)
(* values for a time.  Filters, sorts and joins look at what is stored;    *)
(* overrides are laid over the page that was found.  Rows and overrides    *)
(* change between two pages.  The writes themselves are StructuredData.    *)
(***************************************************************************)
EXTENDS Integers, Sequences, SequencesExt

CONSTANTS
  Ids, Columns,
  Stored,        \* by row, by column: the value first stored
  Other,         \* the rows of the table joined
  NoValue,
  Overridings,       \* overrides: [row, column, value, priority, window, enabled], window = <<from, until>>
  Asks,          \* [kind, columns, filter, sort, page, effective]
  NoFilter, NoSort,
  MaxTime, MaxOverrides, MaxEdits, MaxReads  \* bounds

ReadsAssumption ==
  /\ Stored \in [Ids -> [Columns -> Int]] /\ NoValue \in Int /\ NoSort \notin Columns
  /\ IsFiniteSet(Ids) /\ Other \in Seq([Columns -> Int])
  /\ \A o \in Overridings : o.row \in Ids /\ o.column \in Columns /\ o.value \in Int /\ o.priority \in Int
  /\ \A ask \in Asks :
       /\ ask.kind \in {"query", "export", "join"} /\ ask.effective \in BOOLEAN
       /\ ask.columns \subseteq Columns /\ ask.sort \in Columns \cup {NoSort} /\ ask.page \in Nat \ {0}

VARIABLES
  rows,        \* by row: its values, or Deleted
  overrides,   \* sd_overrides in the order they were made
  now,
  read,        \* the read under way
  changed,     \* history: a row changed during it
  result,      \* what the last read gave
  edits, reads

vars == <<rows, overrides, now, read, changed, result, edits, reads>>

-----------------------------------------------------------------------------

Deleted == [c \in Columns |-> NoValue]
Present == {i \in Ids : rows[i] # Deleted}
Idle == [at |-> "idle"]
NoResult == [ask |-> Idle, got |-> <<>>, found |-> <<>>, changed |-> TRUE]

Init ==
  /\ rows = Stored /\ overrides = <<>> /\ now = 0
  /\ read = Idle /\ changed = FALSE /\ result = NoResult
  /\ edits = 0 /\ reads = 0

-----------------------------------------------------------------------------
(* What changes beside a read.                                             *)

Reading == UNCHANGED <<read, result, reads>>

SetOverride(o) ==
  /\ Len(overrides) < MaxOverrides /\ o.row \in Present
  /\ overrides' = Append(overrides, o)
  /\ UNCHANGED <<rows, now, changed, edits>> /\ Reading

\* insert, update, delete
Edit(i, row) ==
  /\ edits < MaxEdits /\ edits' = edits + 1
  /\ rows' = [rows EXCEPT ![i] = row] /\ rows' # rows
  /\ changed' = TRUE
  /\ UNCHANGED <<overrides, now>> /\ Reading

Tick == now < MaxTime /\ now' = now + 1 /\ UNCHANGED <<rows, overrides, changed, edits>> /\ Reading

-----------------------------------------------------------------------------
(* One page.                                                               *)

\* the conditions of _apply_overrides
InForce(o) == o.enabled /\ o.window[1] <= now /\ now < o.window[2]
Over(i, c) == {k \in DOMAIN overrides : InForce(overrides[k]) /\ overrides[k].row = i /\ overrides[k].column = c}
First(k, l) ==
  IF overrides[k].priority = overrides[l].priority THEN k > l ELSE overrides[k].priority > overrides[l].priority
Selected(i, c) == CHOOSE k \in Over(i, c) : \A l \in Over(i, c) \ {k} : First(k, l)

\* a plausible slip: one override after the other is applied
OriginalUnderAll(ask, row, c) ==
  IF Cardinality(Over(row.id, c)) > 1
  THEN overrides[CHOOSE l \in Over(row.id, c) : \A k \in Over(row.id, c) : k = l \/ First(k, l)].value
  ELSE row.stored[c]

\* what is told to be the original value: the page's, and none when the column was not asked for
Original(ask, row, c) == IF c \in ask.columns THEN row.stored[c] ELSE NoValue

\* a row of the page as it is told: values, and the metadata of the overrides laid over them
Told(ask, row) ==
  LET laid == IF ask.effective THEN {c \in Columns : Over(row.id, c) # {}} ELSE {}
  IN [id |-> row.id,
      cells |-> [c \in ask.columns \cup laid |->
                   IF c \in laid THEN overrides[Selected(row.id, c)].value ELSE row.stored[c]],
      original |-> [c \in laid |-> Original(ask, row, c)],
      stored |-> row.stored]

\* a plausible slip: rows are found by what is shown of them
FieldShown(ask, i, c) == IF ask.effective /\ Over(i, c) # {} THEN overrides[Selected(i, c)].value ELSE rows[i][c]

\* rows are found and sorted by what is stored
Field(ask, i, c) == rows[i][c]

\* _where, with one condition
Found(ask) == {i \in Present : ask.filter = NoFilter \/ Field(ask, i, ask.filter[1]) = ask.filter[2]}

\* ORDER BY one column, or none: then, as among ties, any order
Orders(ask) ==
  {s \in SetToSeqs(Found(ask)) :
     ask.sort = NoSort \/ \A j \in 1..Len(s) - 1 : Field(ask, s[j], ask.sort) <= Field(ask, s[j + 1], ask.sort)}

\* LIMIT and OFFSET
Page(ask, s, offset) ==
  [j \in 1..(IF offset + ask.page < Len(s) THEN ask.page ELSE IF offset < Len(s) THEN Len(s) - offset ELSE 0) |->
     [id |-> s[offset + j], stored |-> rows[s[offset + j]]]]

-----------------------------------------------------------------------------
(* Reads.                                                                  *)

Begin(ask) ==
  /\ read = Idle /\ reads < MaxReads /\ reads' = reads + 1
  /\ read' = [at |-> IF ask.kind = "export" THEN "query" ELSE ask.kind, ask |-> ask, got |-> <<>>, page |-> <<>>]
  /\ changed' = FALSE
  /\ UNCHANGED <<rows, overrides, now, result, edits>>

Quiet == UNCHANGED <<rows, overrides, now, changed, edits, reads>>
Gives(got) ==
  /\ read' = Idle /\ Quiet
  /\ result' = [ask |-> read.ask, got |-> got, found |-> [i \in Found(read.ask) |-> rows[i]], changed |-> changed]

\* the rows of a page, and the overrides in a statement of their own
Query ==
  /\ read.at = "query"
  /\ \E s \in Orders(read.ask) : read' = [read EXCEPT !.at = "lay", !.page = Page(read.ask, s, Len(read.got))]
  /\ UNCHANGED result /\ Quiet

\* an export is one query of every column, without the metadata; a reader of pages asks until one is not full
ApplyOverrides ==
  /\ read.at = "lay"
  /\ LET page == [j \in DOMAIN read.page |-> Told(read.ask, read.page[j])]
         got == read.got \o page
     IN CASE read.ask.kind = "export" -> Gives([j \in DOMAIN page |-> [page[j] EXCEPT !.original = <<>>]])
          [] read.ask.kind = "query" /\ Len(page) < read.ask.page -> Gives(got)
          [] OTHER -> read' = [read EXCEPT !.at = "query", !.got = got] /\ UNCHANGED result /\ Quiet

\* an inner join with another table on equal stored values, without overrides
Join(c) ==
  /\ read.at = "join"
  /\ LET pairs == {p \in Found(read.ask) \X DOMAIN Other : rows[p[1]][c] = Other[p[2]][c]}
         many == Cardinality(pairs)
     IN \E page \in kSubset(IF many < read.ask.page THEN many ELSE read.ask.page, pairs) :
          LET s == SetToSeq(page)
          IN Gives([j \in DOMAIN s |->
                      [id |-> s[j][1], cells |-> rows[s[j][1]], original |-> <<>>, stored |-> rows[s[j][1]]]])

Next ==
  \/ \E ask \in Asks : Begin(ask)
  \/ Query \/ ApplyOverrides \/ Tick
  \/ \E c \in Columns : Join(c)
  \/ \E o \in Overridings : SetOverride(o)
  \/ \E i \in Ids, row \in {Stored[j] : j \in Ids} \cup {Deleted} : Edit(i, row)

Spec == Init /\ [][Next]_vars

-----------------------------------------------------------------------------
(* What must hold.                                                         *)

TypeOK ==
  /\ \A k \in DOMAIN overrides : overrides[k] \in Overridings
  /\ \A j \in DOMAIN result.got : result.got[j].id \in Ids

\* Pages sorted by a column without equal values give each row that matches once and in order,
\* while overrides of that very column begin and end between them.
PagesCover ==
  /\ result.ask # Idle /\ result.ask.kind = "query" /\ result.ask.sort # NoSort /\ ~result.changed
  /\ \A i, j \in DOMAIN result.found : i # j => result.found[i][result.ask.sort] # result.found[j][result.ask.sort]
  => /\ {result.got[j].id : j \in DOMAIN result.got} = DOMAIN result.found
     /\ \A j, k \in DOMAIN result.got : j < k =>
          result.found[result.got[j].id][result.ask.sort] < result.found[result.got[k].id][result.ask.sort]

\* The stored row can be read off the effective one: where an override is laid over a value that
\* was asked for, the value it hides is told with it (docs/structured-data-v980.md:57).
OriginalIsTold ==
  result.ask # Idle /\ result.ask.kind = "query" =>
    \A j \in DOMAIN result.got :
      LET row == result.got[j] IN
      \A c \in DOMAIN row.cells \cap result.ask.columns :
        row.stored[c] = IF c \in DOMAIN row.original THEN row.original[c] ELSE row.cells[c]

=============================================================================
