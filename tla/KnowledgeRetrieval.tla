------------------------- MODULE KnowledgeRetrieval -------------------------
(***************************************************************************)
(* Lists, searches and the bounded context package over knowledge items    *)
(* (runtime_v960_knowledge.py, context_engine.py), read in several steps   *)
(* beside edits of the items and of their scope rows.  A search takes the  *)
(* best of all items and filters by scope afterwards.  How items rank is   *)
(* arithmetic over texts and vectors: any order is possible.  The writes   *)
(* of items are KnowledgeIndex, those of scope rows ProjectScopes.         *)
(***************************************************************************)
EXTENDS Integers, Sequences, SequencesExt, FiniteSets

CONSTANTS
  Items,
  Projects, Global,   \* the scopes of the owner who asks
  Foreign,            \* a scope of another owner
  Priority, Size,     \* by item: the priority, the characters of header and text
  Start,              \* by item: [on, always, primary] as first saved
  Asks,               \* calls: [kind, projects, global, query]
  TopN,               \* results a search takes before it filters
  Limit,              \* results a call asks for
  Budget,             \* budget_chars
  Least, Cut, Marker, \* no text is cut to fewer than Least; a cut takes Cut and adds Marker
  MaxCalls, MaxEdits  \* bounds

RetrievalAssumption ==
  /\ IsFiniteSet(Items)
  /\ Start \in [Items -> [on : BOOLEAN, always : BOOLEAN, primary : Projects \cup {Global, Foreign}]]
  /\ \A ask \in Asks : ask.kind \in {"list", "search", "context", "global"}
  /\ Size \in [Items -> Nat] /\ {TopN, Limit, Budget, Least, Cut, Marker} \subseteq Nat
  /\ Least > 0 /\ Marker <= Cut   \* what is cut off makes room for the marker

VARIABLES
  item,     \* knowledge_items: [on, always, primary] or Gone
  scopes,   \* knowledge_item_scopes: by item
  call,
  wasIn,    \* history: items that were in the asked scopes during the call
  wasOn,    \* history: items that were enabled during the call
  told,     \* the last answer
  calls, edits

vars == <<item, scopes, call, wasIn, wasOn, told, calls, edits>>
stores == <<item, scopes>>
seen == <<wasIn, wasOn>>

-----------------------------------------------------------------------------

Gone == [on |-> FALSE, always |-> FALSE, primary |-> "none"]
Own == Projects \cup {Global}
Exists(i) == item[i] # Gone
On == {i \in Items : item[i].on}
Idle == [at |-> "idle"]
NoAnswer == [kind |-> "none", ask |-> {}, sources |-> <<>>, always |-> {}, used |-> 0]

\* item_ids_for
Wanted(ask) ==
  IF ask.kind = "global" THEN {Global} ELSE
  (IF ask.projects = {} THEN Projects ELSE ask.projects) \cup (IF ask.global THEN {Global} ELSE {})
InScopeBy(rows, ask) == {i \in Items : rows[i] \cap Wanted(ask) # {}}
InScope(ask) == InScopeBy(scopes, ask)

\* list_items: first what always stands in a context, then by priority; ties fall any way
Before(i, j) == IF item[i].always = item[j].always THEN Priority[i] >= Priority[j] ELSE item[i].always
Sorted(S) == {s \in SetToSeqs(S) : \A j \in 1..Len(s) - 1 : Before(s[j], s[j + 1])}
Take(s, n) == SubSeq(s, 1, IF n < Len(s) THEN n ELSE Len(s))
Only(s, S) == FoldLeft(LAMBDA kept, i : IF i \in S THEN Append(kept, i) ELSE kept, <<>>, s)

Init ==
  /\ item = Start
  /\ scopes = [i \in Items |-> {Start[i].primary}]
  /\ call = Idle /\ wasIn = {} /\ wasOn = {} /\ told = NoAnswer
  /\ calls = 0 /\ edits = 0

-----------------------------------------------------------------------------
(* Edits beside a call.                                                    *)

Saved(items, rows) ==
  /\ edits < MaxEdits /\ edits' = edits + 1
  /\ item' = items /\ scopes' = rows
  /\ wasIn' = IF call = Idle THEN wasIn ELSE wasIn \cup InScopeBy(rows, call.ask)
  /\ wasOn' = wasOn \cup On'
  /\ UNCHANGED <<call, told, calls>>

Enable(i) == Exists(i) /\ Saved([item EXCEPT ![i].on = ~@], scopes)
Include(i) == Exists(i) /\ Saved([item EXCEPT ![i].always = ~@], scopes)
Rescope(i, S) == Exists(i) /\ Saved(item, [scopes EXCEPT ![i] = S \cup {item[i].primary}])
Delete(i) == Exists(i) /\ Saved([item EXCEPT ![i] = Gone], [scopes EXCEPT ![i] = {}])

-----------------------------------------------------------------------------
(* A call.                                                                 *)

Beside == UNCHANGED <<stores, seen, calls, edits>>
Goes(r) == call' = r /\ UNCHANGED told /\ Beside
Answers(sources, always, used) ==
  /\ call' = Idle
  /\ told' = [kind |-> call.kind, ask |-> call.ask, sources |-> sources, always |-> always, used |-> used]
  /\ Beside

Begin(ask) ==
  /\ call = Idle /\ calls < MaxCalls /\ calls' = calls + 1
  /\ call' = [at |-> IF ask.kind = "global" THEN "legacy" ELSE "scope", kind |-> ask.kind, ask |-> ask]
  /\ wasIn' = InScope(ask) /\ wasOn' = On
  /\ UNCHANGED <<stores, told, edits>>

\* the scope rows are read first, and nothing else when they are empty
ReadScopes ==
  /\ call.at = "scope"
  /\ IF InScope(call.ask) = {} /\ call.kind # "context" THEN Answers(<<>>, {}, 0)
     ELSE Goes([at |-> call.kind, kind |-> call.kind, ask |-> call.ask, allowed |-> InScope(call.ask)])

\* _list_scoped: disabled items are listed too
ListItems ==
  /\ call.at = "list"
  /\ \E all \in Sorted({i \in Items : Exists(i)}) : Answers(Take(Only(all, call.allowed), Limit), {}, 0)

\* the search of all scopes: some enabled items match, in an order of their own
Best == {Take(order, TopN) : order \in UNION {SetToSeqs(S) : S \in SUBSET On}}

\* a plausible slip: the result is not filtered
RankedUnfiltered(best, allowed) == Take(best, Limit)

Ranked(best, allowed) == Take(Only(best, allowed), Limit)

\* _search_scoped
Search == call.at = "search" /\ \E best \in Best : Answers(Ranked(best, call.allowed), {}, 0)

\* the items of a context, enabled and in scope, as one list tells them
ReadItems ==
  /\ call.at = "context"
  /\ \E rest \in Sorted(On \cap call.allowed) :
       LET always == Only(rest, {i \in Items : item[i].always})
       IN Goes([at |-> IF call.ask.query THEN "rescope" ELSE "assemble", kind |-> "context", ask |-> call.ask,
                always |-> always, rest |-> rest, allowed |-> call.allowed, ranked |-> <<>>,
                sources |-> <<>>, used |-> 0])

\* its search reads the scope rows once more
ReadScopesAgain ==
  /\ call.at = "rescope"
  /\ Goes(IF InScope(call.ask) = {} THEN [call EXCEPT !.at = "assemble"]
          ELSE [call EXCEPT !.at = "rank", !.allowed = InScope(call.ask)])

Rank ==
  /\ call.at = "rank"
  /\ \E best \in Best : Goes([call EXCEPT !.at = "assemble", !.ranked = Ranked(best, call.allowed)])

\* always_items; the rows of project_id NULL are Global
AlwaysItems == {i \in On : item[i].primary = Global /\ item[i].always}

\* without a project: always_items, then the search or list of everything the owner has
ReadLegacy ==
  /\ call.at = "legacy"
  /\ LET owned == {i \in On : item[i].primary \in Own}
     IN \E always \in Sorted(AlwaysItems) :
        \E found \in IF call.ask.query THEN UNION {SetToSeqs(S) : S \in SUBSET owned} ELSE Sorted(owned) :
          Goes([at |-> "assemble", kind |-> "global", ask |-> call.ask,
                always |-> always, rest |-> Take(found, Limit), allowed |-> {}, ranked |-> <<>>,
                sources |-> <<>>, used |-> 0])

\* a plausible slip: what matches best comes first
OrderRankedFirst(k) == k.ranked \o k.always \o k.rest

\* what always stands in the context, then what was found, then the rest by priority
Order(k) == k.always \o k.ranked \o k.rest
Left(k) == Only(Order(k), Items \ (Range(k.sources)))

\* a plausible slip: the marker is not counted
CutFull(rest) == rest

\* the text that is kept of an item that does not fit
Shortened(rest) == rest - Cut

\* one source after the other, each read again; one that is gone fails the call
Assemble ==
  /\ call.at = "assemble"
  /\ LET k == call
         left == Left(k)
         rest == Budget - k.used
         full == Len(k.sources) >= Limit /\ k.kind = "context"
     IN IF left = <<>> \/ rest <= 0 \/ (full /\ Head(left) \notin Range(k.always))
        THEN Answers(k.sources, Range(k.always), k.used)
        ELSE LET i == Head(left)
                 Takes(n) == Goes([k EXCEPT !.sources = Append(@, i), !.used = @ + n])
             IN IF ~Exists(i) THEN call' = Idle /\ told' = NoAnswer /\ Beside
                ELSE IF Size[i] <= rest THEN Takes(Size[i])
                ELSE IF rest < Least THEN Answers(k.sources, Range(k.always), k.used)
                ELSE \E blank \in {0, 1} : Takes(Shortened(rest) - blank + Marker)

Next ==
  \/ \E ask \in Asks : Begin(ask)
  \/ ReadScopes \/ ListItems \/ Search \/ ReadItems \/ ReadScopesAgain \/ Rank \/ ReadLegacy \/ Assemble
  \/ \E i \in Items :
       \/ Enable(i) \/ Include(i) \/ Delete(i)
       \/ \E S \in SUBSET Own : Rescope(i, S)

Spec == Init /\ [][Next]_vars

-----------------------------------------------------------------------------
(* What must hold.                                                         *)

TypeOK ==
  /\ \A i \in Items : Exists(i) => item[i].primary \in scopes[i]
  /\ Range(told.sources) \cup wasIn \cup wasOn \subseteq Items

Sources == Range(told.sources)

\* Whatever is edited during a call, all it tells had been in the scopes it asked for at some
\* moment of it, and was enabled at one when it was searched for.
AnswersAreScoped ==
  call = Idle /\ told.kind \in {"list", "search", "context"} =>
    Sources \subseteq wasIn /\ (told.kind # "list" => Sources \subseteq wasOn)

\* A context keeps its budget, and what must always stand in it is left out only when the
\* budget is used up by others of its kind.
AlwaysWithinBudget ==
  told.kind \in {"context", "global"} =>
    /\ told.used <= Budget
    /\ told.always \subseteq Sources \/ (Budget - told.used < Least /\ Sources \subseteq told.always)

\* The context without a project is the owner's global one (README.md:239).
GlobalContextIsGlobal ==
  call = Idle /\ told.kind = "global" => Sources \subseteq wasIn

=============================================================================
