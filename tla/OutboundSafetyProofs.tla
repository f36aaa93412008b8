------------------------ MODULE OutboundSafetyProofs ------------------------
(***************************************************************************)
(* Theorems about the outbound ledger for any number of callers, keys,     *)
(* contents and rows, any window and any horizon.                          *)
(***************************************************************************)
EXTENDS OutboundSafety, TLAPS

\* Type facts that the steps below use again and again.
LEMMA RequestFacts ==
    ASSUME NEW r \in Requests
    PROVE  /\ r.key \in Keys \cup {NoKey} /\ r.content \in Contents
           /\ r.variant \in Variants /\ r.force \in BOOLEAN
  BY DEF Requests

LEMMA AskedFacts == Asked \subseteq Requests /\ AnyRequest \in Asked
  BY LedgerAssumption DEF AnyRequest

\* What an insertion does to the table: one new row at the end, the rest as is.
LEMMA InsertedRows ==
    ASSUME TypeOK, NEW c \in Callers, ReserveInsert(c)
    PROVE  /\ rows' \in Seq(Rows)
           /\ Len(rows') = Len(rows) + 1
           /\ \A i \in 1..Len(rows) : rows'[i] = rows[i]
           /\ rows'[Len(rows) + 1] =
                 [key |-> req[c].key, content |-> req[c].content,
                  variant |-> req[c].variant, force |-> req[c].force,
                  state |-> "in_progress", created |-> stamp[c]]
           /\ rows'[Len(rows) + 1].state = "in_progress"
  <1> DEFINE new == [key |-> req[c].key, content |-> req[c].content,
                     variant |-> req[c].variant, force |-> req[c].force,
                     state |-> "in_progress", created |-> stamp[c]]
  <1>1. req[c] \in Requests
    BY AskedFacts DEF TypeOK
  <1>2. stamp[c] \in 0..Horizon
    BY LedgerAssumption DEF TypeOK
  <1>3. new \in Rows
    BY <1>1, <1>2, RequestFacts DEF Rows
  <1>4. rows \in Seq(Rows) /\ rows' = Append(rows, new)
    BY DEF TypeOK, ReserveInsert
  <1> HIDE DEF new
  <1>5. QED
    <2>1. /\ rows' \in Seq(Rows) /\ Len(rows') = Len(rows) + 1
          /\ \A i \in 1..Len(rows) : rows'[i] = rows[i]
          /\ rows'[Len(rows) + 1] = new
      BY <1>3, <1>4
    <2>2. new.state = "in_progress"
      BY DEF new
    <2>3. rows'[Len(rows) + 1].state = "in_progress"
      BY <2>1, <2>2
    <2>4. QED
      BY <2>1, <2>3 DEF new

\* What _finish does to the table: the state of one row, nothing else.
LEMMA SettledRows ==
    ASSUME TypeOK, OwnedProgress, NEW c \in Callers, Finish(c)
    PROVE  /\ op[c] \in 1..Len(rows)
           /\ rows[op[c]].state = "in_progress"
           /\ rows' \in Seq(Rows)
           /\ Len(rows') = Len(rows)
           /\ \A i \in 1..Len(rows) : i # op[c] => rows'[i] = rows[i]
           /\ rows'[op[c]] = [rows[op[c]] EXCEPT !.state = verdict[c]]
  <1>1. op[c] \in 1..Len(rows) /\ rows[op[c]].state = "in_progress"
    BY DEF OwnedProgress, Finish
  <1>2. rows' = [rows EXCEPT ![op[c]] = [rows[op[c]] EXCEPT !.state = verdict[c]]]
    BY DEF Finish
  <1>3. rows \in Seq(Rows) /\ rows[op[c]] \in Rows /\ verdict[c] \in Outcomes
    BY <1>1 DEF TypeOK
  <1>4. [rows[op[c]] EXCEPT !.state = verdict[c]] \in Rows
    BY <1>3 DEF Rows
  <1> DEFINE new == [rows[op[c]] EXCEPT !.state = verdict[c]]
  <1>5. rows' = [rows EXCEPT ![op[c]] = new] /\ new \in Rows
    BY <1>2, <1>4
  <1> HIDE DEF new
  <1>6. /\ rows' \in Seq(Rows) /\ Len(rows') = Len(rows)
        /\ \A i \in 1..Len(rows) : i # op[c] => rows'[i] = rows[i]
        /\ rows'[op[c]] = new
    BY <1>1, <1>3, <1>5
  <1>7. QED
    BY <1>1, <1>6 DEF new

\* What every way of ending a call does to the caller's variables.
LEMMA AnswerTypes ==
    ASSUME TypeOK, NEW c \in Callers, NEW r \in Replies, Answer(c, r)
    PROVE  /\ pc' \in [Callers -> {"idle", "reserving", "sending", "finishing"}]
           /\ req' \in [Callers -> Asked]
           /\ stamp' \in [Callers -> 0..now]
           /\ op' \in [Callers -> 0..Len(rows)]
           /\ verdict' \in [Callers -> Outcomes]
           /\ reply' \in [Callers -> Replies]
  <1>1. now \in Nat /\ Len(rows) \in Nat
    BY LedgerAssumption DEF TypeOK
  <1>2. QED
    BY <1>1, AskedFacts DEF TypeOK, Answer, Outcomes

LEMMA ReplyTypes ==
    /\ NoReply \in Replies /\ Error \in Replies
    /\ \A i \in 0..MaxRows : /\ [kind |-> "sent", op |-> i] \in Replies
                             /\ [kind |-> "replay", op |-> i] \in Replies
                             /\ [kind |-> "guard_replay", op |-> i] \in Replies
  BY LedgerAssumption DEF NoReply, Error, Replies
-----------------------------------------------------------------------------
\* The ledger's variables keep their types and every held row exists and is in
\* progress: together inductive, because settling a row writes through op.
Inv1 == TypeOK /\ OwnedProgress

LEMMA Inv1Init == Init => Inv1
  <1> SUFFICES ASSUME Init PROVE Inv1
    OBVIOUS
  <1>1. rows \in Seq(Rows) /\ Len(rows) = 0
    BY DEF Init
  <1>2. TypeOK
    BY <1>1, AskedFacts, ReplyTypes, LedgerAssumption DEF Init, TypeOK, Outcomes
  <1>3. OwnedProgress
    BY DEF Init, OwnedProgress
  <1> QED BY <1>2, <1>3 DEF Inv1

\* A call that ends without touching the table disturbs neither conjunct.
LEMMA DeclineInv1 ==
    ASSUME Inv1, NEW c \in Callers, NEW r \in Replies, Decline(c, r)
    PROVE  Inv1'
  <1>1. UNCHANGED <<now, rows>> /\ Answer(c, r) /\ TypeOK /\ OwnedProgress
    BY DEF Inv1, Decline
  <1>2. TypeOK'
    BY <1>1, AnswerTypes DEF TypeOK
  <1>3. OwnedProgress'
    BY <1>1 DEF OwnedProgress, Answer, TypeOK
  <1> QED BY <1>2, <1>3 DEF Inv1

\* The calls that end without a callback or without a write are Declines.
LEMMA DecliningSteps ==
    ASSUME TypeOK, NEW c \in Callers,
           \/ ReserveKnownKey(c) \/ ReserveNearDuplicate(c) \/ ReserveFails(c)
           \/ FinishFails(c) \/ Crash(c)
    PROVE  \E r \in Replies : Decline(c, r)
  <1>1. Len(rows) \in Nat /\ Len(rows) <= MaxRows /\ 1..Len(rows) \subseteq 0..MaxRows
    BY LedgerAssumption DEF TypeOK
  <1>2. KeyRows(c) \subseteq 1..Len(rows) /\ Newest(Recent(c)) \subseteq 1..Len(rows)
    BY DEF KeyRows, Newest, Recent
  <1>3. CASE ReserveKnownKey(c)
    BY <1>1, <1>2, <1>3, ReplyTypes DEF ReserveKnownKey
  <1>4. CASE ReserveNearDuplicate(c)
    BY <1>1, <1>2, <1>4, ReplyTypes DEF ReserveNearDuplicate
  <1>5. CASE ReserveFails(c)
    BY <1>5, ReplyTypes DEF ReserveFails
  <1>6. CASE FinishFails(c)
    BY <1>6, ReplyTypes DEF FinishFails, Decline
  <1>7. CASE Crash(c)
    BY <1>7, ReplyTypes DEF Crash, Decline
  <1> QED BY <1>3, <1>4, <1>5, <1>6, <1>7

LEMMA Inv1Next == Inv1 /\ [Next]_vars => Inv1'
  <1> SUFFICES ASSUME Inv1, [Next]_vars PROVE Inv1'
    OBVIOUS
  <1>0. TypeOK /\ OwnedProgress /\ now \in Nat /\ Horizon \in Nat /\ Len(rows) \in Nat
    BY LedgerAssumption DEF Inv1, TypeOK
  <1>1. CASE Tick
    <2>1. now' = now + 1 /\ now' \in 0..Horizon /\ UNCHANGED <<rows, callerVars>>
      BY <1>0, <1>1 DEF Tick
    <2>2. 0..now \subseteq 0..now'
      BY <1>0, <2>1
    <2>3. stamp' \in [Callers -> 0..now']
      BY <1>0, <2>1, <2>2 DEF TypeOK, callerVars
    <2>4. TypeOK'
      BY <1>0, <2>1, <2>3 DEF TypeOK, callerVars
    <2>5. OwnedProgress'
      BY <1>0, <2>1 DEF OwnedProgress, callerVars
    <2> QED BY <2>4, <2>5 DEF Inv1
  <1>2. ASSUME NEW c \in Callers, NEW r \in Asked, Begin(c, r) PROVE Inv1'
    <2>1. TypeOK'
      BY <1>0, <1>2, ReplyTypes DEF Begin, TypeOK
    <2>2. OwnedProgress'
      BY <1>0, <1>2 DEF Begin, OwnedProgress, TypeOK
    <2> QED BY <2>1, <2>2 DEF Inv1
  <1>3. ASSUME NEW c \in Callers,
               \/ ReserveKnownKey(c) \/ ReserveNearDuplicate(c) \/ ReserveFails(c)
               \/ FinishFails(c) \/ Crash(c)
        PROVE  Inv1'
    BY <1>0, <1>3, DecliningSteps, DeclineInv1
  <1>4. ASSUME NEW c \in Callers, ReserveInsert(c) PROVE Inv1'
    <2>1. /\ rows' \in Seq(Rows) /\ Len(rows') = Len(rows) + 1
          /\ \A i \in 1..Len(rows) : rows'[i] = rows[i]
          /\ rows'[Len(rows) + 1].state = "in_progress"
      BY <1>0, <1>4, InsertedRows
    <2>2. /\ op' = [op EXCEPT ![c] = Len(rows) + 1]
          /\ pc' = [pc EXCEPT ![c] = "sending"]
          /\ Len(rows) < MaxRows
          /\ UNCHANGED <<now, req, stamp, verdict, reply>>
      BY <1>4 DEF ReserveInsert
    <2>3. op' \in [Callers -> 0..Len(rows')]
      BY <1>0, <2>1, <2>2 DEF TypeOK
    <2>4. Len(rows') <= MaxRows
      BY <1>0, <2>1, <2>2, LedgerAssumption
    <2>5. TypeOK'
      BY <1>0, <2>1, <2>2, <2>3, <2>4 DEF TypeOK
    <2>6. ASSUME NEW d \in Callers, pc'[d] \in {"sending", "finishing"}
          PROVE  /\ op'[d] \in 1..Len(rows') /\ rows'[op'[d]].state = "in_progress"
                 /\ \A e \in Callers \ {d} : op'[e] # op'[d]
      <3>1. CASE d = c
        BY <1>0, <2>1, <2>2, <3>1 DEF TypeOK
      <3>2. CASE d # c
        <4>1. pc[d] \in {"sending", "finishing"} /\ op'[d] = op[d]
          BY <1>0, <2>2, <2>6, <3>2 DEF TypeOK
        <4>2. /\ op[d] \in 1..Len(rows) /\ rows[op[d]].state = "in_progress"
              /\ \A e \in Callers \ {d} : op[e] # op[d]
          BY <1>0, <4>1 DEF OwnedProgress
        <4>3. \A e \in Callers : op'[e] = op[e] \/ op'[e] = Len(rows) + 1
          BY <1>0, <2>2 DEF TypeOK
        <4> QED BY <1>0, <2>1, <4>1, <4>2, <4>3
      <3> QED BY <3>1, <3>2
    <2>7. OwnedProgress'
      BY <2>6 DEF OwnedProgress
    <2> QED BY <2>5, <2>7 DEF Inv1
  <1>5. ASSUME NEW c \in Callers, NEW o \in Outcomes, CallbackEnds(c, o) PROVE Inv1'
    <2>1. TypeOK'
      BY <1>0, <1>5 DEF CallbackEnds, TypeOK
    <2>2. OwnedProgress'
      BY <1>0, <1>5 DEF CallbackEnds, OwnedProgress, TypeOK
    <2> QED BY <2>1, <2>2 DEF Inv1
  <1>6. ASSUME NEW c \in Callers, Finish(c) PROVE Inv1'
    <2>1. /\ rows' \in Seq(Rows) /\ Len(rows') = Len(rows)
          /\ op[c] \in 1..Len(rows)
          /\ \A i \in 1..Len(rows) : i # op[c] => rows'[i] = rows[i]
      BY <1>0, <1>6, SettledRows
    <2>2. PICK r \in Replies : Answer(c, r)
      <3>1. op[c] \in 0..MaxRows
        BY <1>0, <2>1, LedgerAssumption DEF TypeOK
      <3> QED BY <1>6, <3>1, ReplyTypes DEF Finish
    <2>3. now' = now
      BY <1>6 DEF Finish
    <2>4. TypeOK'
      BY <1>0, <2>1, <2>2, <2>3, AnswerTypes DEF TypeOK
    <2>5. OwnedProgress'
      BY <1>0, <2>1, <2>2 DEF OwnedProgress, Answer, TypeOK
    <2> QED BY <2>4, <2>5 DEF Inv1
  <1>7. CASE UNCHANGED vars
    BY <1>0, <1>7 DEF Inv1, TypeOK, OwnedProgress, vars, callerVars
  <1> QED BY <1>1, <1>2, <1>3, <1>4, <1>5, <1>6, <1>7 DEF Next, Reserve

\* Type correctness, for every value of the constants.
THEOREM TypeCorrect == Spec => []TypeOK
  <1>1. Inv1 => TypeOK
    BY DEF Inv1
  <1> QED BY <1>1, Inv1Init, Inv1Next, PTL DEF Spec

\* Callers inside their callback hold distinct rows that are in progress.
THEOREM ProgressOwned == Spec => []OwnedProgress
  <1>1. Inv1 => OwnedProgress
    BY DEF Inv1
  <1> QED BY <1>1, Inv1Init, Inv1Next, PTL DEF Spec

-----------------------------------------------------------------------------
\* Table changes, as the remaining proofs need them: a step appends the row of
\* a caller whose lookups found nothing, or settles one row in progress, or
\* leaves the table alone.
SameIdentity(r, s) ==
    /\ r.key = s.key /\ r.content = s.content /\ r.variant = s.variant
    /\ r.force = s.force /\ r.created = s.created

Inserts(c) ==
    /\ KeyRows(c) = {} /\ Recent(c) = {}
    /\ Len(rows') = Len(rows) + 1
    /\ \A i \in 1..Len(rows) : rows'[i] = rows[i]
    /\ rows'[Len(rows) + 1] =
          [key |-> req[c].key, content |-> req[c].content, variant |-> req[c].variant,
           force |-> req[c].force, state |-> "in_progress", created |-> stamp[c]]

Settles(c) ==
    /\ op[c] \in 1..Len(rows) /\ rows[op[c]].state = "in_progress"
    /\ Len(rows') = Len(rows)
    /\ \A i \in 1..Len(rows) : i # op[c] => rows'[i] = rows[i]
    /\ rows'[op[c]] = [rows[op[c]] EXCEPT !.state = verdict[c]]
    /\ SameIdentity(rows'[op[c]], rows[op[c]])
    /\ rows'[op[c]].state = verdict[c] /\ verdict[c] \in Outcomes

\* Rows have the fields of Rows, and changing the state changes nothing else.
LEMMA RowFacts ==
    ASSUME TypeOK, NEW i \in 1..Len(rows)
    PROVE  /\ rows[i] \in Rows
           /\ rows[i].created \in Int /\ rows[i].key \in Keys \cup {NoKey}
           /\ rows[i].force \in BOOLEAN
  <1>1. rows[i] \in Rows
    BY DEF TypeOK
  <1> QED BY <1>1, LedgerAssumption DEF Rows

LEMMA StateOnly ==
    ASSUME NEW r \in Rows, NEW o \in Outcomes
    PROVE  /\ SameIdentity([r EXCEPT !.state = o], r)
           /\ [r EXCEPT !.state = o].state = o
  BY DEF Rows, SameIdentity

LEMMA TableSteps ==
    ASSUME Inv1, [Next]_vars
    PROVE  \/ \E c \in Callers : Inserts(c) \/ Settles(c)
           \/ rows' = rows
  <1>0. TypeOK /\ OwnedProgress
    BY DEF Inv1
  <1>1. ASSUME NEW c \in Callers, ReserveInsert(c) PROVE Inserts(c)
    BY <1>0, <1>1, InsertedRows DEF ReserveInsert, Inserts
  <1>2. ASSUME NEW c \in Callers, Finish(c) PROVE Settles(c)
    <2>1. /\ op[c] \in 1..Len(rows) /\ rows[op[c]].state = "in_progress"
          /\ Len(rows') = Len(rows)
          /\ \A i \in 1..Len(rows) : i # op[c] => rows'[i] = rows[i]
          /\ rows'[op[c]] = [rows[op[c]] EXCEPT !.state = verdict[c]]
      BY <1>0, <1>2, SettledRows
    <2>2. verdict[c] \in Outcomes /\ rows[op[c]] \in Rows
      BY <1>0, <2>1, RowFacts DEF TypeOK
    <2>3. /\ SameIdentity(rows'[op[c]], rows[op[c]])
          /\ rows'[op[c]].state = verdict[c]
      BY <2>1, <2>2, StateOnly
    <2> QED BY <2>1, <2>2, <2>3 DEF Settles
  <1>3. ASSUME NEW c \in Callers,
               \/ ReserveKnownKey(c) \/ ReserveNearDuplicate(c) \/ ReserveFails(c)
               \/ FinishFails(c) \/ Crash(c)
        PROVE  rows' = rows
    BY <1>0, <1>3, DecliningSteps DEF Decline
  <1>4. ASSUME NEW c \in Callers, NEW r \in Asked, Begin(c, r) PROVE rows' = rows
    BY <1>4 DEF Begin
  <1>5. ASSUME NEW c \in Callers, NEW o \in Outcomes, CallbackEnds(c, o) PROVE rows' = rows
    BY <1>5 DEF CallbackEnds
  <1>6. CASE Tick
    BY <1>6 DEF Tick
  <1>7. CASE UNCHANGED vars
    BY <1>7 DEF vars
  <1> QED BY <1>1, <1>2, <1>3, <1>4, <1>5, <1>6, <1>7 DEF Next, Reserve

LEMMA KeyNext == Inv1 /\ AtMostOncePerKey /\ [Next]_vars => AtMostOncePerKey'
  <1> SUFFICES ASSUME Inv1, AtMostOncePerKey, [Next]_vars PROVE AtMostOncePerKey'
    OBVIOUS
  <1>0. TypeOK /\ Len(rows) \in Nat
    BY DEF Inv1, TypeOK
  <1>1. ASSUME NEW c \in Callers, Inserts(c) PROVE AtMostOncePerKey'
    <2>1. \A i \in 1..Len(rows) : req[c].key # NoKey => rows[i].key # req[c].key
      BY <1>1 DEF Inserts, KeyRows
    <2> QED BY <1>0, <1>1, <2>1 DEF Inserts, AtMostOncePerKey
  <1>2. ASSUME NEW c \in Callers, Settles(c) PROVE AtMostOncePerKey'
    <2>1. \A i \in 1..Len(rows) : rows'[i].key = rows[i].key
      BY <1>2 DEF Settles, SameIdentity
    <2> QED BY <1>2, <2>1 DEF Settles, AtMostOncePerKey
  <1>3. CASE rows' = rows
    BY <1>3 DEF AtMostOncePerKey
  <1> QED BY <1>1, <1>2, <1>3, TableSteps

\* At most one row, hence one callback, per explicit key, for every value of
\* the constants.
THEOREM OncePerKey == Spec => []AtMostOncePerKey
  <1>1. Init => AtMostOncePerKey
    BY DEF Init, AtMostOncePerKey
  <1> QED BY <1>1, Inv1Init, Inv1Next, KeyNext, PTL DEF Spec
-----------------------------------------------------------------------------
LEMMA GuardNext == Inv1 /\ WindowGuard /\ [Next]_vars => WindowGuard'
  <1> SUFFICES ASSUME Inv1, WindowGuard, [Next]_vars, Window > 0,
                      NEW i \in 1..Len(rows'), NEW j \in 1..Len(rows'),
                      i < j, ~rows'[j].force, rows'[i].content = rows'[j].content,
                      rows'[j].created - rows'[i].created <= Window
               PROVE  rows'[i].state = "failed"
    BY DEF WindowGuard
  <1>0. TypeOK /\ OwnedProgress /\ Len(rows) \in Nat /\ Window \in Nat
    BY LedgerAssumption DEF Inv1, TypeOK
  <1>1. ASSUME NEW c \in Callers, Inserts(c) PROVE rows'[i].state = "failed"
    <2>1. i \in 1..Len(rows) /\ rows'[i] = rows[i] /\ rows[i] \in Rows /\ rows[i].created \in Int
      BY <1>0, <1>1, RowFacts DEF Inserts
    <2>2. CASE j \in 1..Len(rows)
      BY <1>1, <2>1, <2>2 DEF Inserts, WindowGuard
    <2>3. CASE j = Len(rows) + 1
      <3>1. /\ rows'[j].force = req[c].force /\ rows'[j].content = req[c].content
            /\ rows'[j].created = stamp[c]
        BY <1>1, <2>3 DEF Inserts
      <3>2. stamp[c] \in Int
        BY <1>0, LedgerAssumption DEF TypeOK
      <3>3. ~req[c].force /\ rows[i].content = req[c].content
            /\ rows[i].created >= stamp[c] - Window
        BY <1>0, <2>1, <3>1, <3>2
      <3>4. rows[i].state \notin {"sent", "in_progress", "delivery_uncertain"}
        BY <1>1, <2>1, <3>3 DEF Inserts, Recent
      <3> QED BY <2>1, <3>4 DEF Rows, Outcomes
    <2> QED BY <1>0, <1>1, <2>2, <2>3 DEF Inserts
  <1>2. ASSUME NEW c \in Callers, Settles(c) PROVE rows'[i].state = "failed"
    <2>1. /\ i \in 1..Len(rows) /\ j \in 1..Len(rows)
          /\ SameIdentity(rows'[i], rows[i]) /\ SameIdentity(rows'[j], rows[j])
      BY <1>2 DEF Settles, SameIdentity
    <2>2. rows[i].state = "failed"
      BY <2>1 DEF WindowGuard, SameIdentity
    <2> QED BY <1>2, <2>1, <2>2 DEF Settles
  <1>3. CASE rows' = rows
    BY <1>3 DEF WindowGuard
  <1> QED BY <1>1, <1>2, <1>3, TableSteps

\* The near-duplicate guard holds for every window, number of callers and
\* clock: equivalent unforced operations within the window only follow failures.
THEOREM GuardedWindow == Spec => []WindowGuard
  <1>1. Init => WindowGuard
    BY DEF Init, WindowGuard
  <1> QED BY <1>1, Inv1Init, Inv1Next, GuardNext, PTL DEF Spec

-----------------------------------------------------------------------------
\* Settled rows are final: every step is an insertion behind the old rows or
\* the settling of one row in progress.
THEOREM RowsFinal == Spec => SettledRowsFinal
  <1> DEFINE A == /\ Len(rows) <= Len(rows')
                  /\ \A i \in 1..Len(rows) :
                        IF rows[i].state = "in_progress"
                        THEN rows'[i] = [rows[i] EXCEPT !.state = rows'[i].state]
                        ELSE rows'[i] = rows[i]
  <1>1. Inv1 /\ [Next]_vars => A
    <2> SUFFICES ASSUME Inv1, [Next]_vars PROVE A
      OBVIOUS
    <2>0. TypeOK /\ Len(rows) \in Nat
      BY DEF Inv1, TypeOK
    <2>1. ASSUME NEW i \in 1..Len(rows)
          PROVE  rows[i] = [rows[i] EXCEPT !.state = rows[i].state]
      BY <2>0, RowFacts DEF Rows
    <2>2. ASSUME NEW c \in Callers, Inserts(c) PROVE A
      <3>1. ASSUME NEW i \in 1..Len(rows)
            PROVE  IF rows[i].state = "in_progress"
                   THEN rows'[i] = [rows[i] EXCEPT !.state = rows'[i].state]
                   ELSE rows'[i] = rows[i]
        <4>1. rows'[i] = rows[i]
          BY <2>2 DEF Inserts
        <4> QED BY <4>1, <2>1
      <3> QED BY <2>0, <2>2, <3>1 DEF Inserts
    <2>3. ASSUME NEW c \in Callers, Settles(c) PROVE A
      <3>1. ASSUME NEW i \in 1..Len(rows)
            PROVE  IF rows[i].state = "in_progress"
                   THEN rows'[i] = [rows[i] EXCEPT !.state = rows'[i].state]
                   ELSE rows'[i] = rows[i]
        <4>1. CASE i = op[c]
          BY <2>3, <4>1 DEF Settles
        <4>2. CASE i # op[c]
          BY <2>3, <4>2, <2>1 DEF Settles
        <4> QED BY <4>1, <4>2
      <3> QED BY <2>0, <2>3, <3>1 DEF Settles
    <2>4. CASE rows' = rows
      BY <2>0, <2>1, <2>4
    <2> QED BY <2>2, <2>3, <2>4, TableSteps
  <1> QED BY <1>1, Inv1Init, Inv1Next, PTL DEF Spec, SettledRowsFinal
-----------------------------------------------------------------------------
\* The row a caller holds was made for the request it is serving.
HeldMatches ==
    \A c \in Callers :
        pc[c] \in {"sending", "finishing"} =>
            /\ rows[op[c]].key = req[c].key
            /\ rows[op[c]].content = req[c].content
            /\ rows[op[c]].variant = req[c].variant

Inv2 == Inv1 /\ HeldMatches

\* Rows outlive every step with their identity, and stay sent once sent.
LEMMA RowsKept ==
    ASSUME Inv1, [Next]_vars
    PROVE  \A i \in 1..Len(rows) :
              /\ i \in 1..Len(rows') /\ SameIdentity(rows'[i], rows[i])
              /\ rows[i].state = "sent" => rows'[i].state = "sent"
  <1>0. Len(rows) \in Nat
    BY DEF Inv1, TypeOK
  <1>1. ASSUME NEW c \in Callers, Inserts(c), NEW i \in 1..Len(rows)
        PROVE  i \in 1..Len(rows') /\ rows'[i] = rows[i]
    BY <1>0, <1>1 DEF Inserts
  <1>2. ASSUME NEW c \in Callers, Settles(c), NEW i \in 1..Len(rows)
        PROVE  /\ i \in 1..Len(rows') /\ SameIdentity(rows'[i], rows[i])
               /\ rows[i].state = "sent" => rows'[i].state = "sent"
    BY <1>0, <1>2 DEF Settles, SameIdentity
  <1> QED BY <1>1, <1>2, TableSteps DEF SameIdentity

LEMMA HeldNext == Inv2 /\ [Next]_vars => HeldMatches'
  <1> SUFFICES ASSUME Inv2, [Next]_vars, NEW d \in Callers,
                      pc'[d] \in {"sending", "finishing"}
               PROVE  /\ rows'[op'[d]].key = req'[d].key
                      /\ rows'[op'[d]].content = req'[d].content
                      /\ rows'[op'[d]].variant = req'[d].variant
    BY DEF HeldMatches
  <1>0. Inv1 /\ TypeOK /\ OwnedProgress /\ HeldMatches
    BY DEF Inv2, Inv1
  <1>1. ASSUME pc[d] \in {"sending", "finishing"}, op'[d] = op[d], req'[d] = req[d]
        PROVE  /\ rows'[op'[d]].key = req'[d].key
               /\ rows'[op'[d]].content = req'[d].content
               /\ rows'[op'[d]].variant = req'[d].variant
    BY <1>0, <1>1, RowsKept DEF HeldMatches, OwnedProgress, SameIdentity
  <1>2. CASE Tick
    BY <1>1, <1>2 DEF Tick, callerVars
  <1>3. ASSUME NEW c \in Callers, NEW r \in Asked, Begin(c, r)
        PROVE  pc[d] \in {"sending", "finishing"} /\ op'[d] = op[d] /\ req'[d] = req[d]
    BY <1>0, <1>3 DEF Begin, TypeOK
  <1>4. ASSUME NEW c \in Callers, NEW r \in Replies, Answer(c, r)
        PROVE  pc[d] \in {"sending", "finishing"} /\ op'[d] = op[d] /\ req'[d] = req[d]
    BY <1>0, <1>4 DEF Answer, TypeOK
  <1>5. ASSUME NEW c \in Callers,
               \/ ReserveKnownKey(c) \/ ReserveNearDuplicate(c) \/ ReserveFails(c)
               \/ FinishFails(c) \/ Crash(c)
        PROVE  pc[d] \in {"sending", "finishing"} /\ op'[d] = op[d] /\ req'[d] = req[d]
    BY <1>0, <1>4, <1>5, DecliningSteps DEF Decline
  <1>6. ASSUME NEW c \in Callers, Finish(c)
        PROVE  pc[d] \in {"sending", "finishing"} /\ op'[d] = op[d] /\ req'[d] = req[d]
    <2>1. op[c] \in 0..MaxRows
      BY <1>0, LedgerAssumption DEF TypeOK
    <2> QED BY <1>4, <1>6, <2>1, ReplyTypes DEF Finish
  <1>7. ASSUME NEW c \in Callers, NEW o \in Outcomes, CallbackEnds(c, o)
        PROVE  pc[d] \in {"sending", "finishing"} /\ op'[d] = op[d] /\ req'[d] = req[d]
    BY <1>0, <1>7 DEF CallbackEnds, TypeOK
  <1>8. ASSUME NEW c \in Callers, ReserveInsert(c)
        PROVE  /\ rows'[op'[d]].key = req'[d].key
               /\ rows'[op'[d]].content = req'[d].content
               /\ rows'[op'[d]].variant = req'[d].variant
    <2>1. CASE d = c
      BY <1>0, <1>8, <2>1, InsertedRows DEF ReserveInsert, TypeOK
    <2>2. CASE d # c
      BY <1>0, <1>1, <1>8, <2>2 DEF ReserveInsert, TypeOK
    <2> QED BY <2>1, <2>2
  <1>9. CASE UNCHANGED vars
    BY <1>1, <1>9 DEF vars, callerVars
  <1> QED BY <1>1, <1>2, <1>3, <1>5, <1>6, <1>7, <1>8, <1>9 DEF Next, Reserve

\* An answer that names an operation is true when it is given ...
Truth(c) ==
    reply[c].kind \in {"sent", "replay", "guard_replay"} =>
        /\ reply[c].op \in 1..Len(rows)
        /\ rows[reply[c].op].state = "sent" /\ rows[reply[c].op].content = req[c].content
        /\ reply[c].kind # "guard_replay" =>
              /\ rows[reply[c].op].key = req[c].key
              /\ rows[reply[c].op].variant = req[c].variant

LEMMA TruthDef == AnswersTruthful <=> \A c \in Callers : Truth(c)
  BY DEF AnswersTruthful, Truth

\* ... and stays true: rows are kept, and a kept answer keeps its request.
LEMMA TruthKept ==
    ASSUME Inv1, [Next]_vars, NEW d \in Callers, Truth(d),
           reply'[d] = reply[d], req'[d] = req[d]
    PROVE  Truth(d)'
  BY RowsKept DEF Truth, SameIdentity

LEMMA TruthNext == Inv2 /\ AnswersTruthful /\ [Next]_vars => AnswersTruthful'
  <1> SUFFICES ASSUME Inv2, AnswersTruthful, [Next]_vars, NEW d \in Callers
               PROVE  Truth(d)'
    BY DEF AnswersTruthful, Truth
  <1>0. Inv1 /\ TypeOK /\ OwnedProgress /\ HeldMatches /\ Truth(d)
        /\ Len(rows) \in Nat /\ 1..Len(rows) \subseteq 0..MaxRows
    BY TruthDef, LedgerAssumption DEF Inv2, Inv1, TypeOK
  <1>1. ASSUME reply'[d] = reply[d], req'[d] = req[d] PROVE Truth(d)'
    BY <1>0, <1>1, TruthKept
  <1>2. ASSUME reply'[d] \in {NoReply, Error} PROVE Truth(d)'
    BY <1>2 DEF Truth, NoReply, Error
  <1>3. ASSUME NEW c \in Callers, c # d, NEW r \in Replies, Answer(c, r) PROVE Truth(d)'
    BY <1>0, <1>1, <1>3 DEF Answer, TypeOK
  <1>4. ASSUME NEW r \in Replies, Answer(d, r), r \in {NoReply, Error} PROVE Truth(d)'
    BY <1>0, <1>2, <1>4 DEF Answer, TypeOK
  <1>5. ASSUME NEW i \in 1..Len(rows), NEW k \in {"sent", "replay", "guard_replay"},
               Answer(d, [kind |-> k, op |-> i])
        PROVE  reply'[d].kind = k /\ reply'[d].op = i /\ req'[d] = req[d]
    BY <1>0, <1>5 DEF Answer, TypeOK
  <1>6. CASE Tick
    BY <1>1, <1>6 DEF Tick, callerVars
  <1>7. ASSUME NEW c \in Callers, NEW r \in Asked, Begin(c, r) PROVE Truth(d)'
    BY <1>0, <1>1, <1>2, <1>7 DEF Begin, TypeOK
  <1>8. ASSUME NEW c \in Callers,
               \/ ReserveInsert(c) \/ \E o \in Outcomes : CallbackEnds(c, o)
        PROVE  Truth(d)'
    BY <1>1, <1>8 DEF ReserveInsert, CallbackEnds
  <1>9. ASSUME NEW c \in Callers, ReserveKnownKey(c) PROVE Truth(d)'
    <2>1. PICK i \in KeyRows(c) :
             \/ ~SamePayload(i, c) /\ Decline(c, Error)
             \/ SamePayload(i, c) /\ rows[i].state = "sent"
                /\ Decline(c, [kind |-> "replay", op |-> i])
             \/ SamePayload(i, c) /\ rows[i].state # "sent" /\ Decline(c, Error)
      BY <1>9 DEF ReserveKnownKey
    <2>2. i \in 1..Len(rows) /\ rows[i].key = req[c].key
      BY <2>1 DEF KeyRows
    <2>3. PICK r \in Replies : Decline(c, r)
      BY <1>0, <2>1, <2>2, ReplyTypes
    <2>4. CASE c # d
      BY <1>3, <2>3, <2>4 DEF Decline
    <2>5. CASE c = d /\ Decline(c, Error)
      BY <1>4, <2>5, ReplyTypes DEF Decline
    <2>6. CASE /\ c = d /\ SamePayload(i, c) /\ rows[i].state = "sent"
               /\ Decline(c, [kind |-> "replay", op |-> i])
      <3>1. reply'[d].kind = "replay" /\ reply'[d].op = i /\ req'[d] = req[d]
            /\ rows' = rows
        BY <1>5, <2>2, <2>6 DEF Decline
      <3> QED BY <2>2, <2>6, <3>1 DEF Truth, SamePayload
    <2> QED BY <2>1, <2>4, <2>5, <2>6
  <1>10. ASSUME NEW c \in Callers, ReserveNearDuplicate(c) PROVE Truth(d)'
    <2>1. PICK i \in Newest(Recent(c)) :
             \/ rows[i].state = "sent" /\ Decline(c, [kind |-> "guard_replay", op |-> i])
             \/ rows[i].state # "sent" /\ Decline(c, Error)
      BY <1>10 DEF ReserveNearDuplicate
    <2>2. i \in 1..Len(rows) /\ rows[i].content = req[c].content
      BY <2>1 DEF Newest, Recent
    <2>3. PICK r \in Replies : Decline(c, r)
      BY <1>0, <2>1, <2>2, ReplyTypes
    <2>4. CASE c # d
      BY <1>3, <2>3, <2>4 DEF Decline
    <2>5. CASE c = d /\ Decline(c, Error)
      BY <1>4, <2>5, ReplyTypes DEF Decline
    <2>6. CASE /\ c = d /\ rows[i].state = "sent"
               /\ Decline(c, [kind |-> "guard_replay", op |-> i])
      <3>1. reply'[d].kind = "guard_replay" /\ reply'[d].op = i /\ req'[d] = req[d]
            /\ rows' = rows
        BY <1>5, <2>2, <2>6 DEF Decline
      <3> QED BY <2>2, <2>6, <3>1 DEF Truth
    <2> QED BY <2>1, <2>4, <2>5, <2>6
  <1>11. ASSUME NEW c \in Callers, ReserveFails(c) \/ FinishFails(c) \/ Crash(c)
         PROVE  Truth(d)'
    <2>1. PICK r \in {NoReply, Error} : Answer(c, r)
      BY <1>11 DEF ReserveFails, FinishFails, Crash, Decline
    <2> QED BY <1>3, <1>4, <2>1, ReplyTypes
  <1>12. ASSUME NEW c \in Callers, Finish(c) PROVE Truth(d)'
    <2>1. /\ op[c] \in 1..Len(rows) /\ Len(rows') = Len(rows)
          /\ SameIdentity(rows'[op[c]], rows[op[c]]) /\ rows'[op[c]].state = verdict[c]
      <3>1. op[c] \in 1..Len(rows) /\ rows[op[c]] \in Rows /\ verdict[c] \in Outcomes
        BY <1>0, <1>12, SettledRows, RowFacts DEF TypeOK
      <3>2. /\ Len(rows') = Len(rows)
            /\ rows'[op[c]] = [rows[op[c]] EXCEPT !.state = verdict[c]]
        BY <1>0, <1>12, SettledRows
      <3>3. /\ SameIdentity([rows[op[c]] EXCEPT !.state = verdict[c]], rows[op[c]])
            /\ [rows[op[c]] EXCEPT !.state = verdict[c]].state = verdict[c]
        BY <3>1, StateOnly
      <3> QED BY <3>1, <3>2, <3>3
    <2>2. CASE c # d
      <3>1. PICK r \in Replies : Answer(c, r)
        BY <1>0, <1>12, <2>1, ReplyTypes DEF Finish
      <3> QED BY <1>3, <2>2, <3>1
    <2>3. CASE c = d /\ verdict[c] # "sent"
      BY <1>4, <1>12, <2>3, ReplyTypes DEF Finish
    <2>4. CASE c = d /\ verdict[c] = "sent"
      <3>1. Answer(d, [kind |-> "sent", op |-> op[d]])
        BY <1>12, <2>4 DEF Finish
      <3>2. reply'[d].kind = "sent" /\ reply'[d].op = op[d] /\ req'[d] = req[d]
        BY <1>5, <2>1, <2>4, <3>1
      <3>3. /\ rows[op[d]].key = req[d].key /\ rows[op[d]].content = req[d].content
            /\ rows[op[d]].variant = req[d].variant
        BY <1>0, <1>12, <2>4 DEF HeldMatches, Finish
      <3> QED BY <2>1, <2>4, <3>2, <3>3 DEF Truth, SameIdentity
    <2> QED BY <2>2, <2>3, <2>4
  <1>13. CASE UNCHANGED vars
    BY <1>1, <1>13 DEF vars, callerVars
  <1> QED BY <1>6, <1>7, <1>8, <1>9, <1>10, <1>11, <1>12, <1>13 DEF Next, Reserve

\* No caller is ever told of a send that the ledger does not record as sent,
\* for its own content and, by key, its own payload.
THEOREM TruthfulAnswers == Spec => []AnswersTruthful
  <1>1. Init => HeldMatches /\ AnswersTruthful
    BY DEF Init, HeldMatches, AnswersTruthful, NoReply
  <1>2. Inv2 /\ AnswersTruthful /\ [Next]_vars => Inv2' /\ AnswersTruthful'
    BY Inv1Next, HeldNext, TruthNext DEF Inv2
  <1>3. Init => Inv2 /\ AnswersTruthful
    BY <1>1, Inv1Init DEF Inv2
  <1> QED BY <1>2, <1>3, PTL DEF Spec
-----------------------------------------------------------------------------
(***************************************************************************)
(* The ledger implements AtMostOnce.                                       *)
(***************************************************************************)
Payload(i) == [content |-> rows[i].content, variant |-> rows[i].variant]

\* With one row per key, the mapping shows that row.
LEMMA SubmissionOfRow ==
    ASSUME AtMostOncePerKey, NEW k \in Keys, NEW i \in 1..Len(rows), rows[i].key = k
    PROVE  Submission(k) = [payload |-> Payload(i), state |-> rows[i].state]
  <1>1. k # NoKey
    BY LedgerAssumption
  <1>2. \A j \in 1..Len(rows) : rows[j].key = k => j = i
    BY <1>1 DEF AtMostOncePerKey
  <1>3. (CHOOSE j \in 1..Len(rows) : rows[j].key = k) = i
    BY <1>2
  <1>4. ~Several(k)
    BY <1>1 DEF Several, AtMostOncePerKey
  <1> QED BY <1>3, <1>4 DEF Submission, Payload

LEMMA SubmissionOfNone ==
    ASSUME NEW k \in Keys, \A i \in 1..Len(rows) : rows[i].key # k
    PROVE  Submission(k) = [state |-> "unused"]
  BY DEF Submission, Several

\* A key keeps its submission when neither its rows nor their states change.
LEMMA SubmissionKept ==
    ASSUME AtMostOncePerKey, AtMostOncePerKey', NEW k \in Keys,
           \A i \in 1..Len(rows) : rows[i].key = k => i \in 1..Len(rows') /\ rows'[i] = rows[i],
           \A i \in 1..Len(rows') : rows'[i].key = k => i \in 1..Len(rows) /\ rows'[i] = rows[i]
    PROVE  Submission(k)' = Submission(k)
  <1>1. CASE \E i \in 1..Len(rows) : rows[i].key = k
    <2>1. PICK i \in 1..Len(rows) : rows[i].key = k
      BY <1>1
    <2>2. i \in 1..Len(rows') /\ rows'[i] = rows[i] /\ rows'[i].key = k
      BY <2>1
    <2>3. Submission(k) = [payload |-> Payload(i), state |-> rows[i].state]
      BY <2>1, SubmissionOfRow
    <2>4. k # NoKey /\ \A j \in 1..Len(rows') : rows'[j].key = k => j = i
      BY <2>2, LedgerAssumption DEF AtMostOncePerKey
    <2>5. (CHOOSE j \in 1..Len(rows') : rows'[j].key = k) = i
      BY <2>2, <2>4
    <2>6. ~Several(k)'
      BY <2>4 DEF Several
    <2>7. Submission(k)' = [payload |-> Payload(i)', state |-> rows'[i].state]
      BY <2>2, <2>5, <2>6 DEF Submission, Payload
    <2> QED BY <2>2, <2>3, <2>7 DEF Payload
  <1>2. CASE ~ \E i \in 1..Len(rows) : rows[i].key = k
    BY <1>2 DEF Submission, Several
  <1> QED BY <1>1, <1>2

LEMMA StepImplements ==
    ASSUME Inv1, AtMostOncePerKey, AtMostOncePerKey', [Next]_vars
    PROVE  [Promise!Next]_([k \in Keys |-> Submission(k)])
  <1> DEFINE sub == [k \in Keys |-> Submission(k)]
  <1>0. TypeOK /\ Len(rows) \in Nat /\ NoKey \notin Keys
    BY LedgerAssumption DEF Inv1, TypeOK
  <1>1. ASSUME NEW c \in Callers, Inserts(c) PROVE [Promise!Next]_sub
    <2>k. PICK k : k = req[c].key
      OBVIOUS
    <2>n. PICK n : n = Len(rows) + 1
      OBVIOUS
    <2> DEFINE v == [content |-> req[c].content, variant |-> req[c].variant]
    <2>0. req[c] \in Requests
      BY <1>0, AskedFacts DEF TypeOK
    <2>1. /\ rows'[n].key = k /\ rows'[n].content = req[c].content
          /\ rows'[n].variant = req[c].variant /\ rows'[n].state = "in_progress"
          /\ n \in 1..Len(rows')
      BY <1>0, <1>1, <2>k, <2>n DEF Inserts
    <2>2. \A j \in Keys : j # k => Submission(j)' = Submission(j)
      <3> SUFFICES ASSUME NEW j \in Keys, j # k PROVE Submission(j)' = Submission(j)
        OBVIOUS
      <3>1. \A i \in 1..Len(rows) : i \in 1..Len(rows') /\ rows'[i] = rows[i]
        BY <1>0, <1>1 DEF Inserts
      <3>2. \A i \in 1..Len(rows') : rows'[i].key = j => i \in 1..Len(rows)
        BY <1>0, <1>1, <2>1, <2>n DEF Inserts
      <3> QED BY <3>1, <3>2, SubmissionKept
    <2>3. CASE k \notin Keys
      <3>1. sub' = sub
        BY <2>2, <2>3
      <3> QED BY <3>1
    <2>4. CASE k \in Keys
      <3>1. \A i \in 1..Len(rows) : rows[i].key # k
        BY <1>0, <1>1, <2>4, <2>k DEF Inserts, KeyRows
      <3>2. Submission(k) = [state |-> "unused"]
        BY <2>4, <3>1, SubmissionOfNone
      <3>3. (CHOOSE i \in 1..Len(rows') : rows'[i].key = k) = n
        BY <1>0, <2>1, <2>4 DEF AtMostOncePerKey
      <3>s. ~Several(k)'
        BY <2>4, LedgerAssumption DEF Several, AtMostOncePerKey
      <3>4. Submission(k)' = [payload |-> v, state |-> "in_progress"]
        BY <2>1, <3>3, <3>s DEF Submission, Payload
      <3>5. v \in [content : Contents, variant : Variants]
        BY <2>0, RequestFacts
      <3>6. sub' = [sub EXCEPT ![k] = [payload |-> v, state |-> "in_progress"]]
        BY <2>2, <2>4, <3>4
      <3>7. sub[k] = [state |-> "unused"]
        BY <2>4, <3>2
      <3>8. Promise!Submit(k, v)
        BY <3>6, <3>7 DEF Promise!Submit, Promise!Nothing
      <3> QED BY <2>4, <3>5, <3>8 DEF Promise!Next
    <2> QED BY <2>3, <2>4
  <1>2. ASSUME NEW c \in Callers, Settles(c) PROVE [Promise!Next]_sub
    <2>i. PICK i : i = op[c]
      OBVIOUS
    <2>k. PICK k : k = rows[i].key
      OBVIOUS
    <2>1. /\ i \in 1..Len(rows) /\ i \in 1..Len(rows') /\ Len(rows') = Len(rows)
          /\ SameIdentity(rows'[i], rows[i]) /\ rows[i].state = "in_progress"
          /\ rows'[i].state = verdict[c] /\ verdict[c] \in Outcomes
          /\ \A j \in 1..Len(rows) : j # i => rows'[j] = rows[j]
      BY <1>2, <2>i DEF Settles
    <2>2. \A j \in Keys : j # k => Submission(j)' = Submission(j)
      <3> SUFFICES ASSUME NEW j \in Keys, j # k PROVE Submission(j)' = Submission(j)
        OBVIOUS
      <3>1. \A m \in 1..Len(rows) : rows[m].key = j => m \in 1..Len(rows') /\ rows'[m] = rows[m]
        BY <2>1, <2>k
      <3>2. \A m \in 1..Len(rows') : rows'[m].key = j => m \in 1..Len(rows) /\ rows'[m] = rows[m]
        BY <2>1, <2>k DEF SameIdentity
      <3> QED BY <3>1, <3>2, SubmissionKept
    <2>3. CASE k \notin Keys
      <3>1. sub' = sub
        BY <2>2, <2>3
      <3> QED BY <3>1
    <2>4. CASE k \in Keys
      <3>1. Submission(k) = [payload |-> Payload(i), state |-> "in_progress"]
        BY <2>1, <2>4, <2>k, SubmissionOfRow
      <3>2. rows'[i].key = k /\ rows'[i].content = rows[i].content
            /\ rows'[i].variant = rows[i].variant
        BY <2>1, <2>k DEF SameIdentity
      <3>3. (CHOOSE j \in 1..Len(rows') : rows'[j].key = k) = i
        BY <1>0, <2>1, <2>4, <3>2 DEF AtMostOncePerKey
      <3>s. ~Several(k)'
        BY <2>4, LedgerAssumption DEF Several, AtMostOncePerKey
      <3>4. Submission(k)' = [payload |-> Payload(i), state |-> verdict[c]]
        BY <2>1, <3>2, <3>3, <3>s DEF Submission, Payload
      <3>5. sub[k] = [payload |-> Payload(i), state |-> "in_progress"]
        BY <2>4, <3>1
      <3>6. sub' = [sub EXCEPT ![k] = [payload |-> Payload(i), state |-> verdict[c]]]
        BY <2>2, <2>4, <3>4
      <3>7. [sub[k] EXCEPT !.state = verdict[c]] = [payload |-> Payload(i), state |-> verdict[c]]
        BY <3>5
      <3>8. sub[k] # [state |-> "unused"] /\ sub[k].state = "in_progress"
        BY <3>5
      <3>9. Promise!Settle(k, verdict[c])
        BY <3>6, <3>7, <3>8 DEF Promise!Settle, Promise!Nothing
      <3> QED BY <2>1, <2>4, <3>9 DEF Promise!Next, Promise!Outcomes, Outcomes
    <2> QED BY <2>3, <2>4
  <1>3. CASE rows' = rows
    BY <1>3 DEF Submission, Several
  <1> QED BY <1>1, <1>2, <1>3, TableSteps

\* The ledger implements the abstract at-most-once promise, for every value of
\* the constants.
THEOREM Refinement == Spec => ImplementsAtMostOnce
  <1>1. Init => Promise!Init
    BY DEF Init, Promise!Init, Promise!Nothing, Submission, Several
  <1>2. Init => AtMostOncePerKey
    BY DEF Init, AtMostOncePerKey
  <1>3. Inv1 /\ AtMostOncePerKey /\ [Next]_vars =>
            Inv1' /\ AtMostOncePerKey' /\ [Promise!Next]_([k \in Keys |-> Submission(k)])
    BY Inv1Next, KeyNext, StepImplements
  <1> QED BY <1>1, <1>2, <1>3, Inv1Init, PTL DEF Spec, ImplementsAtMostOnce, Promise!Spec
=============================================================================
