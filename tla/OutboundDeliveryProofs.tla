----------------------- MODULE OutboundDeliveryProofs -----------------------
(***************************************************************************)
(* Theorems about sends through the SMTP transport, for any number of      *)
(* callers, recipients, attempts and rows: the transport steps implement   *)
(* the opaque callback of OutboundSafety, so every theorem about the       *)
(* ledger is one about the delivery, and from there no leg of an operation *)
(* is taken twice and reports are true.                                    *)
(***************************************************************************)
EXTENDS OutboundDelivery, TLAPS

\* The theorems of the ledger, about the ledger's variables of this module.
LP == INSTANCE OutboundSafetyProofs

\* What they assume of the constants is assumed here.
LEMMA LedgerConstants == LP!LedgerAssumption
  BY DeliveryAssumption DEF LP!LedgerAssumption, LP!Requests, Ledger!Requests

\* Ledger and LP instantiate one module: their definitions say the same.
LEMMA SameTypes ==
    /\ LP!Inv1 <=> Ledger!TypeOK /\ Ledger!OwnedProgress
    /\ LP!Init <=> Ledger!Init
  BY DEF LP!Inv1, LP!TypeOK, Ledger!TypeOK, LP!OwnedProgress, Ledger!OwnedProgress,
         LP!Rows, Ledger!Rows, LP!Replies, Ledger!Replies, LP!Outcomes, Ledger!Outcomes,
         LP!AnyRequest, Ledger!AnyRequest, LP!NoReply, Ledger!NoReply, LP!Init, Ledger!Init

LEMMA SameSteps ==
    ASSUME NEW c \in Callers
    PROVE  /\ \A r \in Asked : LP!Begin(c, r) <=> Ledger!Begin(c, r)
           /\ LP!ReserveKnownKey(c) <=> Ledger!ReserveKnownKey(c)
           /\ LP!ReserveNearDuplicate(c) <=> Ledger!ReserveNearDuplicate(c)
           /\ LP!ReserveInsert(c) <=> Ledger!ReserveInsert(c)
           /\ LP!ReserveFails(c) <=> Ledger!ReserveFails(c)
           /\ \A o : LP!CallbackEnds(c, o) <=> Ledger!CallbackEnds(c, o)
           /\ LP!Finish(c) <=> Ledger!Finish(c)
           /\ LP!FinishFails(c) <=> Ledger!FinishFails(c)
           /\ LP!Crash(c) <=> Ledger!Crash(c)
  <1>1. \A r : LP!Answer(c, r) <=> Ledger!Answer(c, r)
    BY DEF LP!Answer, Ledger!Answer, LP!AnyRequest, Ledger!AnyRequest
  <1>2. \A r : LP!Decline(c, r) <=> Ledger!Decline(c, r)
    BY <1>1 DEF LP!Decline, Ledger!Decline
  <1>3. LP!KeyRows(c) = Ledger!KeyRows(c) /\ LP!Recent(c) = Ledger!Recent(c)
    BY DEF LP!KeyRows, Ledger!KeyRows, LP!Recent, Ledger!Recent
  <1>4. \A S : LP!Newest(S) = Ledger!Newest(S)
    BY DEF LP!Newest, Ledger!Newest
  <1>5. LP!Error = Ledger!Error /\ LP!NoReply = Ledger!NoReply
    BY DEF LP!Error, Ledger!Error, LP!NoReply, Ledger!NoReply
  <1>6. \A i : LP!SamePayload(i, c) <=> Ledger!SamePayload(i, c)
    BY DEF LP!SamePayload, Ledger!SamePayload
  <1>7. \A r \in Asked : LP!Begin(c, r) <=> Ledger!Begin(c, r)
    BY <1>5 DEF LP!Begin, Ledger!Begin
  <1>8. LP!ReserveKnownKey(c) <=> Ledger!ReserveKnownKey(c)
    BY <1>2, <1>3, <1>5, <1>6, Zenon DEF LP!ReserveKnownKey, Ledger!ReserveKnownKey
  <1>9. LP!ReserveNearDuplicate(c) <=> Ledger!ReserveNearDuplicate(c)
    BY <1>2, <1>3, <1>4, <1>5, Zenon DEF LP!ReserveNearDuplicate, Ledger!ReserveNearDuplicate
  <1>10. LP!ReserveInsert(c) <=> Ledger!ReserveInsert(c)
    BY <1>3 DEF LP!ReserveInsert, Ledger!ReserveInsert
  <1>11. LP!ReserveFails(c) <=> Ledger!ReserveFails(c)
    BY <1>2, <1>5 DEF LP!ReserveFails, Ledger!ReserveFails
  <1>12. \A o : LP!CallbackEnds(c, o) <=> Ledger!CallbackEnds(c, o)
    BY DEF LP!CallbackEnds, Ledger!CallbackEnds
  <1>13. LP!Finish(c) <=> Ledger!Finish(c)
    BY <1>1, <1>5, Zenon DEF LP!Finish, Ledger!Finish
  <1>14. LP!FinishFails(c) <=> Ledger!FinishFails(c)
    BY <1>1, <1>5 DEF LP!FinishFails, Ledger!FinishFails
  <1>15. LP!Crash(c) <=> Ledger!Crash(c)
    BY <1>1, <1>5 DEF LP!Crash, Ledger!Crash
  <1> QED BY <1>7, <1>8, <1>9, <1>10, <1>11, <1>12, <1>13, <1>14, <1>15

LEMMA SameNext == [LP!Next]_(LP!vars) <=> [Ledger!Next]_(Ledger!vars)
  <1>1. LP!Next <=> Ledger!Next
    BY SameSteps DEF LP!Next, Ledger!Next, LP!Reserve, Ledger!Reserve, LP!Outcomes, Ledger!Outcomes, LP!Tick, Ledger!Tick, LP!callerVars, Ledger!callerVars
  <1> QED BY <1>1 DEF LP!vars, Ledger!vars, LP!callerVars, Ledger!callerVars

-----------------------------------------------------------------------------
(***************************************************************************)
(* Refinement.                                                             *)
(***************************************************************************)
\* A send that leaves the transport ends the callback with one of the outcomes.
LEMMA LeaveEnds ==
    ASSUME NEW c \in Callers, NEW o \in {"sent", "failed", "delivery_uncertain"}, Leave(c, o)
    PROVE  Ledger!Next
  BY DEF Leave, Ledger!Next, Ledger!Outcomes

LEMMA LegFailsEnds ==
    ASSUME NEW c \in Callers, NEW o \in {"failed", "delivery_uncertain"}, LegFails(c, o)
    PROVE  Ledger!Next \/ UNCHANGED ledgerVars
  BY LeaveEnds DEF LegFails, NextLeg

\* Every step of a delivery is a step of the ledger or leaves it alone.
LEMMA StepIsLedgerStep == [Next]_vars => [Ledger!Next]_(Ledger!vars)
  <1> SUFFICES ASSUME [Next]_vars PROVE Ledger!Next \/ UNCHANGED ledgerVars
    BY DEF ledgerVars, Ledger!vars, Ledger!callerVars
  <1>1. CASE Ledger!Tick
    BY <1>1 DEF Ledger!Next
  <1>2. ASSUME NEW c \in Callers, LedgerOnly(c) PROVE Ledger!Next
    BY <1>2 DEF LedgerOnly, Ledger!Next, Ledger!Reserve
  <1>3. ASSUME NEW c \in Callers, Enter(c) PROVE Ledger!Next
    BY <1>3 DEF Enter, Ledger!Next, Ledger!Reserve
  <1>4. ASSUME NEW c \in Callers, Crash(c) PROVE Ledger!Next
    BY <1>4 DEF Crash, Ledger!Next
  <1>5. ASSUME NEW c \in Callers, Transport(c) PROVE Ledger!Next \/ UNCHANGED ledgerVars
    <2>1. CASE Blocked(c)
      BY <2>1, LegFailsEnds DEF Blocked
    <2>2. CASE PrepareFails(c)
      BY <2>2, LeaveEnds DEF PrepareFails
    <2>3. CASE Allowed(c)
      BY <2>3 DEF Allowed
    <2>4. CASE Accepted(c) \/ Refused(c) \/ AnswerLost(c)
      BY <2>4 DEF Accepted, Refused, AnswerLost, SubmissionEnds
    <2>5. CASE RecordSent(c) \/ RecordRetry(c)
      BY <2>5 DEF RecordSent, RecordRetry, NextLeg
    <2>6. CASE RecordGivesUp(c)
      BY <2>6, LegFailsEnds DEF RecordGivesUp
    <2>7. CASE RecordFails(c)
      BY <2>7, LegFailsEnds DEF RecordFails
    <2>8. CASE Archive(c)
      BY <2>8, LeaveEnds DEF Archive
    <2> QED BY <1>5, <2>1, <2>2, <2>3, <2>4, <2>5, <2>6, <2>7, <2>8 DEF Transport
  <1>6. CASE UNCHANGED vars
    BY <1>6 DEF vars
  <1> QED BY <1>1, <1>2, <1>3, <1>4, <1>5, <1>6 DEF Next

\* The delivery implements the ledger, for every value of the constants.
LEMMA DeliveryRefinesLedger == Spec => ImplementsLedger
  <1>1. Init => Ledger!Init
    BY DEF Init
  <1> QED BY <1>1, StepIsLedgerStep, PTL DEF Spec, ImplementsLedger, Ledger!Spec

\* ... and so in LP's words, in which the theorems of the ledger are stated.
LEMMA DeliveryIsLedger == Spec => LP!Spec
  <1>1. Init => LP!Init
    BY SameTypes DEF Init
  <1>2. [Next]_vars => [LP!Next]_(LP!vars)
    BY StepIsLedgerStep, SameNext
  <1> QED BY <1>1, <1>2, PTL DEF Spec, LP!Spec

-----------------------------------------------------------------------------
(***************************************************************************)
(* What is known of every leg, step by step.                               *)
(***************************************************************************)
Untouched(i) == \A l \in 1..Recipients : accepted[i][l] = 0

\* A caller in the transport is at a leg the server has not taken before it
\* answers, and has taken or not taken once it has answered; the legs after it
\* and the archive are still to come.  An ordinary send has the first leg only.
LegKnown(c) ==
    pc[c] = "sending" =>
        /\ \A l \in 1..Recipients : l > leg[c] => accepted[op[c]][l] = 0
        /\ step[c] \in {"check", "submit"} => accepted[op[c]][leg[c]] = 0
        /\ step[c] = "record" /\ answer[c] = "sent" => accepted[op[c]][leg[c]] = 1
        /\ step[c] = "record" /\ answer[c] \in {"temporary", "permanent"}
              => accepted[op[c]][leg[c]] = 0
        /\ archived[op[c]] = 0
        /\ ~individualized(c) =>
              /\ leg[c] = 1 /\ deliveries[c] = {}
              /\ step[c] = "archive" => accepted[op[c]][1] = 1

\* Only a caller in the transport lists deliveries, and those were taken.
ListKnown(c) ==
    /\ pc[c] # "sending" => deliveries[c] = {}
    /\ \A l \in deliveries[c] : accepted[op[c]][l] = 1

\* What the callback made of the send, before the ledger has recorded it.
VerdictKnown(c) ==
    pc[c] = "finishing" =>
        /\ verdict[c] = "failed" /\ faults = 0 => Untouched(op[c])
        /\ verdict[c] = "sent" /\ ~individualized(c) => accepted[op[c]][1] = 1

\* A row that does not exist yet has no copies; one that does has at most one
\* copy of a leg, in Sent only with a copy taken, and its recorded state agrees.
RowKnown(i) ==
    /\ \A l \in 1..Recipients : accepted[i][l] <= 1
    /\ i > Len(rows) => archived[i] = 0 /\ Untouched(i)
    /\ archived[i] > 0 => archived[i] = 1 /\ \E l \in 1..Recipients : accepted[i][l] > 0
    /\ i <= Len(rows) =>
          /\ rows[i].state = "failed" /\ faults = 0 => Untouched(i)
          /\ rows[i].state = "sent" /\ rows[i].variant \notin Individualized
                => accepted[i][1] = 1

CallerKnown(c) == LegKnown(c) /\ ListKnown(c) /\ VerdictKnown(c)
Known == (\A c \in Callers : CallerKnown(c)) /\ (\A i \in 1..MaxRows : RowKnown(i))

\* Inductive together with the ledger's own invariant.
DeliveryInv == TypeOK /\ LP!Inv2 /\ Known

\* What the ledger's invariant says of the row a caller holds.
LEMMA HeldRow ==
    ASSUME LP!Inv2, NEW c \in Callers, pc[c] \in {"sending", "finishing"}
    PROVE  /\ op[c] \in 1..Len(rows) /\ Len(rows) \in Nat /\ Len(rows) <= MaxRows
           /\ op[c] \in 1..MaxRows
           /\ rows[op[c]].state = "in_progress"
           /\ \A d \in Callers \ {c} : op[d] # op[c]
           /\ rows[op[c]].variant = req[c].variant
  <1>1. /\ op[c] \in 1..Len(rows) /\ rows[op[c]].state = "in_progress"
        /\ \A d \in Callers \ {c} : op[d] # op[c]
    BY DEF LP!Inv2, LP!Inv1, LP!OwnedProgress
  <1>2. Len(rows) \in Nat /\ Len(rows) <= MaxRows
    BY DEF LP!Inv2, LP!Inv1, LP!TypeOK
  <1>3. rows[op[c]].variant = req[c].variant
    BY DEF LP!Inv2, LP!HeldMatches
  <1> QED BY <1>1, <1>2, <1>3, DeliveryAssumption

LEMMA LedgerInvNext == LP!Inv2 /\ [Next]_vars => LP!Inv2'
  <1>1. [Next]_vars => [LP!Next]_(LP!vars)
    BY StepIsLedgerStep, SameNext
  <1>2. LP!Inv2 /\ [LP!Next]_(LP!vars) => LP!Inv2'
    BY LP!Inv1Next, LP!HeldNext, LedgerConstants DEF LP!Inv2
  <1> QED BY <1>1, <1>2

\* The step concerns caller c and the row it holds, and no row of the table.
Concerns(c) ==
    /\ rows' = rows
    /\ \A d \in Callers \ {c} :
          /\ pc'[d] = pc[d] /\ req'[d] = req[d] /\ op'[d] = op[d] /\ verdict'[d] = verdict[d]
          /\ step'[d] = step[d] /\ leg'[d] = leg[d] /\ answer'[d] = answer[d]
          /\ deliveries'[d] = deliveries[d]
    /\ \A i \in 1..MaxRows : i # op[c] =>
          archived'[i] = archived[i] /\ \A l \in 1..Recipients : accepted'[i][l] = accepted[i][l]
    /\ faults' = 0 => faults = 0

\* Such a step preserves what is known of the other callers and rows.
LEMMA OthersKept ==
    ASSUME DeliveryInv, NEW c \in Callers, pc[c] = "sending", Concerns(c)
    PROVE  /\ \A d \in Callers \ {c} : CallerKnown(d)'
           /\ \A i \in 1..MaxRows : i # op[c] => RowKnown(i)'
  <1>0. TypeOK /\ LP!Inv2 /\ Known
    BY DEF DeliveryInv
  <1>1. ASSUME NEW d \in Callers, d # c PROVE CallerKnown(d)'
    <2>1. /\ pc'[d] = pc[d] /\ req'[d] = req[d] /\ op'[d] = op[d] /\ verdict'[d] = verdict[d]
          /\ step'[d] = step[d] /\ leg'[d] = leg[d] /\ answer'[d] = answer[d]
          /\ deliveries'[d] = deliveries[d] /\ (faults' = 0 => faults = 0)
      BY <1>1 DEF Concerns
    <2>2. LegKnown(d) /\ ListKnown(d) /\ VerdictKnown(d)
      BY <1>0, <1>1 DEF Known, CallerKnown
    <2>3. CASE pc[d] \notin {"sending", "finishing"}
      BY <2>1, <2>2, <2>3 DEF CallerKnown, LegKnown, ListKnown, VerdictKnown
    <2>4. CASE pc[d] \in {"sending", "finishing"}
      <3>1. op[d] \in 1..MaxRows /\ op[d] # op[c]
        BY <1>0, <1>1, <2>4, HeldRow
      <3>2. archived'[op[d]] = archived[op[d]]
            /\ \A l \in 1..Recipients : accepted'[op[d]][l] = accepted[op[d]][l]
        BY <3>1 DEF Concerns
      <3>3. leg[d] \in 1..Recipients /\ deliveries[d] \subseteq 1..Recipients /\ 1 \in 1..Recipients
        BY <1>0, <1>1, DeliveryAssumption DEF TypeOK
      <3>4. LegKnown(d)'
        BY <2>1, <2>2, <3>2, <3>3 DEF LegKnown, individualized
      <3>5. ListKnown(d)'
        BY <2>1, <2>2, <3>2, <3>3 DEF ListKnown
      <3>6. VerdictKnown(d)'
        BY <2>1, <2>2, <3>2, <3>3 DEF VerdictKnown, individualized, Untouched
      <3> QED BY <3>4, <3>5, <3>6 DEF CallerKnown
    <2> QED BY <2>3, <2>4
  <1>2. ASSUME NEW i \in 1..MaxRows, i # op[c] PROVE RowKnown(i)'
    <2>1. archived'[i] = archived[i] /\ \A l \in 1..Recipients : accepted'[i][l] = accepted[i][l]
      BY <1>2 DEF Concerns
    <2>2. rows' = rows /\ (faults' = 0 => faults = 0)
      BY DEF Concerns
    <2>3. RowKnown(i)
      BY <1>0, <1>2 DEF Known
    <2>4. 1 \in 1..Recipients
      BY DeliveryAssumption
    <2> QED BY <2>1, <2>2, <2>3, <2>4 DEF RowKnown, Untouched
  <1> QED BY <1>1, <1>2

\* So it is enough to look at the caller and its row, which is in progress.
LEMMA OwnStep ==
    ASSUME DeliveryInv, NEW c \in Callers, pc[c] = "sending", Concerns(c), CallerKnown(c)',
           \A l \in 1..Recipients : accepted'[op[c]][l] <= 1,
           archived'[op[c]] > 0 =>
               archived'[op[c]] = 1 /\ \E l \in 1..Recipients : accepted'[op[c]][l] > 0
    PROVE  Known'
  <1>k. PICK k : k = op[c]
    OBVIOUS
  <1>0. LP!Inv2 /\ pc[c] \in {"sending", "finishing"}
    BY DEF DeliveryInv
  <1>1. /\ k \in 1..MaxRows /\ k \in 1..Len(rows) /\ Len(rows) \in Nat
        /\ rows[k].state = "in_progress"
    BY <1>0, <1>k, HeldRow
  <1>2. RowKnown(k)'
    BY <1>k, <1>1 DEF RowKnown, Concerns
  <1>3. /\ \A d \in Callers \ {c} : CallerKnown(d)'
        /\ \A i \in 1..MaxRows : i # k => RowKnown(i)'
    BY <1>k, OthersKept
  <1>4. ASSUME NEW d \in Callers PROVE CallerKnown(d)'
    BY <1>3
  <1>5. ASSUME NEW i \in 1..MaxRows PROVE RowKnown(i)'
    BY <1>2, <1>3
  <1> QED BY <1>4, <1>5 DEF Known

-----------------------------------------------------------------------------
\* Type correctness of the transport's own variables.
LEMMA TypeNext == DeliveryInv /\ [Next]_vars => TypeOK'
  <1> SUFFICES ASSUME DeliveryInv, [Next]_vars PROVE TypeOK'
    OBVIOUS
  <1>0. TypeOK /\ LP!Inv2 /\ LP!Inv2'
    BY LedgerInvNext DEF DeliveryInv
  <1>t. (LP!Inv1 => Ledger!TypeOK)'
    BY SameTypes, PTL
  <1>1. Ledger!TypeOK'
    BY <1>0, <1>t DEF LP!Inv2
  <1>2. /\ 1 \in 1..Recipients /\ 1 \in 1..MaxAttempts /\ Recipients \in Nat
        /\ MaxAttempts \in Nat /\ MaxFaults \in Nat /\ MaxRows \in Nat
    BY DeliveryAssumption
  <1> DEFINE Hop == /\ step' \in [Callers -> {"out", "check", "submit", "record", "archive"}]
                    /\ leg' \in [Callers -> 1..Recipients]
                    /\ attempt' \in [Callers -> 1..MaxAttempts]
                    /\ answer' \in [Callers -> Answers]
             Out == \A c \in Callers : step'[c] = "out" <=> pc'[c] # "sending"
             World == /\ deliveries' \in [Callers -> SUBSET (1..Recipients)]
                      /\ accepted' \in [1..MaxRows -> [1..Recipients -> Nat]]
                      /\ archived' \in [1..MaxRows -> Nat]
                      /\ faults' \in 0..MaxFaults
  <1> SUFFICES Hop /\ Out /\ World
    BY <1>1 DEF TypeOK
  <1>3. ASSUME NEW c \in Callers, NEW s \in {"out", "check", "submit", "record", "archive"},
               NEW l \in 1..Recipients, NEW a \in 1..MaxAttempts, Transmit(c, s, l, a)
        PROVE  Hop /\ step'[c] = s /\ \A d \in Callers \ {c} : step'[d] = step[d]
    BY <1>0, <1>3 DEF TypeOK, Transmit, Answers
  <1>4. ASSUME NEW c \in Callers, NEW o, Leave(c, o) PROVE Hop /\ Out
    <2>1. Hop /\ step'[c] = "out" /\ \A d \in Callers \ {c} : step'[d] = step[d]
      BY <1>2, <1>3, <1>4 DEF Leave
    <2>2. pc' = [pc EXCEPT ![c] = "finishing"]
      BY <1>4 DEF Leave, Ledger!CallbackEnds
    <2> QED BY <1>0, <2>1, <2>2 DEF TypeOK, Ledger!TypeOK
  <1>5. ASSUME NEW c \in Callers, pc[c] = "sending",
               NEW s \in {"check", "submit", "record", "archive"},
               NEW l \in 1..Recipients, NEW a \in 1..MaxAttempts, Transmit(c, s, l, a), pc' = pc
        PROVE  Hop /\ Out
    BY <1>0, <1>3, <1>5 DEF TypeOK
  <1>6. ASSUME NEW c \in Callers, step[c] # "out" PROVE pc[c] = "sending"
    BY <1>0, <1>6 DEF TypeOK
  <1>7. ASSUME NEW c \in Callers, pc[c] = "sending", NextLeg(c) PROVE Hop /\ Out
    <2>1. leg[c] \in 1..Recipients /\ pc' = pc
      BY <1>0, <1>7 DEF TypeOK, NextLeg, ledgerVars
    <2>2. CASE leg[c] < Recipients
      <3>1. leg[c] + 1 \in 1..Recipients /\ Transmit(c, "check", leg[c] + 1, 1)
        BY <1>2, <1>7, <2>1, <2>2 DEF NextLeg
      <3> QED BY <1>2, <1>5, <1>7, <2>1, <3>1
    <2>3. CASE ~(leg[c] < Recipients)
      BY <1>2, <1>5, <1>7, <2>1, <2>3 DEF NextLeg
    <2> QED BY <2>2, <2>3
  <1>8. ASSUME NEW c \in Callers, pc[c] = "sending", NEW o, LegFails(c, o) PROVE Hop /\ Out
    BY <1>4, <1>7, <1>8 DEF LegFails
  <1>9. CASE /\ UNCHANGED <<hopVars, worldVars>>
             /\ \A c \in Callers : pc'[c] = "sending" <=> pc[c] = "sending"
    BY <1>0, <1>9 DEF TypeOK, hopVars, worldVars
  <1>10. ASSUME NEW c \in Callers, LedgerOnly(c) \/ Ledger!Tick, NEW d \in Callers
         PROVE  pc'[d] = "sending" <=> pc[d] = "sending"
    <2>1. pc \in [Callers -> {"idle", "reserving", "sending", "finishing"}]
      BY <1>0 DEF TypeOK, Ledger!TypeOK
    <2>2. CASE pc[c] # "sending" /\ \E r : Ledger!Answer(c, r)
      BY <2>1, <2>2 DEF Ledger!Answer
    <2>3. CASE \E r \in Asked : Ledger!Begin(c, r)
      BY <2>1, <2>3 DEF Ledger!Begin
    <2>4. CASE Ledger!Tick
      BY <2>4 DEF Ledger!Tick, Ledger!callerVars
    <2>5. CASE \/ Ledger!ReserveKnownKey(c) \/ Ledger!ReserveNearDuplicate(c)
               \/ Ledger!ReserveFails(c) \/ Ledger!Finish(c) \/ Ledger!FinishFails(c)
      BY <2>2, <2>5 DEF Ledger!ReserveKnownKey, Ledger!ReserveNearDuplicate,
            Ledger!ReserveFails, Ledger!Finish, Ledger!FinishFails, Ledger!Decline
    <2> QED BY <1>10, <2>3, <2>4, <2>5 DEF LedgerOnly
  <1>11. ASSUME NEW c \in Callers, Enter(c) PROVE Hop /\ Out /\ World
    <2>1. Transmit(c, "check", 1, 1) /\ pc' = [pc EXCEPT ![c] = "sending"]
          /\ UNCHANGED <<deliveries, worldVars>>
      BY <1>11 DEF Enter, Ledger!ReserveInsert
    <2>2. Hop /\ step'[c] = "check" /\ \A d \in Callers \ {c} : step'[d] = step[d]
      BY <1>2, <1>3, <2>1
    <2> QED BY <1>0, <2>1, <2>2 DEF TypeOK, Ledger!TypeOK, worldVars
  <1>12. ASSUME NEW c \in Callers, Crash(c) PROVE Hop /\ Out /\ World
    <2>1. Transmit(c, "out", 1, 1) /\ pc' = [pc EXCEPT ![c] = "idle"]
          /\ deliveries' = [deliveries EXCEPT ![c] = {}] /\ UNCHANGED worldVars
      BY <1>12 DEF Crash, Ledger!Crash, Ledger!Answer
    <2>2. Hop /\ step'[c] = "out" /\ \A d \in Callers \ {c} : step'[d] = step[d]
      BY <1>2, <1>3, <2>1
    <2> QED BY <1>0, <2>1, <2>2 DEF TypeOK, Ledger!TypeOK, worldVars
  <1>13. ASSUME NEW c \in Callers, Transport(c) PROVE Hop /\ Out /\ World
    <2>0. /\ step[c] # "out" /\ pc[c] = "sending" /\ leg[c] \in 1..Recipients
          /\ attempt[c] \in 1..MaxAttempts /\ op[c] \in 1..MaxRows
      <3>1. step[c] # "out"
        BY <1>13 DEF Transport, Blocked, PrepareFails, Allowed, Accepted, Refused, AnswerLost,
             SubmissionEnds, RecordSent, RecordRetry, RecordGivesUp, RecordFails, Archive
      <3> QED BY <1>0, <1>6, <3>1, HeldRow DEF TypeOK
    <2>w. CASE World
      <3>1. CASE Blocked(c)
        BY <1>8, <2>0, <3>1, <2>w DEF Blocked
      <3>2. CASE PrepareFails(c)
        BY <1>4, <3>2, <2>w DEF PrepareFails
      <3>3. CASE Allowed(c)
        BY <1>0, <2>0, <3>3, <2>w DEF Allowed, ledgerVars, TypeOK
      <3>4. CASE Accepted(c) \/ Refused(c) \/ AnswerLost(c)
        BY <1>0, <2>0, <3>4, <2>w, ZenonT(60) DEF Accepted, Refused, AnswerLost, SubmissionEnds, ledgerVars,
             TypeOK, Answers
      <3>5. CASE RecordSent(c)
        <4>1. CASE individualized(c)
          BY <1>7, <2>0, <3>5, <2>w, <4>1 DEF RecordSent
        <4>2. CASE ~individualized(c)
          <5>1. Transmit(c, "archive", leg[c], 1) /\ pc' = pc
            BY <3>5, <4>2 DEF RecordSent, ledgerVars
          <5> QED BY <1>2, <1>5, <2>0, <2>w, <5>1
        <4> QED BY <4>1, <4>2
      <3>6. CASE RecordRetry(c)
        <4>1. Transmit(c, "submit", leg[c], attempt[c] + 1) /\ pc' = pc
              /\ attempt[c] + 1 \in 1..MaxAttempts
          BY <1>2, <2>0, <3>6 DEF RecordRetry, ledgerVars
        <4> QED BY <1>5, <2>0, <2>w, <4>1
      <3>7. CASE RecordGivesUp(c)
        BY <1>8, <2>0, <3>7, <2>w DEF RecordGivesUp
      <3>8. CASE RecordFails(c)
        BY <1>8, <2>0, <3>8, <2>w DEF RecordFails
      <3>9. CASE Archive(c)
        BY <1>4, <3>9, <2>w DEF Archive
      <3> QED BY <1>13, <3>1, <3>2, <3>3, <3>4, <3>5, <3>6, <3>7, <3>8, <3>9 DEF Transport
    <2>1. World
      <3>1. deliveries' \in [Callers -> SUBSET (1..Recipients)]
        <4>1. ASSUME NEW o, Leave(c, o) PROVE deliveries' = [deliveries EXCEPT ![c] = {}]
          BY <4>1 DEF Leave
        <4>2. ASSUME NEW o, LegFails(c, o)
              PROVE  deliveries' = [deliveries EXCEPT ![c] = {}] \/ deliveries' = deliveries
          BY <4>1, <4>2 DEF LegFails
        <4>3. \/ deliveries' = [deliveries EXCEPT ![c] = {}] \/ deliveries' = deliveries
              \/ deliveries' = [deliveries EXCEPT ![c] = @ \cup {leg[c]}]
          BY <1>13, <4>1, <4>2 DEF Transport, Blocked, PrepareFails, Allowed, Accepted, Refused,
             AnswerLost, SubmissionEnds, RecordSent, RecordRetry, RecordGivesUp, RecordFails, Archive
        <4>4. deliveries[c] \cup {leg[c]} \in SUBSET (1..Recipients)
          BY <1>0, <2>0 DEF TypeOK
        <4>5. \E D \in SUBSET (1..Recipients) : deliveries' = [deliveries EXCEPT ![c] = D]
                 \/ deliveries' = deliveries
          BY <4>3, <4>4
        <4> QED BY <1>0, <4>5 DEF TypeOK
      <3>2. \/ accepted' = accepted
            \/ accepted' = [accepted EXCEPT ![op[c]][leg[c]] = @ + 1]
        BY <1>13 DEF Transport, Blocked, PrepareFails, Allowed, Accepted, Refused, worldVars,
             AnswerLost, SubmissionEnds, RecordSent, RecordRetry, RecordGivesUp, RecordFails, Archive
      <3>3. accepted' \in [1..MaxRows -> [1..Recipients -> Nat]]
        <4>1. accepted[op[c]] \in [1..Recipients -> Nat]
          BY <1>0, <2>0 DEF TypeOK
        <4>n. ASSUME NEW f \in [1..Recipients -> Nat], NEW l \in 1..Recipients
              PROVE  f[l] \in Nat /\ f[l] + 1 \in Nat
          OBVIOUS
        <4>2. accepted[op[c]][leg[c]] + 1 \in Nat
          BY <2>0, <4>1, <4>n
        <4>3. [accepted[op[c]] EXCEPT ![leg[c]] = accepted[op[c]][leg[c]] + 1]
                 \in [1..Recipients -> Nat]
          BY <2>0, <4>1, <4>2
        <4> QED BY <1>0, <2>0, <3>2, <4>3 DEF TypeOK
      <3>4. \/ archived' = archived
            \/ \E n \in {0, 1} : archived' = [archived EXCEPT ![op[c]] = @ + n]
        BY <1>13 DEF Transport, Blocked, PrepareFails, Allowed, Accepted, Refused, worldVars,
             AnswerLost, SubmissionEnds, RecordSent, RecordRetry, RecordGivesUp, RecordFails, Archive
      <3>5. archived' \in [1..MaxRows -> Nat]
        BY <1>0, <2>0, <3>4 DEF TypeOK
      <3>6. faults' = faults \/ (faults < MaxFaults /\ faults' = faults + 1)
        BY <1>13 DEF Transport, Blocked, PrepareFails, Allowed, Accepted, Refused, worldVars,
             AnswerLost, SubmissionEnds, RecordSent, RecordRetry, RecordGivesUp, RecordFails, Archive
      <3>7. faults' \in 0..MaxFaults
        BY <1>0, <1>2, <3>6 DEF TypeOK
      <3> QED BY <3>1, <3>3, <3>5, <3>7
    <2> QED BY <2>w, <2>1
  <1>14. CASE UNCHANGED vars
    BY <1>9, <1>14 DEF vars, ledgerVars
  <1>15. ASSUME NEW c \in Callers, LedgerOnly(c) \/ Ledger!Tick, UNCHANGED <<hopVars, worldVars>>
         PROVE  Hop /\ Out /\ World
    BY <1>9, <1>10, <1>15
  <1>16. CASE Ledger!Tick /\ UNCHANGED <<hopVars, worldVars>>
    BY <1>9, <1>16 DEF Ledger!Tick, Ledger!callerVars
  <1> QED BY <1>11, <1>12, <1>13, <1>14, <1>15, <1>16 DEF Next

-----------------------------------------------------------------------------
\* Where Transmit leaves its caller and the others.
LEMMA Transmitted ==
    ASSUME TypeOK, NEW c \in Callers, NEW s, NEW l, NEW a, Transmit(c, s, l, a)
    PROVE  /\ step'[c] = s /\ leg'[c] = l /\ answer'[c] = "permanent"
           /\ \A d \in Callers \ {c} :
                 step'[d] = step[d] /\ leg'[d] = leg[d] /\ answer'[d] = answer[d]
  BY DEF TypeOK, Transmit

\* What is known of a caller in the transport, gathered for the steps below.
LEMMA SendingFacts ==
    ASSUME DeliveryInv, NEW c \in Callers, step[c] # "out"
    PROVE  /\ TypeOK /\ pc[c] = "sending" /\ op[c] \in 1..MaxRows
           /\ op \in [Callers -> 0..Len(rows)]
           /\ leg[c] \in 1..Recipients /\ Recipients \in Nat
           /\ deliveries[c] \subseteq 1..Recipients
           /\ accepted[op[c]] \in [1..Recipients -> Nat] /\ archived[op[c]] = 0
           /\ \A l \in 1..Recipients : accepted[op[c]][l] \in Nat /\ accepted[op[c]][l] <= 1
           /\ LegKnown(c) /\ ListKnown(c)
  <1>1. TypeOK /\ LP!Inv2 /\ Known
    BY DEF DeliveryInv
  <1>2. pc[c] = "sending"
    BY <1>1 DEF TypeOK
  <1>3. op[c] \in 1..MaxRows
    BY <1>1, <1>2, HeldRow
  <1>4. LegKnown(c) /\ ListKnown(c) /\ RowKnown(op[c])
    BY <1>1, <1>3 DEF Known, CallerKnown
  <1>5. accepted[op[c]] \in [1..Recipients -> Nat] /\ leg[c] \in 1..Recipients
        /\ deliveries[c] \subseteq 1..Recipients /\ op \in [Callers -> 0..Len(rows)]
    BY <1>1, <1>3 DEF TypeOK, Ledger!TypeOK
  <1>6. archived[op[c]] = 0
    BY <1>2, <1>4 DEF LegKnown
  <1>7. \A l \in 1..Recipients : accepted[op[c]][l] \in Nat /\ accepted[op[c]][l] <= 1
    BY <1>4, <1>5 DEF RowKnown
  <1> QED BY <1>1, <1>2, <1>3, <1>4, <1>5, <1>6, <1>7, DeliveryAssumption

\* The loop of an individualized send goes on: what has been listed was taken.
LEMMA NextLegKnown ==
    ASSUME DeliveryInv, NEW c \in Callers, step[c] # "out", individualized(c), NextLeg(c),
           \A d \in Callers \ {c} : deliveries'[d] = deliveries[d],
           \A l \in deliveries'[c] : l \in 1..Recipients /\ accepted[op[c]][l] = 1,
           accepted' = accepted, archived' = archived, faults' = 0 => faults = 0
    PROVE  Known'
  <1>0. /\ TypeOK /\ pc[c] = "sending" /\ LegKnown(c) /\ leg[c] \in 1..Recipients
        /\ Recipients \in Nat /\ archived[op[c]] = 0
        /\ \A l \in 1..Recipients : accepted[op[c]][l] \in Nat /\ accepted[op[c]][l] <= 1
    BY SendingFacts
  <1>1. UNCHANGED <<rows, pc, req, op, verdict>>
    BY DEF NextLeg, ledgerVars
  <1>2. PICK s \in {"check", "archive"}, m \in 1..Recipients :
           /\ Transmit(c, s, m, 1) /\ m >= leg[c] /\ (s = "check" => m > leg[c])
    <2>1. CASE leg[c] < Recipients
      BY <1>0, <2>1 DEF NextLeg
    <2>2. CASE ~(leg[c] < Recipients)
      BY <1>0, <2>2 DEF NextLeg
    <2> QED BY <2>1, <2>2
  <1>3. step'[c] = s /\ leg'[c] = m
        /\ \A d \in Callers \ {c} : step'[d] = step[d] /\ leg'[d] = leg[d] /\ answer'[d] = answer[d]
    BY <1>0, <1>2, Transmitted
  <1>4. Concerns(c)
    BY <1>1, <1>3 DEF Concerns
  <1>5. LegKnown(c)'
    BY <1>0, <1>1, <1>2, <1>3 DEF LegKnown, individualized
  <1>6. ListKnown(c)' /\ VerdictKnown(c)'
    BY <1>0, <1>1 DEF ListKnown, VerdictKnown
  <1> QED BY <1>0, <1>1, <1>4, <1>5, <1>6, OwnStep DEF CallerKnown

\* The callback ends with an outcome that is true of the legs.
LEMMA LeaveKnown ==
    ASSUME DeliveryInv, NEW c \in Callers, step[c] # "out", NEW o, Leave(c, o),
           accepted' = accepted, faults' = 0 => faults = 0,
           \A i \in 1..MaxRows : i # op[c] => archived'[i] = archived[i],
           archived'[op[c]] # 0 =>
               archived'[op[c]] = 1 /\ \E l \in 1..Recipients : accepted[op[c]][l] > 0,
           o = "failed" /\ faults' = 0 => Untouched(op[c]),
           o = "sent" /\ ~individualized(c) => accepted[op[c]][1] = 1
    PROVE  Known'
  <1>0. /\ TypeOK /\ pc[c] = "sending" /\ op[c] \in 1..MaxRows /\ archived[op[c]] = 0
        /\ \A l \in 1..Recipients : accepted[op[c]][l] \in Nat /\ accepted[op[c]][l] <= 1
    BY SendingFacts
  <1>1. /\ UNCHANGED <<rows, req, op>> /\ pc' = [pc EXCEPT ![c] = "finishing"]
        /\ verdict' = [verdict EXCEPT ![c] = o] /\ Transmit(c, "out", 1, 1)
        /\ deliveries' = [deliveries EXCEPT ![c] = {}]
    BY DEF Leave, Ledger!CallbackEnds
  <1>2. \A d \in Callers \ {c} : step'[d] = step[d] /\ leg'[d] = leg[d] /\ answer'[d] = answer[d]
    BY <1>0, <1>1, Transmitted
  <1>3. pc'[c] = "finishing" /\ verdict'[c] = o /\ deliveries'[c] = {}
    BY <1>0, <1>1 DEF TypeOK, Ledger!TypeOK
  <1>4. \A d \in Callers \ {c} :
           pc'[d] = pc[d] /\ verdict'[d] = verdict[d] /\ deliveries'[d] = deliveries[d]
    BY <1>0, <1>1 DEF TypeOK, Ledger!TypeOK
  <1>5. Concerns(c)
    BY <1>1, <1>2, <1>3, <1>4 DEF Concerns
  <1>6. CallerKnown(c)'
    BY <1>1, <1>3 DEF CallerKnown, LegKnown, ListKnown, VerdictKnown, individualized, Untouched
  <1>7. archived'[op[c]] > 0 =>
           archived'[op[c]] = 1 /\ \E l \in 1..Recipients : accepted'[op[c]][l] > 0
    OBVIOUS
  <1> QED BY <1>0, <1>5, <1>6, <1>7, OwnStep

\* An exception of the transport: the individualized loop swallows it, an
\* ordinary send ends with it, and then its leg was the only one.
LEMMA LegFailsKnown ==
    ASSUME DeliveryInv, NEW c \in Callers, step[c] # "out", NEW o, LegFails(c, o),
           o # "sent", accepted' = accepted, archived' = archived, faults' = 0 => faults = 0,
           o = "failed" /\ faults' = 0 => accepted[op[c]][leg[c]] = 0
    PROVE  Known'
  <1>0. /\ TypeOK /\ pc[c] = "sending" /\ op[c] \in 1..MaxRows /\ LegKnown(c) /\ ListKnown(c)
        /\ leg[c] \in 1..Recipients /\ Recipients \in Nat /\ deliveries[c] \subseteq 1..Recipients
    BY SendingFacts
  <1>1. CASE individualized(c)
    <2>1. NextLeg(c) /\ deliveries' = deliveries
      BY <1>1 DEF LegFails
    <2>2. \A l \in deliveries'[c] : l \in 1..Recipients /\ accepted[op[c]][l] = 1
      BY <1>0, <2>1 DEF ListKnown
    <2> QED BY <1>1, <2>1, <2>2, NextLegKnown
  <1>2. CASE ~individualized(c)
    <2>1. Leave(c, o)
      BY <1>2 DEF LegFails
    <2>2. leg[c] = 1 /\ \A l \in 1..Recipients : l > 1 => accepted[op[c]][l] = 0
      BY <1>0, <1>2 DEF LegKnown
    <2>3. o = "failed" /\ faults' = 0 => Untouched(op[c])
      BY <1>0, <2>2 DEF Untouched
    <2>4. archived'[op[c]] = 0
      BY SendingFacts
    <2> QED BY <2>1, <2>3, <2>4, LeaveKnown
  <1> QED BY <1>1, <1>2

\* One SMTP transaction: the leg goes from not taken to taken at most once.
LEMMA SubmissionKnown ==
    ASSUME DeliveryInv, NEW c \in Callers, NEW a \in Answers, SubmissionEnds(c, a),
           \/ accepted' = accepted /\ a # "sent"
           \/ accepted' = [accepted EXCEPT ![op[c]][leg[c]] = @ + 1] /\ a \in {"sent", "uncertain"}
    PROVE  Known'
  <1>0. /\ TypeOK /\ pc[c] = "sending" /\ op[c] \in 1..MaxRows /\ LegKnown(c) /\ ListKnown(c)
        /\ leg[c] \in 1..Recipients /\ Recipients \in Nat /\ archived[op[c]] = 0
        /\ deliveries[c] \subseteq 1..Recipients
        /\ accepted[op[c]] \in [1..Recipients -> Nat]
        /\ \A l \in 1..Recipients : accepted[op[c]][l] \in Nat /\ accepted[op[c]][l] <= 1
    BY SendingFacts DEF SubmissionEnds
  <1>1. /\ step[c] = "submit" /\ step' = [step EXCEPT ![c] = "record"]
        /\ answer' = [answer EXCEPT ![c] = a]
        /\ UNCHANGED <<rows, pc, req, op, verdict, leg, deliveries, archived, faults>>
    BY DEF SubmissionEnds, ledgerVars
  <1>2. step'[c] = "record" /\ answer'[c] = a
        /\ \A d \in Callers \ {c} : step'[d] = step[d] /\ answer'[d] = answer[d]
    BY <1>0, <1>1 DEF TypeOK
  <1>3. accepted[op[c]][leg[c]] = 0
    BY <1>0, <1>1 DEF LegKnown
  <1>t. accepted \in [1..MaxRows -> [1..Recipients -> Nat]]
    BY <1>0 DEF TypeOK
  <1>a. \A i \in 1..MaxRows : i # op[c] => accepted'[i] = accepted[i]
    BY <1>0, <1>t
  <1>b. \/ accepted'[op[c]] = accepted[op[c]] /\ a # "sent"
        \/ /\ accepted'[op[c]] = [accepted[op[c]] EXCEPT ![leg[c]] = @ + 1]
           /\ a \in {"sent", "uncertain"}
    BY <1>0, <1>t
  <1>4. /\ \A i \in 1..MaxRows : i # op[c] => accepted'[i] = accepted[i]
        /\ \A l \in 1..Recipients : l # leg[c] => accepted'[op[c]][l] = accepted[op[c]][l]
    BY <1>0, <1>a, <1>b
  <1>5. \/ accepted'[op[c]][leg[c]] = 0 /\ a # "sent"
        \/ accepted'[op[c]][leg[c]] = 1 /\ a \in {"sent", "uncertain"}
    BY <1>0, <1>3, <1>b
  <1>6. Concerns(c)
    BY <1>1, <1>2, <1>4 DEF Concerns
  <1>7. LegKnown(c)'
    BY <1>0, <1>1, <1>2, <1>4, <1>5 DEF LegKnown, individualized
  <1>8. ListKnown(c)'
    BY <1>0, <1>1, <1>3, <1>4 DEF ListKnown
  <1>9. VerdictKnown(c)'
    BY <1>0, <1>1 DEF VerdictKnown
  <1>10. \A l \in 1..Recipients : accepted'[op[c]][l] <= 1
    BY <1>0, <1>4, <1>5
  <1>11. archived'[op[c]] = 0
    BY <1>0, <1>1
  <1> QED BY <1>0, <1>6, <1>7, <1>8, <1>9, <1>10, <1>11, OwnStep DEF CallerKnown

\* A step inside the transport that only moves the caller on.
LEMMA MoveOnKnown ==
    ASSUME DeliveryInv, NEW c \in Callers, step[c] # "out",
           UNCHANGED <<ledgerVars, leg, deliveries, worldVars>>,
           \A d \in Callers \ {c} : step'[d] = step[d] /\ answer'[d] = answer[d],
           \/ step'[c] = "submit" /\ accepted[op[c]][leg[c]] = 0
           \/ step'[c] = "archive" /\ accepted[op[c]][leg[c]] = 1
    PROVE  Known'
  <1>0. /\ TypeOK /\ pc[c] = "sending" /\ op[c] \in 1..MaxRows /\ LegKnown(c) /\ ListKnown(c)
        /\ archived[op[c]] = 0
        /\ \A l \in 1..Recipients : accepted[op[c]][l] \in Nat /\ accepted[op[c]][l] <= 1
    BY SendingFacts
  <1>1. UNCHANGED <<rows, pc, req, op, verdict, leg, deliveries, accepted, archived, faults>>
    BY DEF ledgerVars, worldVars
  <1>2. Concerns(c)
    BY <1>1 DEF Concerns
  <1>3. LegKnown(c)'
    BY <1>0, <1>1 DEF LegKnown, individualized
  <1>4. ListKnown(c)' /\ VerdictKnown(c)'
    BY <1>0, <1>1 DEF ListKnown, VerdictKnown
  <1> QED BY <1>0, <1>1, <1>2, <1>3, <1>4, OwnStep DEF CallerKnown

LEMMA TransportKnown ==
    ASSUME DeliveryInv, NEW c \in Callers, Transport(c)
    PROVE  Known'
  <1>0. step[c] # "out"
    BY DEF Transport, Blocked, PrepareFails, Allowed, Accepted, Refused, AnswerLost,
         SubmissionEnds, RecordSent, RecordRetry, RecordGivesUp, RecordFails, Archive
  <1>1. /\ TypeOK /\ pc[c] = "sending" /\ op[c] \in 1..MaxRows /\ LegKnown(c) /\ ListKnown(c)
        /\ leg[c] \in 1..Recipients /\ Recipients \in Nat /\ deliveries[c] \subseteq 1..Recipients
        /\ archived[op[c]] = 0
    BY <1>0, SendingFacts
  <1>2. faults \in Nat
    BY <1>1, DeliveryAssumption DEF TypeOK
  <1>3. CASE Blocked(c)
    <2>1. accepted[op[c]][leg[c]] = 0
      BY <1>1, <1>3 DEF Blocked, LegKnown
    <2> QED BY <1>0, <1>3, <2>1, LegFailsKnown DEF Blocked, worldVars
  <1>4. CASE PrepareFails(c)
    <2>1. Leave(c, "failed") /\ faults' = faults + 1 /\ UNCHANGED <<accepted, archived>>
      BY <1>4 DEF PrepareFails
    <2>2. faults' # 0 /\ archived'[op[c]] = 0
      BY <1>1, <1>2, <2>1
    <2> QED BY <1>0, <2>1, <2>2, LeaveKnown
  <1>5. CASE Allowed(c)
    <2>1. accepted[op[c]][leg[c]] = 0
      BY <1>1, <1>5 DEF Allowed, LegKnown
    <2>2. step'[c] = "submit" /\ \A d \in Callers \ {c} : step'[d] = step[d]
      BY <1>1, <1>5 DEF Allowed, TypeOK
    <2>3. UNCHANGED <<ledgerVars, leg, answer, deliveries, worldVars>>
      BY <1>5 DEF Allowed
    <2> QED BY <1>0, <2>1, <2>2, <2>3, MoveOnKnown
  <1>6. CASE Accepted(c)
    BY <1>6, SubmissionKnown DEF Accepted, Answers
  <1>7. CASE Refused(c)
    BY <1>7, SubmissionKnown DEF Refused, Answers
  <1>8. CASE AnswerLost(c)
    BY <1>8, SubmissionKnown DEF AnswerLost, Answers
  <1>9. CASE RecordSent(c)
    <2>1. accepted[op[c]][leg[c]] = 1
      BY <1>1, <1>9 DEF RecordSent, LegKnown
    <2>2. CASE individualized(c)
      <3>1. /\ NextLeg(c) /\ UNCHANGED worldVars
            /\ deliveries' = [deliveries EXCEPT ![c] = @ \cup {leg[c]}]
        BY <1>9, <2>2 DEF RecordSent
      <3>2. /\ \A d \in Callers \ {c} : deliveries'[d] = deliveries[d]
            /\ \A l \in deliveries'[c] : l \in 1..Recipients /\ accepted[op[c]][l] = 1
        BY <1>1, <2>1, <3>1 DEF ListKnown, TypeOK
      <3> QED BY <1>0, <2>2, <3>1, <3>2, NextLegKnown DEF worldVars
    <2>3. CASE ~individualized(c)
      <3>1. Transmit(c, "archive", leg[c], 1) /\ UNCHANGED <<ledgerVars, deliveries, worldVars>>
        BY <1>9, <2>3 DEF RecordSent
      <3>2. /\ step'[c] = "archive" /\ leg' = leg
            /\ \A d \in Callers \ {c} : step'[d] = step[d] /\ answer'[d] = answer[d]
        BY <1>1, <3>1, Transmitted DEF Transmit, TypeOK
      <3> QED BY <1>0, <2>1, <3>1, <3>2, MoveOnKnown
    <2> QED BY <2>2, <2>3
  <1>10. CASE RecordRetry(c)
    <2>1. accepted[op[c]][leg[c]] = 0
      BY <1>1, <1>10 DEF RecordRetry, LegKnown
    <2>2. Transmit(c, "submit", leg[c], attempt[c] + 1)
          /\ UNCHANGED <<ledgerVars, deliveries, worldVars>>
      BY <1>10 DEF RecordRetry
    <2>3. /\ step'[c] = "submit" /\ leg' = leg
          /\ \A d \in Callers \ {c} : step'[d] = step[d] /\ answer'[d] = answer[d]
      BY <1>1, <2>2, Transmitted DEF Transmit, TypeOK
    <2> QED BY <1>0, <2>1, <2>2, <2>3, MoveOnKnown
  <1>11. CASE RecordGivesUp(c)
    <2>1. answer[c] # "uncertain" => accepted[op[c]][leg[c]] = 0
      BY <1>1, <1>11 DEF RecordGivesUp, LegKnown, TypeOK, Answers
    <2> QED BY <1>0, <1>11, <2>1, LegFailsKnown DEF RecordGivesUp, worldVars
  <1>12. CASE RecordFails(c)
    <2>1. LegFails(c, "failed") /\ faults' = faults + 1 /\ UNCHANGED <<accepted, archived>>
      BY <1>12 DEF RecordFails
    <2>2. faults' # 0
      BY <1>2, <2>1
    <2> QED BY <1>0, <2>1, <2>2, LegFailsKnown
  <1>13. CASE Archive(c)
    <2>1. PICK n \in IF individualized(c) /\ deliveries[c] = {} THEN {0} ELSE {0, 1} :
             archived' = [archived EXCEPT ![op[c]] = @ + n]
      BY <1>13 DEF Archive
    <2>2. Leave(c, "sent") /\ UNCHANGED <<accepted, faults>>
      BY <1>13 DEF Archive
    <2>3. ~individualized(c) => 1 \in 1..Recipients /\ accepted[op[c]][1] = 1
      BY <1>1, <1>13, DeliveryAssumption DEF Archive, LegKnown
    <2>4. n = 1 => \E l \in 1..Recipients : accepted[op[c]][l] > 0
      <3>1. CASE individualized(c)
        <4>1. n = 1 => \E l \in deliveries[c] : l \in 1..Recipients
          BY <1>1, <2>1, <3>1
        <4> QED BY <1>1, <4>1 DEF ListKnown
      <3> QED BY <2>3, <3>1
    <2>5. /\ archived'[op[c]] = n /\ n \in {0, 1}
          /\ \A i \in 1..MaxRows : i # op[c] => archived'[i] = archived[i]
      BY <1>1, <2>1 DEF TypeOK
    <2> QED BY <1>0, <2>2, <2>3, <2>4, <2>5, LeaveKnown
  <1> QED BY <1>3, <1>4, <1>5, <1>6, <1>7, <1>8, <1>9, <1>10, <1>11, <1>12, <1>13 DEF Transport

-----------------------------------------------------------------------------
\* A caller outside the transport knows nothing; the others know what they did.
LEMMA CallersOutside ==
    ASSUME DeliveryInv, NEW c \in Callers, pc'[c] \notin {"sending", "finishing"},
           deliveries'[c] = {}, UNCHANGED worldVars,
           \A d \in Callers \ {c} :
              /\ pc'[d] = pc[d] /\ req'[d] = req[d] /\ op'[d] = op[d] /\ verdict'[d] = verdict[d]
              /\ step'[d] = step[d] /\ leg'[d] = leg[d] /\ answer'[d] = answer[d]
              /\ deliveries'[d] = deliveries[d]
    PROVE  \A d \in Callers : CallerKnown(d)'
  <1>1. CallerKnown(c)'
    BY DEF CallerKnown, LegKnown, ListKnown, VerdictKnown
  <1>2. ASSUME NEW d \in Callers \ {c} PROVE CallerKnown(d)'
    <2>1. LegKnown(d) /\ ListKnown(d) /\ VerdictKnown(d)
      BY DEF DeliveryInv, Known, CallerKnown
    <2>2. UNCHANGED <<accepted, archived, faults>>
      BY DEF worldVars
    <2>3. LegKnown(d)'
      BY <2>1, <2>2 DEF LegKnown, individualized
    <2>4. ListKnown(d)' /\ VerdictKnown(d)'
      BY <2>1, <2>2 DEF ListKnown, VerdictKnown, individualized, Untouched
    <2> QED BY <2>3, <2>4 DEF CallerKnown
  <1> QED BY <1>1, <1>2

LEMMA RowsOutside ==
    ASSUME DeliveryInv, rows' = rows, UNCHANGED worldVars
    PROVE  \A i \in 1..MaxRows : RowKnown(i)'
  <1> SUFFICES ASSUME NEW i \in 1..MaxRows PROVE RowKnown(i)'
    OBVIOUS
  <1>1. RowKnown(i)
    BY DEF DeliveryInv, Known
  <1> QED BY <1>1 DEF RowKnown, Untouched, worldVars

\* The steps of the ledger outside its callback.
LEMMA LedgerOnlyKnown ==
    ASSUME DeliveryInv, NEW c \in Callers, LedgerOnly(c), UNCHANGED <<hopVars, worldVars>>
    PROVE  Known'
  <1>0. TypeOK /\ LP!Inv2 /\ Known /\ Ledger!TypeOK
    BY DEF DeliveryInv, TypeOK
  <1>1. UNCHANGED <<step, leg, answer, deliveries>> /\ UNCHANGED worldVars
    BY DEF hopVars
  <1>2. ASSUME pc[c] # "sending", pc'[c] \notin {"sending", "finishing"},
               \A d \in Callers \ {c} :
                  pc'[d] = pc[d] /\ req'[d] = req[d] /\ op'[d] = op[d] /\ verdict'[d] = verdict[d]
        PROVE  \A d \in Callers : CallerKnown(d)'
    <2>1. deliveries'[c] = {}
      BY <1>0, <1>1, <1>2 DEF Known, CallerKnown, ListKnown
    <2> QED BY <1>1, <1>2, <2>1, CallersOutside
  <1>3. ASSUME NEW r, Ledger!Answer(c, r)
        PROVE  /\ pc'[c] = "idle"
               /\ \A d \in Callers \ {c} :
                     pc'[d] = pc[d] /\ req'[d] = req[d] /\ op'[d] = op[d] /\ verdict'[d] = verdict[d]
    BY <1>0, <1>3 DEF Ledger!Answer, Ledger!TypeOK
  <1>4. ASSUME NEW r \in Asked, Ledger!Begin(c, r) PROVE Known'
    <2>1. /\ pc[c] = "idle" /\ pc' = [pc EXCEPT ![c] = "reserving"]
          /\ req' = [req EXCEPT ![c] = r] /\ UNCHANGED <<rows, op, verdict>>
      BY <1>4 DEF Ledger!Begin
    <2>2. \A d \in Callers : CallerKnown(d)'
      BY <1>0, <1>2, <2>1 DEF Ledger!TypeOK
    <2> QED BY <1>1, <2>1, <2>2, RowsOutside DEF Known
  <1>5. CASE \/ Ledger!ReserveKnownKey(c) \/ Ledger!ReserveNearDuplicate(c)
             \/ Ledger!ReserveFails(c) \/ Ledger!FinishFails(c)
    <2>1. pc[c] # "sending" /\ rows' = rows /\ \E r : Ledger!Answer(c, r)
      BY <1>5 DEF Ledger!ReserveKnownKey, Ledger!ReserveNearDuplicate, Ledger!ReserveFails,
           Ledger!FinishFails, Ledger!Decline
    <2>2. \A d \in Callers : CallerKnown(d)'
      BY <1>2, <1>3, <2>1
    <2> QED BY <1>1, <2>1, <2>2, RowsOutside DEF Known
  <1>6. CASE Ledger!Finish(c)
    <2>k. PICK k : k = op[c]
      OBVIOUS
    <2>1. pc[c] = "finishing" /\ \E r : Ledger!Answer(c, r)
      BY <1>6 DEF Ledger!Finish
    <2>2. \A d \in Callers : CallerKnown(d)'
      BY <1>2, <1>3, <2>1
    <2>3. LP!Finish(c) /\ LP!TypeOK /\ LP!OwnedProgress
      BY <1>0, <1>6, SameSteps DEF LP!Inv2, LP!Inv1
    <2>4. /\ k \in 1..Len(rows) /\ Len(rows') = Len(rows)
          /\ \A i \in 1..Len(rows) : i # k => rows'[i] = rows[i]
          /\ rows'[k] = [rows[k] EXCEPT !.state = verdict[c]]
      BY <2>k, <2>3, LP!SettledRows, LedgerConstants
    <2>5. rows[k] \in LP!Rows /\ verdict[c] \in LP!Outcomes
      BY <2>3, <2>4 DEF LP!TypeOK
    <2>6. rows'[k].state = verdict[c] /\ rows'[k].variant = rows[k].variant
      BY <2>4, <2>5 DEF LP!Rows
    <2>7. VerdictKnown(c) /\ rows[k].variant = req[c].variant /\ Len(rows) \in Nat
      BY <1>0, <2>k, <2>1, HeldRow DEF Known, CallerKnown
    <2>8. ASSUME NEW i \in 1..MaxRows PROVE RowKnown(i)'
      <3>1. RowKnown(i) /\ UNCHANGED <<accepted, archived, faults>>
        BY <1>0, <1>1 DEF Known, worldVars
      <3>2. CASE i # k
        BY <2>4, <2>7, <3>1, <3>2 DEF RowKnown, Untouched
      <3>3. CASE i = k
        BY <2>k, <2>1, <2>4, <2>6, <2>7, <3>1, <3>3
           DEF RowKnown, Untouched, VerdictKnown, individualized
      <3> QED BY <3>2, <3>3
    <2> QED BY <2>2, <2>8 DEF Known
  <1> QED BY <1>4, <1>5, <1>6 DEF LedgerOnly

LEMMA CrashKnown ==
    ASSUME DeliveryInv, NEW c \in Callers, Crash(c)
    PROVE  Known'
  <1>0. TypeOK /\ Ledger!TypeOK
    BY DEF DeliveryInv, TypeOK
  <1>1. /\ Transmit(c, "out", 1, 1) /\ deliveries' = [deliveries EXCEPT ![c] = {}]
        /\ UNCHANGED worldVars /\ rows' = rows /\ \E r : Ledger!Answer(c, r)
    BY DEF Crash, Ledger!Crash
  <1>2. \A d \in Callers \ {c} : step'[d] = step[d] /\ leg'[d] = leg[d] /\ answer'[d] = answer[d]
    BY <1>0, <1>1, Transmitted
  <1>3. /\ pc'[c] = "idle" /\ deliveries'[c] = {}
        /\ \A d \in Callers \ {c} :
              /\ pc'[d] = pc[d] /\ req'[d] = req[d] /\ op'[d] = op[d] /\ verdict'[d] = verdict[d]
              /\ deliveries'[d] = deliveries[d]
    BY <1>0, <1>1 DEF Ledger!Answer, Ledger!TypeOK, TypeOK
  <1>4. \A d \in Callers : CallerKnown(d)'
    BY <1>1, <1>2, <1>3, CallersOutside
  <1> QED BY <1>1, <1>4, RowsOutside DEF Known

\* A caller that gets a row starts with one that nothing has happened to.
LEMMA EnterKnown ==
    ASSUME DeliveryInv, NEW c \in Callers, Enter(c)
    PROVE  Known'
  <1>0. TypeOK /\ LP!Inv2 /\ Known /\ Ledger!TypeOK
    BY DEF DeliveryInv, TypeOK
  <1>k. PICK k : k = Len(rows) + 1
    OBVIOUS
  <1>1. /\ pc[c] = "reserving" /\ Len(rows) < MaxRows /\ Len(rows) \in Nat
        /\ op' = [op EXCEPT ![c] = k] /\ pc' = [pc EXCEPT ![c] = "sending"]
        /\ UNCHANGED <<req, verdict, deliveries, accepted, archived, faults>>
        /\ Transmit(c, "check", 1, 1)
    BY <1>0, <1>k DEF Enter, Ledger!ReserveInsert, worldVars, Ledger!TypeOK
  <1>2. LP!ReserveInsert(c) /\ LP!TypeOK
    BY <1>0, SameSteps DEF Enter, LP!Inv2, LP!Inv1
  <1>3. /\ Len(rows') = k /\ \A i \in 1..Len(rows) : rows'[i] = rows[i]
        /\ rows'[k].state = "in_progress"
    BY <1>k, <1>2, LP!InsertedRows, LedgerConstants
  <1>4. k \in 1..MaxRows /\ archived[k] = 0 /\ Untouched(k) /\ 1 \in 1..Recipients
    BY <1>0, <1>k, <1>1, DeliveryAssumption DEF Known, RowKnown
  <1>5. step'[c] = "check" /\ leg'[c] = 1
        /\ \A d \in Callers \ {c} : step'[d] = step[d] /\ leg'[d] = leg[d] /\ answer'[d] = answer[d]
    BY <1>0, <1>1, Transmitted
  <1>6. /\ pc'[c] = "sending" /\ op'[c] = k
        /\ \A d \in Callers \ {c} : pc'[d] = pc[d] /\ op'[d] = op[d]
    BY <1>0, <1>1 DEF Ledger!TypeOK
  <1>7. CallerKnown(c)'
    <2>1. deliveries[c] = {}
      BY <1>0, <1>1 DEF Known, CallerKnown, ListKnown
    <2> QED BY <1>1, <1>4, <1>5, <1>6, <2>1
         DEF CallerKnown, LegKnown, ListKnown, VerdictKnown, individualized, Untouched
  <1>8. ASSUME NEW d \in Callers \ {c} PROVE CallerKnown(d)'
    <2>1. LegKnown(d) /\ ListKnown(d) /\ VerdictKnown(d)
      BY <1>0 DEF Known, CallerKnown
    <2> QED BY <1>1, <1>5, <1>6, <2>1
         DEF CallerKnown, LegKnown, ListKnown, VerdictKnown, individualized, Untouched
  <1>9. ASSUME NEW i \in 1..MaxRows PROVE RowKnown(i)'
    <2>1. RowKnown(i)
      BY <1>0 DEF Known
    <2>2. CASE i \in 1..Len(rows)
      BY <1>k, <1>1, <1>3, <2>1, <2>2 DEF RowKnown, Untouched
    <2>3. CASE i = k
      BY <1>k, <1>1, <1>3, <2>1, <2>3 DEF RowKnown, Untouched
    <2>4. CASE i > k
      BY <1>k, <1>1, <1>3, <2>1, <2>4 DEF RowKnown, Untouched
    <2> QED BY <1>k, <1>1, <2>2, <2>3, <2>4
  <1>10. ASSUME NEW d \in Callers PROVE CallerKnown(d)'
    BY <1>7, <1>8
  <1> QED BY <1>9, <1>10 DEF Known

LEMMA DeliveryInvInit == Init => DeliveryInv
  <1> SUFFICES ASSUME Init PROVE DeliveryInv
    OBVIOUS
  <1>1. LP!Init
    BY SameTypes DEF Init
  <1>2. LP!Inv2
    BY <1>1, LP!Inv1Init, LedgerConstants DEF LP!Inv2, LP!HeldMatches, LP!Init
  <1>3. Ledger!TypeOK
    BY <1>2, SameTypes DEF LP!Inv2
  <1>4. pc = [c \in Callers |-> "idle"] /\ Len(rows) = 0
    BY DEF Init, Ledger!Init
  <1>5. /\ 1 \in 1..Recipients /\ 1 \in 1..MaxAttempts /\ 0 \in 0..MaxFaults
    BY DeliveryAssumption
  <1>6. TypeOK
    BY <1>3, <1>4, <1>5 DEF Init, TypeOK, Answers
  <1>7. ASSUME NEW c \in Callers PROVE CallerKnown(c)
    BY <1>4 DEF Init, CallerKnown, LegKnown, ListKnown, VerdictKnown
  <1>8. ASSUME NEW i \in 1..MaxRows PROVE RowKnown(i)
    BY <1>4 DEF Init, RowKnown, Untouched
  <1> QED BY <1>2, <1>6, <1>7, <1>8 DEF DeliveryInv, Known

LEMMA DeliveryInvNext == DeliveryInv /\ [Next]_vars => DeliveryInv'
  <1> SUFFICES ASSUME DeliveryInv, [Next]_vars PROVE Known'
    BY LedgerInvNext, TypeNext DEF DeliveryInv
  <1>0. Known
    BY DEF DeliveryInv
  <1>1. CASE UNCHANGED <<rows, pc, req, op, verdict, hopVars, worldVars>>
    <2>1. ASSUME NEW c \in Callers PROVE CallerKnown(c)'
      BY <1>0, <1>1 DEF Known, CallerKnown, LegKnown, ListKnown, VerdictKnown, individualized,
         Untouched, hopVars, worldVars
    <2>2. \A i \in 1..MaxRows : RowKnown(i)'
      BY <1>1, RowsOutside
    <2> QED BY <2>1, <2>2 DEF Known
  <1>2. CASE Ledger!Tick /\ UNCHANGED <<hopVars, worldVars>>
    BY <1>1, <1>2 DEF Ledger!Tick, Ledger!callerVars
  <1>3. CASE UNCHANGED vars
    BY <1>1, <1>3 DEF vars, ledgerVars
  <1> QED BY <1>2, <1>3, TransportKnown, LedgerOnlyKnown, CrashKnown, EnterKnown DEF Next

-----------------------------------------------------------------------------
\* Type correctness of ledger and transport, for every value of the constants.
THEOREM DeliveryTyped == Spec => []TypeOK
  <1>1. DeliveryInv => TypeOK
    BY DEF DeliveryInv
  <1> QED BY <1>1, DeliveryInvInit, DeliveryInvNext, PTL DEF Spec

\* No leg of an operation is taken twice, whatever the retries, lost answers
\* and crashes, for any number of callers, recipients and attempts.
THEOREM OnceTaken == Spec => []OneCopyPerLeg
  <1>1. DeliveryInv => OneCopyPerLeg
    BY DEF DeliveryInv, Known, RowKnown, OneCopyPerLeg
  <1> QED BY <1>1, DeliveryInvInit, DeliveryInvNext, PTL DEF Spec

LEMMA InvReports == DeliveryInv => ReportsAreTrue
  <1> SUFFICES ASSUME DeliveryInv PROVE ReportsAreTrue
    OBVIOUS
  <1>0. TypeOK /\ Known /\ Len(rows) \in Nat /\ Len(rows) <= MaxRows /\ MaxRows \in Nat
    BY DeliveryAssumption, SMTT(60) DEF DeliveryInv, TypeOK, Ledger!TypeOK
  <1>1. ASSUME NEW i \in 1..Len(rows) PROVE i \in 1..MaxRows /\ i <= Len(rows) /\ RowKnown(i)
    BY <1>0 DEF Known
  <1>2. faults = 0 => FailedMeansUndelivered
    BY <1>1 DEF FailedMeansUndelivered, RowKnown, Untouched
  <1>3. ReportedMeansDelivered
    BY <1>0, <1>1 DEF ReportedMeansDelivered, Known, CallerKnown, ListKnown, RowKnown
  <1> QED BY <1>2, <1>3 DEF ReportsAreTrue

\* What is reported and recorded of a send is what the SMTP server did, for
\* every value of the constants.
THEOREM ReportsTrue == Spec => []ReportsAreTrue
  <1> QED BY InvReports, DeliveryInvInit, DeliveryInvNext, PTL DEF Spec

\* The near-duplicate guard of the ledger, carried over by the refinement, and
\* the truth of "failed" together: while no bookkeeping of a send fails, of two
\* equivalent sends within the window at most one reaches the SMTP server.
THEOREM EquivalentOnce == Spec => []EquivalentTakenOnce
  <1>1. LP!WindowGuard /\ ReportsAreTrue => EquivalentTakenOnce
    <2> SUFFICES ASSUME LP!WindowGuard, ReportsAreTrue, faults = 0
                 PROVE  EquivalentSendsOnce
      BY DEF EquivalentTakenOnce
    <2> QED BY DEF LP!WindowGuard, ReportsAreTrue, FailedMeansUndelivered, EquivalentSendsOnce
  <1> QED BY <1>1, ReportsTrue, DeliveryIsLedger, LP!GuardedWindow, LedgerConstants, PTL
=============================================================================
