-------------------------- MODULE OutboundDelivery --------------------------
(***************************************************************************)
(* The outbound ledger with the callback it guards: the SMTP transport of  *)
(* mail_v950.py (one transaction per message, retried when the server said *)
(* no, never when the answer to DATA was lost), the per-recipient loop of  *)
(* stored_file_delivery.py (which overrides tracked_mail.py's) that        *)
(* individualized sends use, and the single archive                        *)
(* copy of outbound_archive_v969.py.                                       *)
(*                                                                         *)
(* A leg is one SMTP message: an ordinary send has one leg whose envelope  *)
(* holds every recipient (one refused RCPT refuses the message), an        *)
(* individualized send has a leg per recipient.  Whether a payload is      *)
(* individualized is a property of its variant.  The replay test of        *)
(* operation_sent is left out: its operation id is derived from a delivery *)
(* id or Message-ID made for this very call, so it never finds a row.      *)
(***************************************************************************)
EXTENDS Integers, Sequences

CONSTANTS Callers, Keys, NoKey, Contents, Variants, Asked, Window, Horizon, MaxRows,
          Individualized,   \* the variants sent with one message per recipient
          Recipients,       \* number of recipients of an individualized send
          MaxAttempts,      \* RetryPolicy.max_attempts
          MaxFaults         \* bound: failures of the send's own bookkeeping

VARIABLES now, rows, pc, req, stamp, op, verdict, reply,
          step,        \* where the caller is inside the transport
          leg,         \* the leg being transmitted
          attempt,     \* its attempt number
          answer,      \* how the last SMTP transaction ended
          deliveries,  \* legs listed as delivered in the result being built
          accepted,    \* accepted[i][l]: copies of leg l of row i the server took
          archived,    \* archived[i]: copies of row i appended to Sent
          faults       \* bookkeeping failures so far

ledgerVars == <<now, rows, pc, req, stamp, op, verdict, reply>>
hopVars == <<step, leg, attempt, answer, deliveries>>
worldVars == <<accepted, archived, faults>>
vars == <<ledgerVars, hopVars, worldVars>>

Ledger == INSTANCE OutboundSafety

\* The constants of the ledger satisfy what OutboundSafety assumes of them.
ASSUME DeliveryAssumption ==
    /\ Individualized \subseteq Variants
    /\ Recipients \in Nat \ {0} /\ MaxAttempts \in Nat \ {0} /\ MaxFaults \in Nat
    /\ NoKey \notin Keys
    /\ Asked # {} /\ Asked \subseteq Ledger!Requests
    /\ Window \in Nat /\ Horizon \in Nat /\ MaxRows \in Nat

Answers == {"sent", "temporary", "permanent", "uncertain"}

TypeOK ==
    /\ Ledger!TypeOK
    /\ step \in [Callers -> {"out", "check", "submit", "record", "archive"}]
    /\ leg \in [Callers -> 1..Recipients]
    /\ attempt \in [Callers -> 1..MaxAttempts]
    /\ answer \in [Callers -> Answers]
    /\ deliveries \in [Callers -> SUBSET (1..Recipients)]
    /\ accepted \in [1..MaxRows -> [1..Recipients -> Nat]]
    /\ archived \in [1..MaxRows -> Nat]
    /\ faults \in 0..MaxFaults
    /\ \A c \in Callers : step[c] = "out" <=> pc[c] # "sending"

Init ==
    /\ Ledger!Init
    /\ step = [c \in Callers |-> "out"]
    /\ leg = [c \in Callers |-> 1]
    /\ attempt = [c \in Callers |-> 1]
    /\ answer = [c \in Callers |-> "permanent"]
    /\ deliveries = [c \in Callers |-> {}]
    /\ accepted = [i \in 1..MaxRows |-> [l \in 1..Recipients |-> 0]]
    /\ archived = [i \in 1..MaxRows |-> 0]
    /\ faults = 0

-----------------------------------------------------------------------------
individualized(c) == req[c].variant \in Individualized

Transmit(c, s, l, a) ==
    /\ step' = [step EXCEPT ![c] = s]
    /\ leg' = [leg EXCEPT ![c] = l]
    /\ attempt' = [attempt EXCEPT ![c] = a]
    /\ answer' = [answer EXCEPT ![c] = "permanent"]

\* The callback is over; execute will record o.
Leave(c, o) ==
    /\ Ledger!CallbackEnds(c, o)
    /\ Transmit(c, "out", 1, 1)
    /\ deliveries' = [deliveries EXCEPT ![c] = {}]

\* The individualized loop goes on with the next recipient, or to the archive.
NextLeg(c) ==
    /\ IF leg[c] < Recipients THEN Transmit(c, "check", leg[c] + 1, 1)
                              ELSE Transmit(c, "archive", leg[c], 1)
    /\ UNCHANGED ledgerVars

\* Slip: a leg that fails already marks the whole operation as failed.
LegFailsMarks(c, o) ==
    IF individualized(c)
    THEN /\ IF leg[c] < Recipients THEN Transmit(c, "check", leg[c] + 1, 1)
                                   ELSE Transmit(c, "archive", leg[c], 1)
         /\ rows' = [rows EXCEPT ![op[c]].state = o]
         /\ UNCHANGED <<now, pc, req, stamp, op, verdict, reply, deliveries>>
    ELSE Leave(c, o)

\* The transport raised.  The individualized loop swallows the exception into
\* its error list; an ordinary send lets it reach the ledger.
LegFails(c, o) ==
    IF individualized(c) THEN NextLeg(c) /\ UNCHANGED deliveries ELSE Leave(c, o)

\* A row is reserved and the callback is entered.
Enter(c) ==
    /\ Ledger!ReserveInsert(c)
    /\ Transmit(c, "check", 1, 1)
    /\ UNCHANGED <<deliveries, worldVars>>

\* Sending is disabled, or a recipient is on the suppression list: the
\* transport raises before any connection is made.
Blocked(c) ==
    /\ step[c] = "check"
    /\ LegFails(c, "failed")
    /\ UNCHANGED worldVars

\* An individualized leg is prepared outside the loop's try: when the delivery
\* row cannot be written, or a stored file it links to is gone by now, the
\* exception ends the whole call, whatever earlier legs have done.
PrepareFails(c) ==
    /\ step[c] = "check" /\ individualized(c) /\ faults < MaxFaults
    /\ faults' = faults + 1
    /\ Leave(c, "failed")
    /\ UNCHANGED <<accepted, archived>>

Allowed(c) ==
    /\ step[c] = "check"
    /\ step' = [step EXCEPT ![c] = "submit"]
    /\ UNCHANGED <<ledgerVars, leg, attempt, answer, deliveries, worldVars>>

SubmissionEnds(c, a) ==
    /\ step[c] = "submit"
    /\ step' = [step EXCEPT ![c] = "record"]
    /\ answer' = [answer EXCEPT ![c] = a]
    /\ UNCHANGED <<ledgerVars, leg, attempt, deliveries, archived, faults>>

\* The server took the message and its positive answer to DATA arrived.
Accepted(c) ==
    /\ SubmissionEnds(c, "sent")
    /\ accepted' = [accepted EXCEPT ![op[c]][leg[c]] = @ + 1]

\* Connect, login, MAIL, RCPT or DATA failed or was refused: the message was
\* not taken, and classify_smtp_failure says whether trying again makes sense.
Refused(c) ==
    /\ \E a \in {"temporary", "permanent"} : SubmissionEnds(c, a)
    /\ UNCHANGED accepted

\* Slip: a lost answer to DATA is classified as a temporary failure.
AnswerLostTemporary(c) ==
    /\ SubmissionEnds(c, "temporary")
    /\ \/ accepted' = [accepted EXCEPT ![op[c]][leg[c]] = @ + 1]
       \/ UNCHANGED accepted

\* Slip: a lost answer to DATA is classified as a permanent failure.
AnswerLostPermanent(c) ==
    /\ SubmissionEnds(c, "permanent")
    /\ \/ accepted' = [accepted EXCEPT ![op[c]][leg[c]] = @ + 1]
       \/ UNCHANGED accepted

\* The connection died or timed out in phase data_waiting: the server may or
\* may not have taken the message.
AnswerLost(c) ==
    /\ SubmissionEnds(c, "uncertain")
    /\ \/ accepted' = [accepted EXCEPT ![op[c]][leg[c]] = @ + 1]
       \/ UNCHANGED accepted

\* record_attempt has written the attempt and the loop decides.
RecordSent(c) ==
    /\ step[c] = "record" /\ answer[c] = "sent"
    /\ IF individualized(c)
       THEN NextLeg(c) /\ deliveries' = [deliveries EXCEPT ![c] = @ \cup {leg[c]}]
       ELSE /\ Transmit(c, "archive", leg[c], 1)
            /\ UNCHANGED <<ledgerVars, deliveries>>
    /\ UNCHANGED worldVars

\* Slip: the attempt number is not advanced.
RecordRetryForever(c) ==
    /\ step[c] = "record" /\ answer[c] = "temporary" /\ attempt[c] < MaxAttempts
    /\ Transmit(c, "submit", leg[c], attempt[c])
    /\ UNCHANGED <<ledgerVars, deliveries, worldVars>>

RecordRetry(c) ==
    /\ step[c] = "record" /\ answer[c] = "temporary" /\ attempt[c] < MaxAttempts
    /\ Transmit(c, "submit", leg[c], attempt[c] + 1)
    /\ UNCHANGED <<ledgerVars, deliveries, worldVars>>

\* Slip: the loop ends without raising, so the send goes on to its archive.
RecordFallsThrough(c) ==
    /\ step[c] = "record" /\ answer[c] # "sent"
    /\ answer[c] = "temporary" => attempt[c] = MaxAttempts
    /\ Transmit(c, "archive", leg[c], 1)
    /\ UNCHANGED <<ledgerVars, deliveries, worldVars>>

RecordGivesUp(c) ==
    /\ step[c] = "record" /\ answer[c] # "sent"
    /\ answer[c] = "temporary" => attempt[c] = MaxAttempts
    /\ LegFails(c, IF answer[c] = "uncertain" THEN "delivery_uncertain" ELSE "failed")
    /\ UNCHANGED worldVars

\* The INSERT of record_attempt fails.  The sqlite error replaces whatever the
\* attempt had to report and carries no trace of delivery_uncertain.
RecordFails(c) ==
    /\ step[c] = "record" /\ faults < MaxFaults
    /\ faults' = faults + 1
    /\ LegFails(c, "failed")
    /\ UNCHANGED <<accepted, archived>>

\* The canonical copy is appended to Sent, or the APPEND fails and is ignored.
\* An individualized send is archived when at least one delivery succeeded.
\* The result carries no delivery_state of its own for an individualized send,
\* so both kinds of send are recorded as sent.
Archive(c) ==
    /\ step[c] = "archive"
    /\ \E n \in IF individualized(c) /\ deliveries[c] = {} THEN {0} ELSE {0, 1} :
          archived' = [archived EXCEPT ![op[c]] = @ + n]
    /\ Leave(c, "sent")
    /\ UNCHANGED <<accepted, faults>>

Crash(c) ==
    /\ Ledger!Crash(c)
    /\ Transmit(c, "out", 1, 1)
    /\ deliveries' = [deliveries EXCEPT ![c] = {}]
    /\ UNCHANGED worldVars

LedgerOnly(c) ==
    \/ \E r \in Asked : Ledger!Begin(c, r)
    \/ Ledger!ReserveKnownKey(c) \/ Ledger!ReserveNearDuplicate(c) \/ Ledger!ReserveFails(c)
    \/ Ledger!Finish(c) \/ Ledger!FinishFails(c)

Transport(c) ==
    \/ Blocked(c) \/ PrepareFails(c) \/ Allowed(c)
    \/ Accepted(c) \/ Refused(c) \/ AnswerLost(c)
    \/ RecordSent(c) \/ RecordRetry(c) \/ RecordGivesUp(c) \/ RecordFails(c)
    \/ Archive(c)

Next ==
    \/ Ledger!Tick /\ UNCHANGED <<hopVars, worldVars>>
    \/ \E c \in Callers :
          \/ LedgerOnly(c) /\ UNCHANGED <<hopVars, worldVars>>
          \/ Enter(c) \/ Transport(c) \/ Crash(c)

Spec == Init /\ [][Next]_vars

\* SMTP and SQLite calls end in an answer, an error or a timeout, so a caller
\* that can go on does; nothing is assumed of new calls, crashes or the clock.
Fairness ==
    \A c \in Callers :
        WF_vars(Transport(c) \/ ((Ledger!Finish(c) \/ Ledger!FinishFails(c))
                                 /\ UNCHANGED <<hopVars, worldVars>>))

FairSpec == Spec /\ Fairness

-----------------------------------------------------------------------------
(***************************************************************************)
(* Properties.                                                             *)
(***************************************************************************)

\* Whatever the retries, lost answers and crashes, no leg of an operation is
\* taken twice by the SMTP server.
OneCopyPerLeg == \A i \in 1..MaxRows, l \in 1..Recipients : accepted[i][l] <= 1

\* What the ledger calls failed was not delivered, not even in part: this is
\* what makes it right that the near-duplicate guard ignores failed rows.
FailedMeansUndelivered ==
    \A i \in 1..Len(rows) :
        rows[i].state = "failed" => \A l \in 1..Recipients : accepted[i][l] = 0

\* An ordinary send recorded as sent was taken by the server, a recipient that
\* an individualized result lists as delivered was, and Sent holds at most one
\* copy of an operation, of which the server took a message.
ReportedMeansDelivered ==
    /\ \A i \in 1..Len(rows) :
          (rows[i].state = "sent" /\ rows[i].variant \notin Individualized)
             => accepted[i][1] = 1
    /\ \A c \in Callers : \A l \in deliveries[c] : accepted[op[c]][l] = 1
    /\ \A i \in 1..MaxRows :
          archived[i] > 0 => archived[i] = 1 /\ \E l \in 1..Recipients : accepted[i][l] > 0

\* What is told as delivered was delivered, and what the ledger calls failed was
\* not, the latter while the bookkeeping of the sends themselves does not fail.
ReportsAreTrue == ReportedMeansDelivered /\ (faults = 0 => FailedMeansUndelivered)

\* Of two equivalent sends within the window, the later one not forced, at
\* most one reaches the SMTP server: a send that succeeded is not repeated
\* because of what its own bookkeeping made of it.
EquivalentSendsOnce ==
    Window > 0 =>
        \A i, j \in 1..Len(rows) :
            ( /\ i < j /\ ~rows[j].force
              /\ rows[i].content = rows[j].content
              /\ rows[j].created - rows[i].created <= Window
              /\ \E l \in 1..Recipients : accepted[i][l] > 0 )
            => \A l \in 1..Recipients : accepted[j][l] = 0

\* The same as long as no bookkeeping of a send has failed: what retries, lost
\* answers, swallowed legs and crashes make of a send never lets the guard of
\* the ledger take it for one that went nowhere.
EquivalentTakenOnce == faults = 0 => EquivalentSendsOnce

\* The transport stands where OutboundSafety has its opaque callback. This holds
\* by construction, and carries what is proved of the ledger over to the delivery.
ImplementsLedger == Ledger!Spec

\* The retry loop and the recipient loop end: a call that reached the
\* transport comes back, whatever the server answers.
DeliveryEnds == \A c \in Callers : (pc[c] = "sending") ~> (pc[c] = "idle")
=============================================================================
