---------------------------- MODULE InboundWatch ----------------------------
(***************************************************************************)
(* What arriving mail does to deliveries and to the suppression list: one  *)
(* watcher thread per account (imap_idle.py, started by runtime_v950.py),  *)
(* the passes over the inbox above a high-water mark (mail_v950.py), and   *)
(* the bounce bookkeeping they share (delivery_reliability.py), beside     *)
(* people who suppress, lift and unsubscribe.                              *)
(*                                                                         *)
(* The inbox of an account is external: Mail[a][u] is the message that     *)
(* arrives under UID u.  A message has a form (a delivery report or not),  *)
(* wording, the recipient and the envelope a report names, the delivery    *)
(* its thread headers name, and marks of an automatic answer.  A message   *)
(* too long to be read whole is passed over like one about nothing.        *)
(***************************************************************************)
EXTENDS Integers, FiniteSets, Sequences, FiniteSetsExt

CONSTANTS
  Accounts,
  Mail,          \* by account, messages: [report, reads, to, envelope, about, marks]
  Deliveries,    \* rows of tracking_deliveries, numbered in the order they were sent
  Recipient,     \* the recipient of each delivery
  NoDelivery,
  NoRecipient,   \* of a message that is no report
  Threshold,     \* max(2, SOFT_BOUNCE_SUPPRESSION_THRESHOLD)
  Limit,         \* messages one pass looks at, 50
  MaxPasses,     \* bound: passes per account
  MaxEdits,      \* bound: suppressions and lifts by people
  Restarts       \* bound: restarts

VARIABLES
  arrived,    \* external: the highest UID the inbox has given out
  gone,       \* external: UIDs expunged
  mark,       \* _inbound_highwater, a class attribute; -1 until the first pass
  pass,       \* the pass a watcher is in
  row,        \* recipient_suppressions: [active, count, reason], or NoRow
  delivery,   \* delivery_state, bounce_classification and conversation_state
  done,       \* history: by account, the UIDs processed since the mark was set
  base,       \* history: the mark as first set
  bounced,    \* history: by recipient, the soft bounces counted, <<account, uid>>
  hard,       \* history: recipients a hard bounce suppressed, not lifted since
  passes, edits, restarts

vars == <<arrived, gone, mark, pass, row, delivery, done, base, bounced, hard, passes, edits,
          restarts>>
inbox == <<arrived, gone>>
history == <<base, bounced, hard>>
counters == <<passes, edits, restarts>>

-----------------------------------------------------------------------------

Recipients == {Recipient[d] : d \in Deliveries}
NoRow == [active |-> FALSE, count |-> 0, reason |-> "none"]
Idle == [at |-> "idle"]
ServerUids(a) == 1..Len(Mail[a])
Live(a) == (1..arrived[a]) \ gone[a]
IsHighest(a, u) == \A v \in Live(a) : v <= u

\* _status_classification, m.reads: what status, action, diagnostic or, without those, the first
\* 4000 characters come to
Hard == {"hard_bounce", "user_unknown"}
Soft == {"soft_bounce", "mailbox_full", "delayed", "deferred", "greylisting"}
Other == {"policy_rejection", "spam_reputation_rejection", "unknown"}

InboundAssumption ==
  /\ \A a \in Accounts : Mail[a] \in Seq([report : BOOLEAN, reads : Hard \cup Soft \cup Other,
        to : Recipients \cup {NoRecipient}, envelope : Deliveries \cup {NoDelivery},
        about : Deliveries \cup {NoDelivery},
        marks : [submitted : STRING, bulk : BOOLEAN, vacation : BOOLEAN]])
  /\ Threshold \in Nat /\ Limit \in Nat

\* a burst of messages fits in one pass
BurstsFit == \A a \in Accounts : Len(Mail[a]) <= Limit

Init ==
  /\ arrived = [a \in Accounts |-> 0] /\ gone = [a \in Accounts |-> {}]
  /\ mark = [a \in Accounts |-> -1] /\ pass = [a \in Accounts |-> Idle]
  /\ row = [r \in Recipients |-> NoRow]
  /\ delivery = [d \in Deliveries |-> [state |-> "sent", bounce |-> "", conversation |-> "awaiting_reply"]]
  /\ done = [a \in Accounts |-> {}] /\ base = [a \in Accounts |-> 0]
  /\ bounced = [r \in Recipients |-> {}] /\ hard = {}
  /\ passes = [a \in Accounts |-> 0] /\ edits = 0 /\ restarts = 0

-----------------------------------------------------------------------------
(* The inbox.                                                              *)

Arrive(a) ==
  /\ arrived[a] < Len(Mail[a])
  /\ arrived' = [arrived EXCEPT ![a] = @ + 1]
  /\ UNCHANGED <<gone, mark, pass, row, delivery, done, history, counters>>

Expunge(a, u) ==
  /\ u \in Live(a)
  /\ gone' = [gone EXCEPT ![a] = @ \cup {u}]
  /\ UNCHANGED <<arrived, mark, pass, row, delivery, done, history, counters>>

-----------------------------------------------------------------------------
(* process_inbound_changes, on EXISTS, RECENT, EXPUNGE or FETCH, or when   *)
(* the poll interval ends: a pass may start at any time.                   *)

\* a plausible slip: SEARCH from the wrong end of the mark
FreshSkipsOne(a) == {u \in Live(a) : u > mark[a] + 1}

\* what UID SEARCH mark+1:* answers: the range n:* holds the last message even when n is
\* beyond it
Fresh(a) == {u \in Live(a) : u > mark[a] \/ IsHighest(a, u)}

\* the last Limit of them
LastOf(us) == {u \in us : Cardinality({v \in us : v > u}) < Limit}

\* the first pass only takes the mark
TakeMark(a) ==
  /\ pass[a] = Idle /\ mark[a] = -1 /\ passes[a] < MaxPasses
  /\ \E high \in Live(a) \cup {0} :
       /\ IsHighest(a, high)
       /\ mark' = [mark EXCEPT ![a] = high] /\ base' = [base EXCEPT ![a] = high]
  /\ done' = [done EXCEPT ![a] = {}]
  /\ passes' = [passes EXCEPT ![a] = @ + 1]
  /\ UNCHANGED <<inbox, pass, row, delivery, bounced, hard, edits, restarts>>

Start(a) ==
  /\ pass[a] = Idle /\ mark[a] # -1 /\ passes[a] < MaxPasses
  /\ pass' = [pass EXCEPT ![a] = [at |-> "fetch", uids |-> LastOf(Fresh(a)), high |-> mark[a],
                                  uid |-> 0, count |-> 0]]
  /\ passes' = [passes EXCEPT ![a] = @ + 1]
  /\ UNCHANGED <<inbox, mark, row, delivery, done, history, edits, restarts>>

\* a message is taken for a report by its form, or by telling words wherever they stand
IsReport(m) == m.report \/ m.reads # "unknown"

\* correlate_delivery: the envelope id, then the message id or the thread, then the last
\* delivery to that recipient
Correlated(m) ==
  IF m.envelope # NoDelivery THEN m.envelope
  ELSE IF m.about # NoDelivery THEN m.about
  ELSE Max({d \in Deliveries : Recipient[d] = m.to})

Bounced(d, m) ==
  [delivery EXCEPT ![d] = [state |-> IF m.reads \in Soft THEN "temporarily_failed" ELSE "bounced",
                           bounce |-> m.reads, conversation |-> "bounced"]]

\* detect_auto_reply: marks.submitted is Auto-Submitted, marks.bulk a Precedence or a
\* suppression header, marks.vacation a subject like one of an absence
Automatic(m) ==
  \/ m.marks.submitted \notin {"", "no"}
  \/ m.marks.bulk
  \/ m.marks.vacation /\ m.marks.submitted = ""

Answered(m) ==
  [delivery EXCEPT ![m.about].conversation = IF Automatic(m) THEN "auto_reply" ELSE "replied"]

\* one message is fetched and classified; a reply or a bounce is written to its delivery
Process(a) ==
  /\ pass[a].at = "fetch"
  /\ \E u \in pass[a].uids :
     LET m == Mail[a][u]
         on == [pass[a] EXCEPT !.uids = @ \ {u}, !.high = IF u > @ THEN u ELSE @, !.uid = u]
     IN /\ u \notin gone[a] /\ \A v \in pass[a].uids : u <= v
        /\ done' = [done EXCEPT ![a] = @ \cup {u}]
        /\ delivery' = CASE IsReport(m) /\ m.to # NoRecipient -> Bounced(Correlated(m), m)
                         [] ~IsReport(m) /\ m.about # NoDelivery -> Answered(m)
                         [] OTHER -> delivery
        /\ pass' = [pass EXCEPT ![a] =
             IF ~IsReport(m) \/ m.to = NoRecipient \/ m.reads \in Other THEN on
             ELSE [on EXCEPT !.at = IF m.reads \in Soft THEN "count" ELSE "suppress"]]
  /\ UNCHANGED <<inbox, mark, row, history, counters>>

\* record_bounce reads the count of soft bounces before it takes the lock ...
ReadCount(a) ==
  /\ pass[a].at = "count"
  /\ pass' = [pass EXCEPT ![a] = [@ EXCEPT !.at = "write", !.count = row[Mail[a][pass[a].uid].to].count + 1]]
  /\ UNCHANGED <<inbox, mark, row, delivery, done, history, counters>>

\* a plausible slip: the upsert writes every column
CountedRowInactive(r, n) == [active |-> FALSE, count |-> n, reason |-> "repeated_soft_bounce"]

\* ON CONFLICT leaves active and the reason of an existing row alone
CountedRow(r, n) ==
  [active |-> row[r].active, count |-> n,
   reason |-> IF row[r] = NoRow THEN "repeated_soft_bounce" ELSE row[r].reason]

\* ... and writes the sum under it
WriteCount(a) ==
  /\ pass[a].at = "write"
  /\ LET r == Mail[a][pass[a].uid].to
         n == pass[a].count
     IN /\ row' = [row EXCEPT ![r] = CountedRow(r, n)]
        /\ bounced' = [bounced EXCEPT ![r] = @ \cup {<<a, pass[a].uid>>}]
        /\ pass' = [pass EXCEPT ![a] = [@ EXCEPT !.at = IF n >= Threshold THEN "suppress" ELSE "fetch"]]
  /\ UNCHANGED <<inbox, mark, delivery, done, base, hard, counters>>

Suppressed(r, reason, n) ==
  [row EXCEPT ![r] = [active |-> TRUE, reason |-> reason, count |-> IF n > @.count THEN n ELSE @.count]]

Suppress(a) ==
  /\ pass[a].at = "suppress"
  /\ LET m == Mail[a][pass[a].uid]
     IN IF m.reads \in Hard
        THEN row' = Suppressed(m.to, "hard_bounce", 0) /\ hard' = hard \cup {m.to}
        ELSE row' = Suppressed(m.to, "repeated_soft_bounce", pass[a].count) /\ UNCHANGED hard
  /\ pass' = [pass EXCEPT ![a] = [@ EXCEPT !.at = "fetch"]]
  /\ UNCHANGED <<inbox, mark, delivery, done, base, bounced, counters>>

\* the mark advances only when every message of the pass was read
Finish(a) ==
  /\ pass[a].at = "fetch" /\ pass[a].uids = {}
  /\ mark' = [mark EXCEPT ![a] = pass[a].high]
  /\ pass' = [pass EXCEPT ![a] = Idle]
  /\ UNCHANGED <<inbox, row, delivery, done, history, counters>>

\* the connection is lost or a message has gone: the exception is logged, the mark stays
Abort(a) ==
  /\ pass[a].at = "fetch" /\ pass[a].uids # {}
  /\ pass' = [pass EXCEPT ![a] = Idle]
  /\ UNCHANGED <<inbox, mark, row, delivery, done, history, counters>>

-----------------------------------------------------------------------------
(* People, and the process.                                                *)

\* suppress by hand, or by the one-click link of a newsletter
PersonSuppresses(r, reason) ==
  /\ edits < MaxEdits
  /\ row' = Suppressed(r, reason, row[r].count)
  /\ edits' = edits + 1
  /\ UNCHANGED <<inbox, mark, pass, delivery, done, history, passes, restarts>>

\* unsuppress clears active and keeps the count
Lift(r) ==
  /\ edits < MaxEdits
  /\ row' = [row EXCEPT ![r].active = FALSE]
  /\ hard' = hard \ {r}
  /\ edits' = edits + 1
  /\ UNCHANGED <<inbox, mark, pass, delivery, done, base, bounced, passes, restarts>>

\* the marks live in the process
Restart ==
  /\ restarts < Restarts
  /\ mark' = [a \in Accounts |-> -1] /\ pass' = [a \in Accounts |-> Idle]
  /\ done' = [a \in Accounts |-> {}]
  /\ restarts' = restarts + 1
  /\ UNCHANGED <<inbox, row, delivery, history, passes, edits>>

Watch(a) ==
  TakeMark(a) \/ Start(a) \/ Process(a) \/ ReadCount(a) \/ WriteCount(a) \/ Suppress(a)
  \/ Finish(a) \/ Abort(a)

Next ==
  \/ \E a \in Accounts : Arrive(a) \/ Watch(a) \/ \E u \in ServerUids(a) : Expunge(a, u)
  \/ \E r \in Recipients : Lift(r) \/ \E reason \in {"manual", "unsubscribe"} : PersonSuppresses(r, reason)
  \/ Restart

Spec == Init /\ [][Next]_vars

-----------------------------------------------------------------------------
(* What must hold.                                                         *)

Reasons == {"none", "hard_bounce", "repeated_soft_bounce", "unsubscribe", "manual"}

TypeOK ==
  /\ \A a \in Accounts : arrived[a] \in 0..Len(Mail[a]) /\ gone[a] \subseteq ServerUids(a)
                         /\ mark[a] \in -1..Len(Mail[a])
  /\ delivery \in [Deliveries -> [state : {"sent", "temporarily_failed", "bounced"},
        bounce : Hard \cup Soft \cup Other \cup {""},
        conversation : {"awaiting_reply", "bounced", "auto_reply", "replied"}]]
  /\ row \in [Recipients -> [active : BOOLEAN, count : Nat, reason : Reasons]]

\* No message is passed over: what arrived after a watcher took its mark, lies at or below
\* the mark and is still there has been processed, through aborted passes, expunged messages
\* and answers that repeat the last message (while a burst fits in Limit).
NothingPassedOver ==
  \A a \in Accounts : mark[a] # -1 =>
    \A u \in Live(a) : u > base[a] /\ u <= mark[a] => u \in done[a]

\* A hard bounce keeps its recipient suppressed until someone lifts it, though watchers of
\* other accounts count soft bounces of the same recipient under a count they read before.
HardBounceHolds == \A r \in hard : row[r].active

\* Replies are told from bounces, conservatively (CHANGELOG.md:405, :407): once a person's
\* answer has been processed its delivery no longer waits for one.
AnswersAreNoted ==
  \A a \in Accounts : \A u \in done[a] :
    LET m == Mail[a][u]
    IN ~m.report /\ ~Automatic(m) /\ m.about # NoDelivery => delivery[m.about].conversation # "awaiting_reply"

\* "A single soft bounce never creates permanent suppression" (README.md:765): who is
\* suppressed for repeated soft bounces has had two of them.
SingleSoftBounceSpares ==
  \A r \in Recipients :
    row[r].active /\ row[r].reason = "repeated_soft_bounce" => Cardinality(bounced[r]) >= 2

=============================================================================
