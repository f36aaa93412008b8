---------------------------- MODULE MailboxMoves ----------------------------
(***************************************************************************)
(* Moves, junk marks and read marks on the IMAP server                     *)
(* (mail_extensions.py): one MOVE where the server has it, else COPY, a    *)
(* \Deleted flag and EXPUNGE, each of which may fail, beside other clients *)
(* of the same mailboxes.  A command about a UID that is gone succeeds and *)
(* does nothing.                                                           *)
(***************************************************************************)
EXTENDS Integers, FiniteSets

CONSTANTS
  Callers,
  Boxes, Inbox, Junk,
  Messages,     \* they start in Inbox, under UIDs 1..
  First,        \* by message, its first UID
  MaxUid,       \* bound: UIDs a mailbox gives out
  MaxCalls,     \* bound: calls
  MaxOthers     \* bound: acts of other clients

VARIABLES
  canMove,      \* the server has MOVE
  box,          \* external: by mailbox, the messages [uid, msg, deleted, junk, seen]
  last,         \* external: by mailbox, the last UID given out
  call,         \* the call each caller is in
  discarded,    \* history: messages another client marked \Deleted
  swept,        \* history: messages an EXPUNGE of ours took along
  calls, others

vars == <<canMove, box, last, call, discarded, swept, calls, others>>
imap == <<box, last>>

-----------------------------------------------------------------------------

MovesAssumption ==
  /\ Inbox \in Boxes /\ Junk \in Boxes
  /\ IsFiniteSet(Messages) /\ First \in [Messages -> 1..Cardinality(Messages)]
  /\ MaxUid \in Nat /\ Cardinality(Messages) <= MaxUid

Idle == [at |-> "idle"]
Goes(c, r) == call' = [call EXCEPT ![c] = r]
At(b, u) == {x \in box[b] : x.uid = u}

Init ==
  /\ canMove \in BOOLEAN
  /\ box = [b \in Boxes |-> IF b = Inbox
              THEN {[uid |-> First[m], msg |-> m, deleted |-> FALSE, junk |-> FALSE, seen |-> FALSE] : m \in Messages}
              ELSE {}]
  /\ last = [b \in Boxes |-> IF b = Inbox THEN Cardinality(Messages) ELSE 0]
  /\ call = [c \in Callers |-> Idle]
  /\ discarded = {} /\ swept = {}
  /\ calls = 0 /\ others = 0

\* external: COPY keeps the flags and gives a new UID
Copied(b, u, d) ==
  IF At(b, u) = {} THEN UNCHANGED imap
  ELSE /\ last[d] < MaxUid
       /\ last' = [last EXCEPT ![d] = @ + 1]
       /\ box' = [box EXCEPT ![d] = @ \cup {[x EXCEPT !.uid = last[d] + 1] : x \in At(b, u)}]

\* external: STORE puts the flags of a message
Flagged(b, u, marked) == box' = [box EXCEPT ![b] = (@ \ At(b, u)) \cup marked] /\ UNCHANGED last

\* external: MOVE is one step
Moved(b, u, d) ==
  IF At(b, u) = {} THEN UNCHANGED imap
  ELSE /\ last[d] < MaxUid
       /\ last' = [last EXCEPT ![d] = @ + 1]
       /\ box' = [e \in Boxes |-> (box[e] \ (IF e = b THEN At(b, u) ELSE {}))
                                   \cup (IF e = d THEN {[x EXCEPT !.uid = last[d] + 1] : x \in At(b, u)} ELSE {})]

-----------------------------------------------------------------------------

\* a call names a UID the mailbox has given out
Starts(c, b, u) == call[c] = Idle /\ u <= last[b] /\ calls < MaxCalls /\ calls' = calls + 1

\* move_email
Move(c, b, u, d) ==
  /\ Starts(c, b, u)
  /\ Goes(c, [at |-> IF canMove THEN "move" ELSE "copy", from |-> b, uid |-> u, to |-> d])
  /\ UNCHANGED <<canMove, imap, discarded, swept, others>>

\* mark_as_spam: junk keywords, whether the server takes them or not, then a move to Junk
MarkAsSpam(c, b, u) ==
  /\ Starts(c, b, u)
  /\ UNCHANGED imap \/ Flagged(b, u, {[x EXCEPT !.junk = TRUE] : x \in At(b, u)})
  /\ Goes(c, [at |-> IF canMove THEN "move" ELSE "copy", from |-> b, uid |-> u, to |-> Junk])
  /\ UNCHANGED <<canMove, discarded, swept, others>>

\* mark_not_spam: the keywords go if they can, then a move to the inbox
MarkNotSpam(c, b, u) ==
  /\ Starts(c, b, u)
  /\ UNCHANGED imap \/ Flagged(b, u, {[x EXCEPT !.junk = FALSE] : x \in At(b, u)})
  /\ Goes(c, [at |-> IF canMove THEN "move" ELSE "copy", from |-> b, uid |-> u, to |-> Inbox])
  /\ UNCHANGED <<canMove, discarded, swept, others>>

SetSeen(c, b, u, seen) ==
  /\ Starts(c, b, u)
  /\ Flagged(b, u, {[x EXCEPT !.seen = seen] : x \in At(b, u)})
  /\ UNCHANGED <<canMove, call, discarded, swept, others>>

\* one MOVE, or it fails
UidMove(c) ==
  /\ call[c].at = "move"
  /\ UNCHANGED imap \/ Moved(call[c].from, call[c].uid, call[c].to)
  /\ Goes(c, Idle)
  /\ UNCHANGED <<canMove, discarded, swept, calls, others>>

\* a plausible slip: the answer to COPY is not looked at
UidCopyUnchecked(c) ==
  /\ call[c].at = "copy"
  /\ UNCHANGED imap \/ Copied(call[c].from, call[c].uid, call[c].to)
  /\ Goes(c, [call[c] EXCEPT !.at = "store"])
  /\ UNCHANGED <<canMove, discarded, swept, calls, others>>

\* COPY, whose failure ends the call
UidCopy(c) ==
  /\ call[c].at = "copy"
  /\ \/ Goes(c, Idle) /\ UNCHANGED imap
     \/ Goes(c, [call[c] EXCEPT !.at = "store"]) /\ Copied(call[c].from, call[c].uid, call[c].to)
  /\ UNCHANGED <<canMove, discarded, swept, calls, others>>

\* the source is marked; a failure leaves the message in both mailboxes
UidStore(c) ==
  /\ call[c].at = "store"
  /\ \/ Goes(c, Idle) /\ UNCHANGED imap
     \/ LET k == call[c]
        IN /\ Goes(c, [k EXCEPT !.at = "expunge"])
           /\ Flagged(k.from, k.uid, {[x EXCEPT !.deleted = TRUE] : x \in At(k.from, k.uid)})
  /\ UNCHANGED <<canMove, discarded, swept, calls, others>>

\* EXPUNGE takes every marked message of the mailbox; its answer is not looked at
Expunge(c) ==
  /\ call[c].at = "expunge"
  /\ LET k == call[c]
         out == {x \in box[k.from] : x.deleted}
     IN \/ UNCHANGED <<imap, swept>>
        \/ /\ box' = [box EXCEPT ![k.from] = @ \ out]
           /\ swept' = swept \cup {x.msg : x \in {y \in out : y.uid # k.uid}}
           /\ UNCHANGED last
  /\ Goes(c, Idle)
  /\ UNCHANGED <<canMove, discarded, calls, others>>

-----------------------------------------------------------------------------

\* external: another client marks a message \Deleted, to expunge it or to change its mind
OtherMarks(b, u) ==
  /\ others < MaxOthers /\ others' = others + 1 /\ At(b, u) # {}
  /\ Flagged(b, u, {[x EXCEPT !.deleted = ~@] : x \in At(b, u)})
  /\ discarded' = discarded \cup {x.msg : x \in At(b, u)}
  /\ UNCHANGED <<canMove, call, swept, calls>>

Next ==
  \/ \E c \in Callers :
       \/ UidMove(c) \/ UidCopy(c) \/ UidStore(c) \/ Expunge(c)
       \/ \E b \in Boxes, u \in 1..MaxUid :
            \/ MarkAsSpam(c, b, u) \/ MarkNotSpam(c, b, u)
            \/ \E seen \in BOOLEAN : SetSeen(c, b, u, seen)
            \/ \E d \in Boxes : Move(c, b, u, d)
  \/ \E b \in Boxes, u \in 1..MaxUid : OtherMarks(b, u)

Spec == Init /\ [][Next]_vars

-----------------------------------------------------------------------------
(* What must hold.                                                         *)

TypeOK == \A b \in Boxes : last[b] \in 0..MaxUid /\ \A x \in box[b] : x.uid \in 1..last[b] /\ x.msg \in Messages

\* A message nobody else marked is in some mailbox, however moves of it overlap and fail.
NothingLost == \A m \in Messages \ discarded : \E b \in Boxes : \E x \in box[b] : x.msg = m

\* A move takes one message from a mailbox (server.py:547).
TakesOnlyItsOwn == swept = {}

=============================================================================
