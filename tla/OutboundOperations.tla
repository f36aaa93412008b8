------------------------- MODULE OutboundOperations -------------------------
(***************************************************************************)
(* The index of what was sent and the answers that find their way back to  *)
(* it (outbound_operations_v969.py, outbound_archive_v969.py).  After a    *)
(* send one operation is recorded with its deliveries, one per             *)
(* individualised message, or with its mappings, one per recipient of a    *)
(* message all share.  The ledger may answer the same call again, which    *)
(* records the operation again; recording may fail, and the send stands.   *)
(* An arriving message is resolved by In-Reply-To, then by References from *)
(* the newest to the oldest.                                               *)
(***************************************************************************)
EXTENDS Integers, Sequences, SequencesExt, FiniteSets

CONSTANTS
  Accounts,
  Shapes,       \* what a send can be: [to, cc, bcc, single], recipients of each role
  Legacy,       \* an operation of the unreleased format, recorded under pseudo ids, or NoOperation
  NoOperation,
  MaxSends,     \* bound: logical sends
  MaxReplies,   \* bound: messages that arrive
  MaxFaults     \* bound: recordings that fail

\* what is assumed of the constants; the module that instantiates them asserts it
OperationsAssumption ==
  /\ \A s \in Shapes : s.single \in BOOLEAN
  /\ Legacy # NoOperation =>
       Legacy.account \in Accounts /\ Legacy.shape.single = FALSE
       /\ Legacy.shape.to \cup Legacy.shape.cc \cup Legacy.shape.bcc # {}
  /\ MaxSends \in Nat /\ MaxReplies \in Nat /\ MaxFaults \in Nat

VARIABLES
  ops,          \* outbound_operations_v969: [account, canonical]
  deliveries,   \* outbound_operation_deliveries_v969: [id, op, mid, to, role]
  mappings,     \* outbound_operation_recipient_mappings_v969: [op, mid, to, role]
  sends,        \* the ledger's results by operation id: [account, shape, went, first]
  migrated,     \* this process has opened the store
  mails,        \* external: messages recipients have: [mid, to, sender, refs]
  told,         \* what the last arrival was correlated with
  replies, faults

vars == <<ops, deliveries, mappings, sends, migrated, mails, told, replies, faults>>
tables == <<ops, deliveries, mappings>>

-----------------------------------------------------------------------------

NotTold == [row |-> [op |-> 0, to |-> "none", role |-> "none"], account |-> "none", from |-> "none",
            latest |-> <<0, "none">>, reads |-> {}, known |-> {}]
None == [op |-> 0, to |-> "none", role |-> "none"]
Roles == {"to", "cc", "bcc"}
Of(shape, role) == IF role = "to" THEN shape.to ELSE IF role = "cc" THEN shape.cc ELSE shape.bcc

\* an address stands under its first role
RoleOf(shape, r) == IF r \in shape.to THEN "to" ELSE IF r \in shape.cc THEN "cc" ELSE "bcc"
Envelope(shape) == shape.to \cup shape.cc \cup shape.bcc

\* a message of our own: <operation, recipient> when individualised, <operation> when shared
Mid(n, shape, r) == IF shape.single THEN <<n, r>> ELSE <<n, "all">>

\* pseudo ids: delivery_<24 hex>; others are the tracking subsystem's
Pseudo(id) == id[1] = "pseudo"

Went(n) == sends[n].went
\* result["deliveries"] of an individualised send
Deliveries(n) ==
  IF sends[n].shape.single
  THEN {[id |-> <<"real", n, r>>, op |-> n, mid |-> Mid(n, sends[n].shape, r), to |-> r,
         role |-> RoleOf(sends[n].shape, r)] : r \in Went(n)}
  ELSE {}

\* _normal_group_recipient_mappings, of a group message that was sent
Mappings(n) ==
  IF sends[n].shape.single THEN {}
  ELSE {[op |-> n, mid |-> Mid(n, sends[n].shape, r), to |-> r, role |-> RoleOf(sends[n].shape, r)] : r \in Went(n)}

\* the first individualised message that went, or the shared one
Canonical(n) == IF Went(n) = {} THEN <<0, "none">> ELSE Mid(n, sends[n].shape, sends[n].first)

Init ==
  /\ ops = IF Legacy = NoOperation THEN <<>> ELSE <<[account |-> Legacy.account, canonical |-> <<1, "all">>]>>
  /\ sends = IF Legacy = NoOperation THEN <<>>
             ELSE <<[account |-> Legacy.account, shape |-> Legacy.shape, went |-> Envelope(Legacy.shape),
                 first |-> "none"]>>
  /\ deliveries = IF Legacy = NoOperation THEN {}
                  ELSE {[id |-> <<"pseudo", 1, r>>, op |-> 1, mid |-> <<1, "all">>, to |-> r,
                         role |-> RoleOf(Legacy.shape, r)] : r \in Envelope(Legacy.shape)}
  /\ mappings = {}
  /\ mails = IF Legacy = NoOperation THEN {}
             ELSE {[mid |-> <<1, "all">>, to |-> r, sender |-> "us", refs |-> <<>>] : r \in Envelope(Legacy.shape)}
  /\ migrated = FALSE /\ told = NotTold
  /\ replies = 0 /\ faults = 0

-----------------------------------------------------------------------------
(* The store.                                                              *)

\* _migrate_legacy_pseudo_deliveries, when the store is first opened
Open ==
  /\ ~migrated /\ migrated' = TRUE
  /\ LET old == {d \in deliveries : Pseudo(d.id)} IN
     /\ mappings' = mappings \cup {[op |-> d.op, mid |-> d.mid, to |-> d.to, role |-> d.role] : d \in old}
     /\ deliveries' = deliveries \ old
  /\ UNCHANGED <<ops, sends, mails, told, replies, faults>>

\* record_operation: the row is written or updated, its children are replaced
Record(n) ==
  /\ ops' = [k \in DOMAIN ops \cup {n} |->
               IF k = n THEN [account |-> sends'[n].account, canonical |-> Canonical(n)'] ELSE ops[k]]
  /\ deliveries' = {d \in deliveries : d.op # n} \cup Deliveries(n)'
  /\ mappings' = {m \in mappings : m.op # n} \cup Mappings(n)'

\* a failure after the send is swallowed
Recorded(n) ==
  \/ Record(n) /\ UNCHANGED faults
  \/ faults < MaxFaults /\ faults' = faults + 1 /\ UNCHANGED tables

\* a send, of its own or onto a thread, of which some legs went; a group message goes whole
Send(a, shape, thread) ==
  /\ migrated /\ Len(sends) < MaxSends
  /\ \E n \in {Len(sends) + 1} :
     \E went \in IF shape.single THEN SUBSET Envelope(shape) ELSE {Envelope(shape)} :
       \E first \in IF went = {} THEN {"none"} ELSE went :
         /\ sends' = Append(sends, [account |-> a, shape |-> shape, went |-> went, first |-> first])
         /\ mails' = mails \cup {[mid |-> Mid(n, shape, r), to |-> r, sender |-> "us", refs |-> thread] : r \in went}
         /\ Recorded(n)
  /\ UNCHANGED <<migrated, told, replies>>

\* the ledger answers the call again with the result it keeps
Replay(n) == migrated /\ UNCHANGED <<sends, mails, migrated, told, replies>> /\ Recorded(n)

-----------------------------------------------------------------------------
(* An arriving message.                                                    *)

\* a plausible slip: the ids of all accounts are looked through
OfAnyAccount(rows, a, mid) == {x \in rows : x.mid = mid}

OfAccount(rows, a, mid) == {x \in rows : x.mid = mid /\ x.op \in DOMAIN ops /\ ops[x.op].account = a}

\* a plausible slip: the first recipient of the message will do
FirstOf(rows, from) == IF rows = {} THEN {} ELSE {CHOOSE x \in rows : TRUE}

\* _unique_sender_match
MatchOf(rows, from) ==
  LET same == {x \in rows : x.to = from} IN IF Cardinality(same) = 1 THEN same ELSE {}

\* by_message_id: the operation, when only one knows the id
Operations(a, mid) ==
  {n \in DOMAIN ops : ops[n].account = a /\ ops[n].canonical = mid}
  \cup {x.op : x \in OfAccount(deliveries, a, mid) \cup OfAccount(mappings, a, mid)}

Row(x) == [op |-> x.op, to |-> x.to, role |-> x.role]
Only(S) == CHOOSE x \in S : TRUE

\* what one reference gives: a delivery, a mapping of the sender, the operation, or nothing
ByReference(a, mid, from) ==
  LET ds == OfAccount(deliveries, a, mid)
      ms == OfAccount(mappings, a, mid)
      os == Operations(a, mid)
      shared == {m.op : m \in ms}
      whole == IF Cardinality(os) = 1 THEN [None EXCEPT !.op = Only(os)] ELSE None
  IN IF Cardinality(ds) = 1 THEN Row(Only(ds))
     ELSE IF ds # {} /\ MatchOf(ds, from) # {} THEN Row(Only(MatchOf(ds, from)))
     ELSE IF ds # {} /\ whole # None THEN whole
     ELSE IF Cardinality(shared) # 1 THEN whole
     ELSE IF MatchOf(ms, from) # {} THEN Row(Only(MatchOf(ms, from)))
     ELSE [None EXCEPT !.op = Only(shared)]

\* a plausible slip: References are read from the oldest on
OrderedAsWritten(m) == m.refs

\* _parse_reply: In-Reply-To, then References backwards
Ordered(m) == Reverse(m.refs)

Resolve(a, m) ==
  LET found == {k \in DOMAIN m.refs : ByReference(a, Ordered(m)[k], m.sender) # None}
  IN IF found = {} THEN None ELSE ByReference(a, Ordered(m)[Min(found)], m.sender)

\* _public_reply_correlation: that the address was a Bcc is not told
Public(row) == IF row.role = "bcc" THEN [row EXCEPT !.role = "none"] ELSE row

\* external: a recipient answers a message it has, to the account and perhaps to the others
Answer(a, m) ==
  /\ migrated /\ m.to # "us" /\ replies < MaxReplies /\ replies' = replies + 1
  /\ LET reply == [mid |-> <<-replies, "reply">>, to |-> "us", sender |-> m.to, refs |-> Append(m.refs, m.mid)]
     IN /\ \E others \in SUBSET ({x.to : x \in mails} \ {"us", m.to}) :
             mails' = mails \cup {[reply EXCEPT !.to = r] : r \in others \cup {"us"}}
        /\ told' = [row |-> Public(Resolve(a, reply)), account |-> a, from |-> m.to, latest |-> m.mid,
                    reads |-> Range(reply.refs), known |-> DOMAIN ops]
  /\ UNCHANGED <<tables, sends, migrated, faults>>

\* the process starts again
Restart == migrated /\ migrated' = FALSE /\ UNCHANGED <<tables, sends, mails, told, replies, faults>>

\* the threads that reached us
Threads == {Append(m.refs, m.mid) : m \in {x \in mails : x.to = "us"}}

Next ==
  \/ Open \/ Restart
  \/ \E a \in Accounts :
       \/ \E shape \in Shapes : \E thread \in {<<>>} \cup Threads : Send(a, shape, thread)
       \/ \E m \in mails : Answer(a, m)
  \/ \E n \in 1..Len(sends) : Replay(n)

Spec == Init /\ [][Next]_vars

-----------------------------------------------------------------------------
(* What must hold.                                                         *)

TypeOK ==
  /\ DOMAIN ops \subseteq 1..Len(sends)
  /\ \A x \in deliveries \cup mappings : x.op \in DOMAIN ops /\ x.role \in Roles
  /\ \A d \in deliveries : migrated => ~Pseudo(d.id)

\* An answer is filed under an operation of its own account that it refers to, and a recipient
\* it is filed under had the message that was answered.
FiledWhereItBelongs ==
  told.row # None =>
    LET n == told.row.op IN
    /\ sends[n].account = told.account
    /\ \E r \in Went(n) : Mid(n, sends[n].shape, r) \in told.reads
    /\ told.row.to # "none" => told.row.to \in Went(n) /\ Mid(n, sends[n].shape, told.row.to) \in told.reads

\* Who answers a recorded message of ours directly is filed as himself under its operation,
\* whatever else of ours the thread holds, and a hidden recipient is not told to have been one.
DirectAnswerNamesItsSender ==
  \A n \in told.known :
    sends[n].account = told.account /\ told.from \in Went(n) /\ told.latest = Mid(n, sends[n].shape, told.from) =>
      /\ told.row.op = n /\ told.row.to = told.from
      /\ told.row.role # "bcc"

=============================================================================
