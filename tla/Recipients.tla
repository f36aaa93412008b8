----------------------------- MODULE Recipients -----------------------------
(***************************************************************************)
(* Who a message goes to: the authorisation policy for automated sends     *)
(* (mail_extensions.py), the recipients of a reply or a follow-up          *)
(* (thread_recipients.py), the manual sends of the WebGUI and the          *)
(* confirmation of suppressed recipients, both scoped to one call          *)
(* (mail_v960_unsubscribe.py), and the legs that ask the policy again      *)
(* before each of them (stored_file_delivery.py).  Calls run in threads    *)
(* beside each other, beside edits of the policy and beside the list of    *)
(* suppressions, which is asked once per leg, before throttle, retries and *)
(* SMTP (mail_v950.py).  Addresses are compared without case.  The ledger  *)
(* around a send is OutboundSafety, the attempts of a leg are              *)
(* OutboundDelivery.                                                       *)
(***************************************************************************)
EXTENDS Integers, FiniteSets, Sequences

CONSTANTS
  Callers,
  Addresses,
  Own,             \* sender_identity_addresses
  Domains,
  CoveredBy,       \* by address, the domains it lies in or under
  EnvDomains,      \* SEND_RECIPIENT_ALLOWLIST
  Legacies,        \* tables an earlier release may have left: [kind, exact, domains]
  Means,           \* by stored spelling, what it says: an address or a domain, or nothing
  Asks,            \* calls: [kind, thread, to, cc, bcc, confirm, manual, single]
  Loads            \* [callers, previous, asks, calls, edits]: who sends what, with or without
                   \* ALLOW_PREVIOUS_SENT_RECIPIENTS; bounds: sends and drafts, and edits of
                   \* the policy and of the suppressions

\* what is assumed of the constants; the module that instantiates them asserts it
RecipientsAssumption ==
  /\ EnvDomains \subseteq Domains
  /\ \A l \in Legacies :
       /\ l.kind \in {"none", "old", "odd"} /\ (l.kind = "none" => l.exact = {} /\ l.domains = {})
       /\ UNION {Means[r] : r \in l.exact} \subseteq Addresses
       /\ UNION {Means[r] : r \in l.domains} \subseteq Domains
  /\ Asks \subseteq
       [kind : {"send", "reply", "follow_up"},
        thread : [from : SUBSET Addresses, replyTo : SUBSET Addresses, to : SUBSET Addresses, cc : SUBSET Addresses],
        to : SUBSET Addresses, cc : SUBSET Addresses, bcc : SUBSET Addresses, confirm : SUBSET Addresses,
        manual : BOOLEAN, single : BOOLEAN]
  /\ Loads \subseteq [callers : SUBSET Callers, previous : BOOLEAN, asks : SUBSET Asks, calls : Nat, edits : Nat]

VARIABLES
  load,         \* the load of this behaviour
  legacy,       \* the rows of an earlier release; kind "none" once they are migrated
  seeded,       \* policy_meta: env_domains_seeded
  domains,      \* authorized_domains
  exact,        \* authorized_recipients
  history,      \* addresses in To, Cc and Bcc of the Sent folder
  drafts,       \* the Drafts folder: addressees of each
  suppressed,   \* active rows of recipient_suppressions
  call,         \* the call each caller is in
  last,         \* history: what the last transmission was about, by recipient
  calls, edits

vars == <<load, legacy, seeded, domains, exact, history, drafts, suppressed, call, last, calls, edits>>
schema == <<legacy, seeded>>
policy == <<load, schema, domains, exact, history>>
counters == <<calls, edits>>

Idle == [at |-> "idle"]

-----------------------------------------------------------------------------
(* The policy.                                                             *)

Previous(h) == IF load.previous THEN h ELSE {}

\* recipient_authorization_status: by domain, by exact address, by history
ListedBy(d, e, h) == {a \in Addresses : CoveredBy[a] \cap d # {} \/ a \in e \/ a \in Previous(h)}

\* _validate_recipients: a policy without entries and without history lets everyone pass
AllowedBy(d, e) == IF d = {} /\ e = {} /\ ~load.previous THEN Addresses ELSE ListedBy(d, e, {})

PolicyTables == {"exact", "domains"}
EmptyOf(d, e) == {t \in PolicyTables : (t = "exact" => e = {}) /\ (t = "domains" => d = {})}

\* what the rows say, migrated or not
Said(rows) == UNION {Means[r] : r \in rows}
Listed == ListedBy(domains \cup Said(legacy.domains), exact \cup Said(legacy.exact), history)
Empty == EmptyOf(domains \cup Said(legacy.domains), exact \cup Said(legacy.exact))

\* history of the calls under way: named by the policy, with an empty table, or not suppressed
\* at some moment
Heard(going, d, e, h) ==
  call' = [c \in Callers |-> IF going[c] = Idle THEN Idle ELSE
             [going[c] EXCEPT !.named = @ \cup ListedBy(d, e, h), !.bare = @ \cup EmptyOf(d, e)]]
PolicyIs(d, e) == domains' = d /\ exact' = e /\ Heard(call, d, e, history)

\* the Sent folder gets a message
Sent(h, going) ==
  /\ history' = h
  /\ Heard(going, domains \cup Said(legacy.domains), exact \cup Said(legacy.exact), h)

Migrated == [kind |-> "none", exact |-> {}, domains |-> {}]

\* _migrate_policy_schema, in one transaction that a crash rolls back: blank rows go, spellings
\* of one address become one row.  Tables without a recognisable column make it fail each time.
MigratePolicy ==
  /\ legacy.kind = "old"
  /\ legacy' = Migrated
  /\ exact' = Said(legacy.exact) /\ domains' = Said(legacy.domains)
  /\ UNCHANGED <<load, seeded, history, drafts, suppressed, call, last, calls, edits>>

\* the rest of _policy_connect: the domains of the environment, once
SeedDomains ==
  /\ legacy.kind = "none" /\ ~seeded
  /\ seeded' = TRUE
  /\ PolicyIs(domains \cup EnvDomains, exact)
  /\ UNCHANGED <<load, legacy, history, drafts, suppressed, last, calls, edits>>

\* every operation on the policy begins with the two
Opened == legacy.kind = "none" /\ seeded

Edits == edits < load.edits /\ edits' = edits + 1
Beside == Opened /\ UNCHANGED <<load, schema, history, drafts, suppressed, last, calls>>

AuthorizeDomain(d) == Edits /\ d \notin domains /\ PolicyIs(domains \cup {d}, exact) /\ Beside
RevokeDomain(d) == Edits /\ d \in domains /\ PolicyIs(domains \ {d}, exact) /\ Beside
AuthorizeRecipient(a) == Edits /\ a \notin exact /\ PolicyIs(domains, exact \cup {a}) /\ Beside
RevokeRecipient(a) == Edits /\ a \in exact /\ PolicyIs(domains, exact \ {a}) /\ Beside

\* bounces, unsubscriptions and people change the suppression list
Suppression(a) ==
  /\ Edits
  /\ suppressed' = IF a \in suppressed THEN suppressed \ {a} ELSE suppressed \cup {a}
  /\ call' = [c \in Callers |-> IF call[c] = Idle THEN Idle
                                 ELSE [call[c] EXCEPT !.free = @ \cup (Addresses \ suppressed')]]
  /\ UNCHANGED <<policy, drafts, last, calls>>

-----------------------------------------------------------------------------
(* The recipients of a call.                                               *)

Outbound(t) == t.from \cap Own # {}

\* reply goes to Reply-To or From, follow-up to the original To; both without oneself
ThreadTo(kind, t) ==
  (IF kind = "follow_up" THEN t.to ELSE IF t.replyTo # {} THEN t.replyTo ELSE t.from) \ Own

\* a plausible slip: oneself is only taken out of what the thread gives
ThreadCcKeepsOwn(kind, t, extra) ==
  (((IF kind = "follow_up" THEN t.cc ELSE {}) \ Own) \cup extra) \ ThreadTo(kind, t)

\* merge_thread_cc
ThreadCc(kind, t, extra) ==
  ((IF kind = "follow_up" THEN t.cc ELSE {}) \cup extra) \ (Own \cup ThreadTo(kind, t))

\* resolve_thread_recipients: the mode must fit the direction, and someone must be left
Resolvable(ask) ==
  \/ ask.kind = "send"
  \/ (Outbound(ask.thread) <=> ask.kind = "follow_up") /\ ThreadTo(ask.kind, ask.thread) # {}

To(ask) == IF ask.kind = "send" THEN ask.to ELSE ThreadTo(ask.kind, ask.thread)
Cc(ask) == IF ask.kind = "send" THEN ask.cc ELSE ThreadCc(ask.kind, ask.thread, ask.cc)
Everyone(ask) == To(ask) \cup Cc(ask) \cup ask.bcc

Goes(c, r) == call' = [call EXCEPT ![c] = r]
Starts(c) == call[c] = Idle /\ calls < load.calls /\ calls' = calls + 1

Init ==
  /\ load \in Loads /\ legacy \in Legacies /\ seeded = FALSE
  /\ domains = {} /\ exact = {} /\ history = {} /\ drafts = {} /\ suppressed = {}
  /\ call = [c \in Callers |-> Idle]
  /\ last = {} /\ calls = 0 /\ edits = 0

-----------------------------------------------------------------------------
(* A send.                                                                 *)

\* n: the recipients being checked; seen: what was read for them; now: who is written to next;
\* left: legs to come; went: whether one was taken
Begun(ask) ==
  [at |-> "exact", ask |-> ask, n |-> 1, seen |-> {}, now |-> {}, left |-> {}, went |-> FALSE,
   named |-> Listed, bare |-> Empty, free |-> Addresses \ suppressed]

\* suppressed recipients are asked for before the ledger reserves the operation
Preflight(c, ask) ==
  /\ Starts(c)
  /\ Goes(c, IF Everyone(ask) \cap suppressed \subseteq ask.confirm THEN Begun(ask) ELSE Idle)
  /\ UNCHANGED <<policy, drafts, suppressed, last, edits>>

SendEmail(c, ask) == ask.kind = "send" /\ Preflight(c, ask)

\* reply_email, follow_up_email
SendThreaded(c, ask) == ask.kind # "send" /\ Resolvable(ask) /\ Preflight(c, ask)

\* a plausible slip: hidden recipients are not asked for
CheckedVisible(k) == <<To(k.ask), Cc(k.ask)>>

\* To, Cc and Bcc are validated one after the other; the message of a leg and its copy for Sent
\* ask for To and Cc again
Checked(k) ==
  IF k.now = {} THEN <<To(k.ask), Cc(k.ask), k.ask.bcc>>
  ELSE <<To(k.ask), Cc(k.ask), To(k.ask), Cc(k.ask)>>

Validated(k) ==
  IF k.now # {} THEN [k EXCEPT !.at = "transport"]
  ELSE IF k.ask.single THEN [k EXCEPT !.at = "leg", !.left = Everyone(k.ask)]
  ELSE [k EXCEPT !.at = "transport", !.now = Everyone(k.ask)]

\* the call fails, or the leg does
Refused(k) == IF k.now = {} THEN Idle ELSE [k EXCEPT !.at = "leg", !.n = 1, !.seen = {}, !.now = {}]

CallGoes(c, k) == Goes(c, k) /\ UNCHANGED <<policy, drafts, suppressed, last, counters>>

\* a manual send does not consult the policy, and one that cannot be migrated fails whoever does
ReadExact(c) ==
  /\ call[c].at = "exact"
  /\ LET k == call[c] IN
     \/ k.ask.manual /\ CallGoes(c, Validated(k))
     \/ ~k.ask.manual /\ legacy.kind = "odd" /\ CallGoes(c, Refused(k))
     \/ ~k.ask.manual /\ Opened /\ CallGoes(c, [k EXCEPT !.at = "domains", !.seen = exact])

\* read with a connection of its own
ReadDomains(c) ==
  /\ call[c].at = "domains"
  /\ CallGoes(c, [call[c] EXCEPT !.at = "history", !.seen = AllowedBy(domains, @)])

\* then the Sent folder, which may fail to answer
Consult(c) ==
  /\ call[c].at = "history"
  /\ LET k == call[c] IN
     \E h \in {history, {}} :
       CallGoes(c, IF ~(Checked(k)[k.n] \subseteq k.seen \cup Previous(h)) THEN Refused(k)
                   ELSE IF k.n < Len(Checked(k)) THEN [k EXCEPT !.at = "exact", !.n = @ + 1, !.seen = {}]
                   ELSE Validated([k EXCEPT !.n = 1, !.seen = {}]))

\* one recipient of an individualised send, while there is one: its message is built
Leg(c) ==
  /\ call[c].at = "leg"
  /\ \E r \in call[c].left :
       CallGoes(c, [call[c] EXCEPT !.at = "exact", !.now = {r}, !.left = @ \ {r},
                                   !.free = Addresses \ suppressed])

LegsEnd(c) ==
  /\ call[c].at = "leg" /\ call[c].left = {}
  /\ CallGoes(c, IF call[c].went THEN [call[c] EXCEPT !.at = "archive"] ELSE Idle)

\* a plausible slip: suppressions are only looked at before the call
TransportableOncePreflighted(k) == TRUE

\* blocked_recipients, with the confirmations of this call
Transportable(k) == k.now \cap suppressed \subseteq k.ask.confirm

\* what comes after a transmission, or in place of one
Onward(k, went) ==
  IF k.ask.single THEN [k EXCEPT !.at = "leg", !.now = {}, !.went = @ \/ went]
  ELSE IF went THEN [k EXCEPT !.at = "archive"] ELSE Idle

\* the list is asked once; from here the throttle and the retries wait
AskSuppressed(c) ==
  /\ call[c].at = "transport"
  /\ CallGoes(c, IF Transportable(call[c]) THEN [call[c] EXCEPT !.at = "deliver"]
                 ELSE Onward(call[c], FALSE))

About(k, r) ==
  [to |-> r, ask |-> k.ask, named |-> r \in k.named, bare |-> k.bare = PolicyTables /\ ~load.previous,
   free |-> r \in k.free \cup k.ask.confirm]

\* some attempt is taken, or none is (OutboundDelivery)
Deliver(c) ==
  /\ call[c].at = "deliver"
  /\ \/ Goes(c, Onward(call[c], FALSE)) /\ UNCHANGED last
     \/ Goes(c, Onward(call[c], TRUE)) /\ last' = {About(call[c], r) : r \in call[c].now}
  /\ UNCHANGED <<policy, drafts, suppressed, counters>>

\* one copy goes to Sent, or fails to; it shows To and Cc
Archive(c) ==
  /\ call[c].at = "archive"
  /\ \E h \in {history, history \cup To(call[c].ask) \cup Cc(call[c].ask)} :
       Sent(h, [call EXCEPT ![c] = Idle])
  /\ UNCHANGED <<load, schema, domains, exact, drafts, suppressed, last, counters>>

-----------------------------------------------------------------------------
(* Drafts.                                                                 *)

\* anyone may stand on a draft, and it carries its Bcc
SaveDraft(ask) ==
  /\ drafts' = drafts \cup {Everyone(ask)}
  /\ UNCHANGED <<policy, suppressed, call, last, edits>>

CreateDraft(c, ask) == Starts(c) /\ ask.kind = "send" /\ SaveDraft(ask)

CreateThreadDraft(c, ask) == Starts(c) /\ ask.kind # "send" /\ Resolvable(ask) /\ SaveDraft(ask)

\* external: its author sends it with another client
SentByHand(d) ==
  /\ drafts' = drafts \ {d}
  /\ Sent(history \cup d, call)
  /\ UNCHANGED <<load, schema, domains, exact, suppressed, last, counters>>

Next ==
  \/ \E c \in load.callers :
       \/ \E ask \in load.asks : SendEmail(c, ask) \/ SendThreaded(c, ask) \/ CreateDraft(c, ask) \/ CreateThreadDraft(c, ask)
       \/ ReadExact(c) \/ ReadDomains(c) \/ Consult(c)
       \/ Leg(c) \/ LegsEnd(c) \/ AskSuppressed(c) \/ Deliver(c) \/ Archive(c)
  \/ MigratePolicy \/ SeedDomains
  \/ \E d \in Domains : AuthorizeDomain(d) \/ RevokeDomain(d)
  \/ \E a \in Addresses : AuthorizeRecipient(a) \/ RevokeRecipient(a) \/ Suppression(a)
  \/ \E d \in drafts : SentByHand(d)

Spec == Init /\ [][Next]_vars

-----------------------------------------------------------------------------
(* What must hold.                                                         *)

TypeOK ==
  /\ load \in Loads /\ legacy \in Legacies \cup {Migrated} /\ seeded \in BOOLEAN
  /\ domains \subseteq Domains /\ exact \cup history \cup suppressed \subseteq Addresses
  /\ \A c \in Callers :
       call[c].at \in {"idle", "exact", "domains", "history", "leg", "transport", "deliver", "archive"}

\* Nobody is reached by an automated send whom the policy named at no moment of the call, unless
\* each of its tables was empty at a moment of the call; and nobody who was suppressed, and not
\* confirmed, from the beginning of the call, or of its leg of an individualised send, to the
\* transmission.  Other calls, edits of the policy and of the list go on all the while, and the
\* policy of an earlier release is migrated.
NoneBehindThePolicy == \A r \in last : (r.ask.manual \/ r.named \/ r.bare) /\ r.free

\* A reply or follow-up reaches who stands visibly on the message or was named by the caller,
\* and oneself only as a Bcc one asked for.
StaysInThread ==
  \A r \in last : r.ask.kind # "send" =>
    LET t == r.ask.thread IN
    /\ r.to \in t.from \cup t.replyTo \cup t.to \cup t.cc \cup r.ask.cc \cup r.ask.bcc
    /\ r.to \in Own => r.to \in r.ask.bcc

\* recipient_authorization_status tells whom an automated send may reach (server.py:334).
StatusIsKept == \A r \in last : r.ask.manual \/ r.named

=============================================================================
