--------------------------- MODULE ContentIdentity ---------------------------
(***************************************************************************)
(* Which message a cached resource belongs to (privacy_cache_v969.py).  A  *)
(* resource is kept under a key made of the message's identity, which is   *)
(* derived from what the mailbox cache holds of the message at the place   *)
(* (mailbox and UID) it is looked at, and is bound to the place it was     *)
(* last seen at.  Messages are moved, mailboxes recreated, bodies cached   *)
(* after headers, and every start rewrites the keys.  The WebGUI's         *)
(* confirmed Full HTML, the MCP command and cache-only readings use it     *)
(* concurrently.  The synchronisation itself is MailboxCache, requests,    *)
(* decoys and stylesheets are PassiveContent.                              *)
(***************************************************************************)
EXTENDS Naturals, FiniteSets, Sequences, SequencesExt

CONSTANTS
  Callers, Messages, Mailboxes,
  NoMessage,
  Named,        \* by message, the URLs of its passive resources
  LegacyRows,   \* what a version before left: may contain [message, box, uid, url]
  Layout,       \* by mailbox, the messages in it at first
  MaxUid, MaxMoves, MaxCalls, MaxBoots   \* bounds

VARIABLES
  server,     \* by mailbox, by UID: the message, or none; UIDs in the order of arrival
  validity,   \* UIDVALIDITY, by mailbox
  held,       \* mailbox_cache_messages by place: whose header, and whose body if any
  known,      \* the UIDVALIDITY the cache knows, by mailbox
  rows,       \* mailbox_cache_remote_resources, by key: [place, url, ok]
  up,         \* keys have been rewritten since the start
  call,       \* each caller's progress
  shown,      \* what the last Full HTML showed
  kept,       \* history: <<message, url>> fetched, and neither dropped nor failed since
  promised,   \* history: the same, but for starts
  moves, calls, boots

vars == <<server, validity, held, known, rows, up, call, shown, kept, promised, moves, calls, boots>>
mailboxes == <<server, validity>>
local == <<held, known>>
history == <<kept, promised>>
counters == <<moves, calls, boots>>

-----------------------------------------------------------------------------
(* The identity of what is at a place.                                     *)

Places == Mailboxes \X (1..MaxUid)

IdentityAssumption ==
  /\ NoMessage \notin Messages
  /\ MaxUid \in Nat \ {0}
  /\ \A b \in Mailboxes : Layout[b] \in Seq(Messages)
  /\ IsFiniteSet(LegacyRows) /\ \A o \in LegacyRows : o.place \in Places

NotHeld == [header |-> NoMessage, body |-> NoMessage]
Whole(m) == [header |-> m, body |-> m]
Nowhere == <<NoMessage, 0, 0>>

ByPlace(p) == [by |-> "place", header |-> NoMessage, body |-> NoMessage, place |-> <<p[1], known[p[1]], p[2]>>]

\* a plausible slip: the mailbox is part of it
IdentityOfBody(p) ==
  IF held[p].body = NoMessage THEN ByPlace(p)
  ELSE [by |-> "bytes", header |-> NoMessage, body |-> held[p].body, place |-> <<p[1], 0, 0>>]

\* _stable_message_identity: Message-ID and bytes, or the header, or the place under the known UIDVALIDITY
Identity(p) ==
  IF held[p] = NotHeld THEN ByPlace(p)
  ELSE [by |-> IF held[p].body # NoMessage THEN "bytes" ELSE "header", header |-> held[p].header,
        body |-> held[p].body, place |-> Nowhere]

Key(p, u) == <<Identity(p), u>>
LegacyKey(p, u) == <<[by |-> "legacy", header |-> NoMessage, body |-> NoMessage, place |-> <<p[1], 0, p[2]>>], u>>

Good(k) == k \in DOMAIN rows /\ rows[k].ok
Only(ks) == [k \in ks |-> rows[k]]
Drop(ks) == rows' = Only(DOMAIN rows \ ks)

\* an upsert leaves the place of a row as it was
Put(k, p, ok) ==
  rows' = [l \in DOMAIN rows \cup {k} |->
             IF l # k THEN rows[l] ELSE IF k \in DOMAIN rows THEN [rows[k] EXCEPT !.ok = ok]
             ELSE [place |-> p, url |-> k[2], ok |-> ok]]

Forgets(gone) == kept' = kept \ gone /\ promised' = promised \ gone

\* what a row was fetched for, as the histories have it
For(ks) == {<<k[1].body, k[2]>> : k \in ks}

-----------------------------------------------------------------------------
(* External: the IMAP server.                                              *)

Free(box) == {n \in 1..MaxUid : \A m \in n..MaxUid : server[box][m] = NoMessage}
Moves == moves < MaxMoves /\ moves' = moves + 1 /\ UNCHANGED <<held, known, rows, up, call, shown, history, calls, boots>>

\* a message is moved, or copied, under a UID that was never used
Move(from, n, to, copy) ==
  /\ Moves /\ server[from][n] # NoMessage /\ from # to
  /\ \E i \in Free(to) :
       /\ \A j \in Free(to) : i <= j
       /\ server' = [server EXCEPT ![to][i] = server[from][n], ![from][n] = IF copy THEN @ ELSE NoMessage]
  /\ UNCHANGED validity

\* a mailbox is recreated: its messages come in another order, under the same UIDs
Recreate(box) ==
  /\ Moves
  /\ server' = [server EXCEPT ![box] = [i \in 1..MaxUid |-> server[box][(i % MaxUid) + 1]]]
  /\ validity' = [validity EXCEPT ![box] = @ + 1]

-----------------------------------------------------------------------------
(* The mailbox cache.                                                      *)

\* one pass over a mailbox: another UIDVALIDITY empties it, with the resources bound to it
Sync(box) ==
  /\ up
  /\ LET reset == known[box] # validity[box]
         bound == IF reset THEN {k \in DOMAIN rows : rows[k].place[1] = box} ELSE {}
     IN /\ held' = [p \in Places |->
                      CASE p[1] # box -> held[p]
                        [] server[box][p[2]] = NoMessage -> NotHeld
                        [] ~reset /\ held[p] # NotHeld -> held[p]
                        [] OTHER -> [header |-> server[box][p[2]], body |-> NoMessage]]
        /\ known' = [known EXCEPT ![box] = validity[box]]
        /\ Drop(bound) /\ Forgets(For(bound))
  /\ <<held', known'>> # local
  /\ UNCHANGED <<mailboxes, up, call, shown, counters>>

\* ensure_body: the record's own body, or that of whatever is at the place by now
EnsureBody(p, m) ==
  /\ held[p] # NotHeld /\ m # NoMessage
  /\ m = IF held[p].body # NoMessage THEN held[p].body ELSE server[p[1]][p[2]]
  /\ held' = [held EXCEPT ![p].body = m]

-----------------------------------------------------------------------------
(* Full HTML.                                                              *)

Idle == [at |-> "idle"]
Goes(c, next) == call' = [call EXCEPT ![c] = next]
Begins(c) == up /\ call[c] = Idle /\ calls < MaxCalls /\ calls' = calls + 1

\* fetch_message: the body, its inventory, then everything else by the place alone
FetchMessage(c, p, refresh) ==
  /\ Begins(c)
  /\ \E m \in Messages :
       /\ EnsureBody(p, m)
       /\ Goes(c, [at |-> "keys", of |-> m, place |-> p, refresh |-> refresh, whole |-> FALSE, keys |-> {}, work |-> {}])
  /\ UNCHANGED <<mailboxes, known, rows, up, shown, history, moves, boots>>

\* the WebGUI's confirmation, and again with "Refresh remote content" or the retry of a failure
ConfirmFullHtml(c, p) == \E refresh \in BOOLEAN : FetchMessage(c, p, refresh)

\* hits are bound to this place, misses are fetched
Keys(c) ==
  /\ call[c].at = "keys"
  /\ LET k == call[c]
         keys == {Key(k.place, u) : u \in Named[k.of]}
         hits == IF k.refresh THEN {} ELSE keys \cap DOMAIN rows
         gone == IF k.refresh THEN keys ELSE {}
     IN /\ rows' = [l \in DOMAIN rows \ gone |-> IF l \in hits THEN [rows[l] EXCEPT !.place = k.place] ELSE rows[l]]
        /\ Forgets(For(gone))
        /\ Goes(c, [k EXCEPT !.at = "fetch", !.keys = keys, !.work = keys \ hits, !.whole = held[k.place] = Whole(k.of)])
  /\ UNCHANGED <<mailboxes, local, up, shown, counters>>

\* a response or a failure is put under its key
Land(c, key) ==
  /\ call[c].at = "fetch" /\ key \in call[c].work
  /\ \E ok \in BOOLEAN :
       /\ Put(key, call[c].place, ok)
       /\ IF ~ok THEN Forgets(For({key}))
          ELSE IF call[c].whole
          THEN kept' = kept \cup {<<call[c].of, key[2]>>} /\ promised' = promised \cup {<<call[c].of, key[2]>>}
          ELSE UNCHANGED history
  /\ Goes(c, [call[c] EXCEPT !.work = @ \ {key}])
  /\ UNCHANGED <<mailboxes, local, up, shown, counters>>

\* _state of the rows there are, and of the candidates without one
State(keys) ==
  IF \A k \in keys : Good(k) THEN "success" ELSE IF \E k \in keys : Good(k) THEN "partial" ELSE "failure"

Counted(c) ==
  /\ call[c].at = "fetch" /\ call[c].work = {}
  /\ Goes(c, IF State(call[c].keys) = "failure" THEN Idle ELSE [call[c] EXCEPT !.at = "render"])
  /\ UNCHANGED <<mailboxes, local, rows, up, shown, history, counters>>

\* cache only: the body must be cached, hits are bound to this place, and what is missing counts as failed
RenderCached(c, p) ==
  LET m == held[p].body
      keys == IF m = NoMessage THEN {} ELSE {Key(p, u) : u \in Named[m]}
  IN /\ rows' = [l \in DOMAIN rows |-> IF l \in keys THEN [rows[l] EXCEPT !.place = p] ELSE rows[l]]
     /\ Goes(c, IF m = NoMessage \/ State(keys) = "failure" THEN Idle
                ELSE [at |-> "render", of |-> m, place |-> p, refresh |-> FALSE, whole |-> FALSE, keys |-> keys, work |-> {}])

\* fetch_email_remote_content with cache_only
ReadCached(c, p) ==
  /\ Begins(c)
  /\ RenderCached(c, p)
  /\ UNCHANGED <<mailboxes, local, up, shown, history, moves, boots>>

\* the page of a message: its body is cached; it shows the Full HTML it was asked for, or looks
\* whether all there is has failed, to offer the retry
OpenDetail(c, p) ==
  /\ Begins(c)
  /\ \E m \in Messages, at \in {"render", "detail"} :
       /\ EnsureBody(p, m)
       /\ Goes(c, [at |-> at, of |-> m, place |-> p, refresh |-> FALSE, whole |-> FALSE, keys |-> {}, work |-> {}])
  /\ UNCHANGED <<mailboxes, known, rows, up, shown, history, moves, boots>>

LookForRetry(c) ==
  /\ call[c].at = "detail"
  /\ RenderCached(c, call[c].place)
  /\ UNCHANGED <<mailboxes, local, up, shown, history, counters>>

\* the keys are made again: what can be shown of the message
ResourceMap(k) == {u \in Named[k.of] : Good(Key(k.place, u))}

\* an element is given the local address of its resource, or loses its address
Rewritten(k) == [of |-> k.of, local |-> ResourceMap(k), lost |-> Named[k.of] \ ResourceMap(k)]

Render(c) ==
  /\ call[c].at = "render"
  /\ shown' = Rewritten(call[c])
  /\ Goes(c, Idle)
  /\ UNCHANGED <<mailboxes, local, rows, up, history, counters>>

-----------------------------------------------------------------------------
(* A start.                                                                *)

\* the place a row is bound to gives it its key; one that has the key already stays
Rekey(table, old) ==
  LET new == Key(rows[old].place, rows[old].url)
  IN IF new \in DOMAIN table THEN [k \in DOMAIN table \ {old} |-> table[k]]
     ELSE [k \in (DOMAIN table \ {old}) \cup {new} |-> IF k = new THEN table[old] ELSE table[k]]

Loses(ks) == {<<k[1].body, k[2]>> : k \in {l \in ks : Key(rows[l].place, rows[l].url)[1] # l[1]}}

\* install_hashed_resource_keys
Boot ==
  /\ ~up /\ up' = TRUE
  /\ \E order \in SetToSeqs({k \in DOMAIN rows : Key(rows[k].place, rows[k].url) # k}) :
       rows' = FoldLeft(Rekey, rows, order)
  /\ kept' = kept \ Loses(DOMAIN rows)
  /\ UNCHANGED <<mailboxes, local, call, shown, promised, counters>>

Stop ==
  /\ up /\ boots < MaxBoots /\ boots' = boots + 1
  /\ up' = FALSE
  /\ call' = [c \in Callers |-> Idle]
  /\ UNCHANGED <<mailboxes, local, rows, shown, history, moves, calls>>

Init ==
  /\ server = [b \in Mailboxes |-> [n \in 1..MaxUid |-> IF n <= Len(Layout[b]) THEN Layout[b][n] ELSE NoMessage]]
  /\ validity = [b \in Mailboxes |-> 1] /\ known = [b \in Mailboxes |-> 1]
  /\ held = [p \in Places |-> NotHeld]
  /\ \E old \in SUBSET LegacyRows :
       rows = [k \in {LegacyKey(o.place, o.url) : o \in old} |->
                 CHOOSE r \in [place : Places, url : {k[2]}, ok : {TRUE}] : LegacyKey(r.place, r.url) = k]
  /\ up = FALSE /\ call = [c \in Callers |-> Idle]
  /\ shown = [of |-> NoMessage, local |-> {}, lost |-> {}] /\ kept = {} /\ promised = {}
  /\ moves = 0 /\ calls = 0 /\ boots = 0

Next ==
  \/ \E from, to \in Mailboxes, n \in 1..MaxUid, copy \in BOOLEAN : Move(from, n, to, copy)
  \/ \E box \in Mailboxes : Recreate(box) \/ Sync(box)
  \/ \E c \in Callers :
       \/ \E p \in Places : ConfirmFullHtml(c, p) \/ ReadCached(c, p) \/ OpenDetail(c, p)
       \/ Keys(c) \/ LookForRetry(c) \/ Counted(c) \/ Render(c)
       \/ \E key \in IF call[c] = Idle THEN {} ELSE call[c].work : Land(c, key)
  \/ Boot \/ Stop

Spec == Init /\ [][Next]_vars

-----------------------------------------------------------------------------
(* What must hold.                                                         *)

TypeOK ==
  /\ \A p \in Places : {held[p].header, held[p].body} \subseteq Messages \cup {NoMessage}
  /\ \A k \in DOMAIN rows : rows[k].place \in Places

\* "Account-scoped, move-stable": wherever a message is held with its body, in whatever mailbox
\* and under whatever UID, the resources fetched for it are found, unless they were refreshed,
\* their mailbox reset, or a start gave them another key.
KeptContentFollows ==
  \A p \in Places, m \in Messages : up /\ held[p] = Whole(m) =>
    \A u \in Named[m] : <<m, u>> \in kept => Good(Key(p, u))

\* "Existing rows are migrated when their cached message record can provide a stable
\* fingerprint": a start loses nothing that was fetched (privacy_cache_v969.py:123).
StartKeepsContent ==
  \A p \in Places, m \in Messages : up /\ held[p] = Whole(m) =>
    \A u \in Named[m] : <<m, u>> \in promised => Good(Key(p, u))

=============================================================================
