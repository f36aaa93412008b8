---------------------------- MODULE MailboxCache ----------------------------
(***************************************************************************)
(* The inbox read model of mailbox_cache_v963.py for one mailbox: the      *)
(* cached rows and the state row of MailboxCacheStore, the coalesced       *)
(* network pass of MailboxCacheSynchronizer, and the body fetches that run *)
(* beside it.                                                              *)
(*                                                                         *)
(* The IMAP server is external: `mailbox` gives its UIDVALIDITY, the UIDs  *)
(* it holds and those that are \Seen.  A message is identified by the      *)
(* UIDVALIDITY and the UID it was seen under, so the header and the body   *)
(* of a row are told apart by the validity they were fetched in; 0 is a    *)
(* value never fetched (None).  A session that has the mailbox selected    *)
(* when it is recreated is closed by the server.                           *)
(***************************************************************************)
EXTENDS Naturals, FiniteSets

CONSTANTS
  Uids,          \* the UIDs a message may have
  Callers,       \* who asks for a pass: the five-minute service, the WebGUI
  MaxValidity,   \* bound: how often the mailbox is recreated, plus one
  MaxPasses      \* bound: network passes

VARIABLES
  mailbox,   \* external: [validity, live, seen, used]
  rows,      \* mailbox_cache_messages by UID: [of, seen, body]
  known,     \* mailbox_cache_state.uidvalidity, 0 for None
  pass,      \* the leader's progress, or Idle
  waiting,   \* callers that found an in-flight pass and wait on its event
  answers,   \* what a caller got: "none", "ok", "error", "empty"
  fetch,     \* body fetches by UID: 0 none, else the validity the raw bytes are of
  asked,     \* body fetches begun and not answered
  unnoticed, \* history: rows that were of another validity when STATUS told one and none was known
  passes

vars == <<mailbox, rows, known, pass, waiting, answers, fetch, asked, unnoticed, passes>>

-----------------------------------------------------------------------------

CacheAssumption == MaxValidity \in Nat \ {0}

Idle == [at |-> "idle"]
Server == [validity : 1..MaxValidity, live : SUBSET Uids, seen : SUBSET Uids, used : SUBSET Uids]
Row == [of : 1..MaxValidity, seen : BOOLEAN, body : 0..MaxValidity]
NoRows == [u \in {} |-> 0]
Cached == DOMAIN rows

Init ==
  /\ mailbox = [validity |-> 1, live |-> {}, seen |-> {}, used |-> {}]
  /\ rows = NoRows /\ known = 0
  /\ pass = Idle /\ waiting = {} /\ answers = [c \in Callers |-> "none"]
  /\ fetch = [u \in Uids |-> 0] /\ asked = {} /\ unnoticed = {}
  /\ passes = 0

\* the rows that stay when only the UIDs in us are kept
Kept(us) == [u \in Cached \cap us |-> rows[u]]

-----------------------------------------------------------------------------
(* The server.                                                             *)

\* a change on the server taints what the running pass has read so far
Touched == pass' = IF pass = Idle THEN Idle ELSE [pass EXCEPT !.clean = FALSE]

Arrive(u) ==
  /\ u \notin mailbox.used
  /\ mailbox' = [mailbox EXCEPT !.live = @ \cup {u}, !.used = @ \cup {u}]
  /\ Touched

Expunge(u) ==
  /\ u \in mailbox.live
  /\ mailbox' = [mailbox EXCEPT !.live = @ \ {u}, !.seen = @ \ {u}]
  /\ Touched

ToggleSeen(u) ==
  /\ u \in mailbox.live
  /\ mailbox' = [mailbox EXCEPT !.seen = IF u \in @ THEN @ \ {u} ELSE @ \cup {u}]
  /\ Touched

\* the mailbox is deleted and created anew with us in it: the same UIDs, other messages
Recreate(us) ==
  /\ mailbox.validity < MaxValidity
  /\ mailbox' = [validity |-> mailbox.validity + 1, live |-> us, seen |-> {}, used |-> us]
  /\ Touched

ServerActs ==
  /\ \/ \E u \in Uids : Arrive(u) \/ Expunge(u) \/ ToggleSeen(u)
     \/ \E us \in SUBSET Uids : Recreate(us)
  /\ UNCHANGED <<rows, known, waiting, answers, fetch, asked, unnoticed, passes>>

-----------------------------------------------------------------------------
(* sync_mailbox: one leader per mailbox, the others wait for its event.    *)

Unchanged == UNCHANGED <<mailbox, fetch, asked, passes>>

\* the session the pass selected the mailbox in is still open
Open == pass.in = mailbox.validity

Lead(c) ==
  /\ pass = Idle /\ c \notin waiting /\ passes < MaxPasses
  /\ pass' = [at |-> "status", by |-> c, told |-> 0, in |-> 0, live |-> {}, new |-> {},
              clean |-> TRUE]
  /\ answers' = [answers EXCEPT ![c] = "none"]
  /\ passes' = passes + 1
  /\ UNCHANGED <<mailbox, rows, known, waiting, fetch, asked, unnoticed>>

Follow(c) ==
  /\ pass # Idle /\ c # pass.by /\ c \notin waiting
  /\ waiting' = waiting \cup {c}
  /\ answers' = [answers EXCEPT ![c] = "none"]
  /\ UNCHANGED <<rows, known, pass, unnoticed>> /\ Unchanged

\* the event was not set within 60 seconds: the follower goes on with an empty result
FollowerTimesOut(c) ==
  /\ c \in waiting
  /\ waiting' = waiting \ {c}
  /\ answers' = [answers EXCEPT ![c] = "empty"]
  /\ UNCHANGED <<rows, known, pass, unnoticed>> /\ Unchanged

\* finally: the key is dropped and every follower gets the leader's result or error
Release(outcome) ==
  /\ pass' = Idle
  /\ waiting' = {}
  /\ answers' = [c \in Callers |-> IF c \in waiting \cup {pass.by} THEN outcome ELSE answers[c]]

\* a plausible slip: the validity is recorded, the rows stay
ValidityWithoutReset ==
  /\ pass.at = "status"
  /\ pass' = [pass EXCEPT !.at = "select", !.told = mailbox.validity]
  /\ UNCHANGED <<rows, known, waiting, answers, unnoticed>> /\ Unchanged

\* STATUS, which may fail and tell nothing; when both validities are known and differ,
\* reset_mailbox drops every row
Validity ==
  /\ pass.at = "status"
  /\ \E told \in {mailbox.validity, 0} :
       LET reset == known # 0 /\ told # 0 /\ known # told
           blind == known = 0 /\ told # 0
       IN /\ pass' = [pass EXCEPT !.at = "select", !.told = told,
                                  !.clean = @ /\ told # 0]
          /\ rows' = IF reset THEN NoRows ELSE rows
          /\ known' = IF reset THEN told ELSE known
          /\ unnoticed' = CASE reset -> {}
                            [] blind -> unnoticed \cup {u \in Cached : rows[u].of # told}
                            [] OTHER -> unnoticed
  /\ UNCHANGED <<waiting, answers>> /\ Unchanged

\* SELECT and SEARCH ALL; a failed SEARCH counts as an empty mailbox.  The rows of UIDs that
\* are gone are deleted before any header is fetched.
Search ==
  /\ pass.at = "select"
  /\ \E live \in {mailbox.live, {}} :
       /\ pass' = [pass EXCEPT !.at = "headers", !.in = mailbox.validity, !.live = live,
                               !.new = live \ Cached, !.clean = @ /\ live = mailbox.live]
       /\ rows' = Kept(live) /\ unnoticed' = unnoticed \cap live
  /\ UNCHANGED <<known, waiting, answers>> /\ Unchanged

\* one FETCH of a header and its flags; a message that cannot be read is skipped
Header(u) ==
  /\ pass.at = "headers" /\ Open
  /\ u \in pass.new /\ \A v \in pass.new : u <= v
  /\ \/ /\ u \in mailbox.live
        /\ rows' = [v \in Cached \cup {u} |->
             IF v # u THEN rows[v]
             ELSE [of |-> mailbox.validity, seen |-> u \in mailbox.seen,
                   body |-> IF u \in Cached THEN rows[u].body ELSE 0]]
        /\ pass' = [pass EXCEPT !.new = @ \ {u}]
     \/ /\ pass' = [pass EXCEPT !.new = @ \ {u}, !.clean = FALSE]
        /\ UNCHANGED rows
  /\ UNCHANGED <<known, waiting, answers, unnoticed>> /\ Unchanged

\* FETCH 1:* FLAGS, update_flags on the rows there are, and finish_sync, which writes the
\* validity STATUS told, None included
Finish ==
  /\ pass.at = "headers" /\ pass.new = {} /\ Open
  /\ \E heard \in BOOLEAN :
       /\ rows' = [u \in Cached |->
            IF heard /\ pass.live # {} /\ u \in mailbox.live
            THEN [rows[u] EXCEPT !.seen = u \in mailbox.seen] ELSE rows[u]]
       /\ pass' = [pass EXCEPT !.at = "done", !.clean = @ /\ heard]
  /\ known' = pass.told
  /\ UNCHANGED <<waiting, answers, unnoticed>> /\ Unchanged

Return ==
  /\ pass.at = "done"
  /\ Release("ok")
  /\ UNCHANGED <<rows, known, unnoticed>> /\ Unchanged

\* the connection is lost: mark_sync_error writes the state row back as it was
Fail ==
  /\ pass.at \in {"status", "select", "headers"}
  /\ Release("error")
  /\ UNCHANGED <<rows, known, unnoticed>> /\ Unchanged

-----------------------------------------------------------------------------
(* ensure_body: under a key of its own, beside a running pass.             *)

\* a body that is cached is answered from the cache; otherwise SELECT and FETCH
FetchBody(u) ==
  /\ u \in Cached /\ rows[u].body = 0
  /\ u \notin asked /\ u \in mailbox.live
  /\ asked' = asked \cup {u}
  /\ fetch' = [fetch EXCEPT ![u] = mailbox.validity]
  /\ UNCHANGED <<mailbox, rows, known, pass, waiting, answers, unnoticed, passes>>

\* store_body: UPDATE ... WHERE uid, or an error when the row has gone
StoreBody(u) ==
  /\ u \in asked
  /\ rows' = IF u \in Cached THEN [rows EXCEPT ![u].body = fetch[u]] ELSE rows
  /\ asked' = asked \ {u}
  /\ fetch' = [fetch EXCEPT ![u] = 0]
  /\ UNCHANGED <<mailbox, known, pass, waiting, answers, unnoticed, passes>>

-----------------------------------------------------------------------------

SyncMailbox == Validity \/ Search \/ (\E u \in Uids : Header(u)) \/ Finish \/ Return \/ Fail
EnsureBody(u) == FetchBody(u) \/ StoreBody(u)
Request(c) == Lead(c) \/ Follow(c) \/ FollowerTimesOut(c)

Next ==
  \/ ServerActs
  \/ SyncMailbox
  \/ \E c \in Callers : Request(c)
  \/ \E u \in Uids : EnsureBody(u)

Spec == Init /\ [][Next]_vars

-----------------------------------------------------------------------------
(* What must hold.                                                         *)

TypeOK ==
  /\ mailbox \in Server
  /\ Cached \subseteq Uids /\ \A u \in Cached : rows[u] \in Row
  /\ known \in 0..MaxValidity
  /\ waiting \subseteq Callers /\ unnoticed \subseteq Uids
  /\ fetch \in [Uids -> 0..MaxValidity] /\ asked = {u \in Uids : fetch[u] # 0}

\* "IMAP remains authoritative" (the class comment of MailboxCacheStore): a pass during which
\* the server did not change and answered every command leaves the cache with the server's
\* messages and their flags, whatever earlier passes, resets and failures left, and with their
\* headers too, those aside that STATUS could not be compared for: where the passes before all
\* failed, or a failed STATUS left None as the validity, a recreated mailbox goes unnoticed, and
\* the headers of its predecessor stay under the UIDs that both have.
MirrorsAfterQuietPass ==
  pass.at = "done" /\ pass.clean =>
    /\ Cached = mailbox.live
    /\ \A u \in Cached : rows[u].seen = (u \in mailbox.seen)
    /\ \A u \in Cached \ unnoticed : rows[u].of = mailbox.validity

=============================================================================
