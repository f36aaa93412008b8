----------------------------- MODULE FileLinks -----------------------------
(***************************************************************************)
(* Links to stored files and pages: capabilities and tracked links of mail *)
(* (stored_file_public_v972.py over link_tracking.py), generic links made  *)
(* through MCP (generic_tracking_v982.py, _v983.py), the public request    *)
(* that follows one, and the way an outgoing message loses old tracking    *)
(* and gets new.                                                           *)
(*                                                                         *)
(* A stored file is deleted and saved again under its id; what is stored   *)
(* from one save to the next delete is an incarnation, known by digest and *)
(* creation time.  A link's token is its number, unknown to nobody here.   *)
(* No code revokes or ends a capability, so none is inactive.  A message   *)
(* has one anchor.  Clicks are recorded in TrackingTelemetry.              *)
(***************************************************************************)
EXTENDS Integers, Sequences

CONSTANTS
  Files,       \* file ids, numbered
  Contents, NoContent,
  Pages,       \* web pages, numbered
  Labels,
  Keys,        \* <<owner, project, idempotency_key>>, perhaps NoKey
  NoKey,
  Callers,     \* threads
  Historic,    \* tracking_links of earlier releases
  MaxChain,    \* _MAX_TRACKING_CHAIN_DEPTH
  MaxNow,      \* bound: instants
  MaxCaps, MaxLinks, MaxGeneric,   \* bounds: new rows of each table
  Mixes        \* bound: the kinds of request, of "create", "follow" and "compose", that meet

\* what is assumed of the constants; the module that instantiates them asserts it
LinksAssumption ==
  /\ MaxChain \in Nat \ {0} /\ NoContent \notin Contents
  /\ Historic \in Seq([to : [kind : {"mail"}, n : 1..Len(Historic)]
                           \cup [kind : {"page"}, n : Pages] \cup [kind : {"file"}, n : Files],
                      cap : {0}, made : Nat])

VARIABLES
  mix,       \* the kinds of request of this behaviour
  file,      \* stored_files: the incarnation stored under each id
  now,       \* the clock; each save has its own instant
  caps,      \* stored_file_capabilities, and the signed URLs of earlier releases
  links,     \* tracking_links
  generic,   \* generic_tracking_links
  call,      \* what each thread is doing
  served,    \* history: what was sent last to whoever followed a link
  told,      \* history: the answers under a key of create_tracked_link and _file_link
  refused    \* history: the anchor for which a message was refused last

vars == <<mix, file, now, caps, links, generic, call, served, told, refused>>
tables == <<caps, links, generic>>
history == <<served, told, refused>>

-----------------------------------------------------------------------------

Gone == [content |-> NoContent, born |-> 0]
Idle == [at |-> "idle"]
Url(kind, n) == [kind |-> kind, n |-> n]
Of(f) == [file |-> f, content |-> file[f].content, born |-> file[f].born]
Nothing == [file |-> 0, content |-> NoContent, born |-> 0]

\* get_info and _same_incarnation
Matches(w) == file[w.file] # Gone /\ Of(w.file) = [file |-> w.file, content |-> w.content, born |-> w.born]

\* a capability is durable: DURABLE_DOWNLOAD_EXPIRY is 0
Cap(form, f) == [form |-> form, file |-> f, content |-> file[f].content, born |-> file[f].born, until |-> 0]
Link(to, cap) == [to |-> to, cap |-> cap, made |-> now]
PageLink(to) == Link(to, 0)
FileLink(to) == Link(to, Len(caps) + 1)

Goes(c, to) == call' = [call EXCEPT ![c] = to]

Init ==
  /\ mix \in Mixes
  /\ file = [f \in Files |-> Gone] /\ now = 0
  /\ caps = <<>> /\ links = Historic /\ generic = <<>>
  /\ call = [c \in Callers |-> Idle]
  /\ served = {} /\ told = {} /\ refused = {}

-----------------------------------------------------------------------------
(* The file store.                                                         *)

Save(f, x) ==
  /\ file[f] = Gone /\ now < MaxNow
  /\ now' = now + 1
  /\ file' = [file EXCEPT ![f] = [content |-> x, born |-> now + 1]]
  /\ UNCHANGED <<mix, tables, call, history>>

Delete(f) ==
  /\ file[f] # Gone
  /\ file' = [file EXCEPT ![f] = Gone]
  /\ UNCHANGED <<mix, now, tables, call, history>>

Share(f, form) ==
  /\ file[f] # Gone /\ Len(caps) < MaxCaps
  /\ caps' = Append(caps, Cap(form, f))
  /\ UNCHANGED <<mix, file, now, links, generic, call, history>>

\* build_public_stored_file_url
SharePublic(f) == Share(f, "public")

\* build_signed_file_url, in an earlier release
ShareSigned(f) == Share(f, "signed")

\* the same with expires, in a release before that
ShareExpiring(f) ==
  /\ file[f] # Gone /\ Len(caps) < MaxCaps
  /\ \E t \in now + 1..MaxNow + 1 : caps' = Append(caps, [Cap("signed", f) EXCEPT !.until = t])
  /\ UNCHANGED <<mix, file, now, links, generic, call, history>>

\* time passes
Tick ==
  /\ now < MaxNow
  /\ now' = now + 1
  /\ UNCHANGED <<mix, file, tables, call, history>>

-----------------------------------------------------------------------------
(* Generic links.                                                          *)

\* the row a request asks for; a file is bound to the incarnation read first
Wanted(target, n, label, key) ==
  [target |-> target, n |-> n, label |-> label, key |-> key, active |-> TRUE,
   content |-> IF target = "file" THEN file[n].content ELSE NoContent,
   born |-> IF target = "file" THEN file[n].born ELSE 0]

Intent(r) == [r EXCEPT !.active = TRUE]
Held(key) == {n \in DOMAIN generic : key # NoKey /\ generic[n].key = key}
Answer(r, n) ==
  told' = IF r.key = NoKey THEN told ELSE told \cup {[intent |-> Intent(r), link |-> n]}

\* an existing row answers the same intent, and refuses another
Replay(c, r) ==
  /\ Goes(c, Idle)
  /\ \E n \in Held(r.key) : IF Intent(generic[n]) = r THEN Answer(r, n) ELSE UNCHANGED told
  /\ UNCHANGED generic

Create(c, target, n, label, key) ==
  /\ call[c] = Idle
  /\ target = "file" => file[n] # Gone
  /\ LET r == Wanted(target, n, label, key)
     IN IF Held(key) # {} THEN Replay(c, r)
        ELSE Goes(c, [at |-> "insert", row |-> r]) /\ UNCHANGED <<generic, told>>
  /\ UNCHANGED <<mix, file, now, caps, links, served, refused>>

\* a plausible slip: no unique index over owner, project and key
InsertAnyway(c) ==
  /\ call[c].at = "insert" /\ Len(generic) < MaxGeneric
  /\ generic' = Append(generic, call[c].row) /\ Answer(call[c].row, Len(generic) + 1)
  /\ Goes(c, Idle)
  /\ UNCHANGED <<mix, file, now, caps, links, served, refused>>

\* the unique index makes the second of two inserts look again
Insert(c) ==
  /\ call[c].at = "insert" /\ Len(generic) < MaxGeneric
  /\ LET r == call[c].row
     IN IF Held(r.key) # {} THEN Replay(c, r)
        ELSE /\ generic' = Append(generic, r) /\ Answer(r, Len(generic) + 1)
             /\ Goes(c, Idle)
  /\ UNCHANGED <<mix, file, now, caps, links, served, refused>>

Revoke(n) ==
  /\ generic[n].active
  /\ generic' = [generic EXCEPT ![n].active = FALSE]
  /\ UNCHANGED <<mix, file, now, caps, links, call, history>>

-----------------------------------------------------------------------------
(* A public request: /t/c/<token>, or /files/<id> with a signature.  A link *)
(* to a page redirects and leaves nothing behind but its click.            *)

Request(u, w, check, made) ==
  [at |-> "resolve", url |-> u, want |-> w, check |-> check, made |-> made, since |-> 0]

\* stored_file_http_response: the signature is checked against the file, which is then read anew
SignedRequest(u) == Request(u, caps[u.n], "signature", 0)

AsksFor(u) ==
  CASE u.kind = "public" -> Request(u, caps[u.n], "exact", 0)
    [] u.kind = "signed" -> SignedRequest(u)
    [] u.kind = "generic" -> Request(u, [file |-> generic[u.n].n, content |-> generic[u.n].content,
                                         born |-> generic[u.n].born], "exact", 0)
    [] u.kind = "mail" /\ links[u.n].cap # 0 -> Request(u, caps[links[u.n].cap], "exact", 0)
    [] OTHER -> Request(u, [Nothing EXCEPT !.file = links[u.n].to.n], "date", links[u.n].made)

\* the URLs that lead to a file; a revoked generic link is not found
LeadsToFile(u) ==
  \/ u.kind \in {"public", "signed"} /\ u.n \in DOMAIN caps /\ caps[u.n].form = u.kind
  \/ u.kind = "generic" /\ u.n \in DOMAIN generic /\ generic[u.n].active /\ generic[u.n].target = "file"
  \/ u.kind = "mail" /\ u.n \in DOMAIN links /\ links[u.n].to.kind \in {"file", "signed"}

Follow(c, u) ==
  /\ call[c] = Idle /\ LeadsToFile(u)
  /\ Goes(c, IF u.kind = "mail" /\ links[u.n].to.kind = "signed"
             THEN [AsksFor(links[u.n].to) EXCEPT !.url = u] ELSE AsksFor(u))
  /\ UNCHANGED <<mix, file, now, tables, history>>

\* _validate_signed_request: the signature of a URL that expires binds the id and the expiry alone
SignatureHolds(w) == IF w.until = 0 THEN Matches(w) ELSE w.until > now

\* _legacy_incarnation_matches: the file is no younger than the link
NoYounger(f, made) == file[f] # Gone /\ file[f].born <= made

\* resolve_file_target
TargetHolds(w) == Matches(w)

Resolve(c) ==
  /\ call[c].at = "resolve"
  /\ LET q == call[c]
         ok == CASE q.check = "date" -> NoYounger(q.want.file, q.made)
                 [] q.check = "signature" -> SignatureHolds(q.want)
                 [] OTHER -> TargetHolds(q.want)
     IN Goes(c, IF ok THEN [q EXCEPT !.at = "read", !.since = now] ELSE Idle)
  /\ UNCHANGED <<mix, file, now, tables, history>>

\* a plausible slip: what was resolved is not compared with what is read
NotRechecked(q) == TRUE

\* _terminal_file_response reads the file again; only an exact capability is compared again
Rechecked(q) == q.check = "exact" => Matches(q.want)

Read(c) ==
  /\ call[c].at = "read"
  /\ LET q == call[c]
         f == q.want.file
     IN served' = IF file[f] # Gone /\ Rechecked(q) THEN {[by |-> q, got |-> Of(f)]} ELSE served
  /\ Goes(c, Idle)
  /\ UNCHANGED <<mix, file, now, tables, told, refused>>

-----------------------------------------------------------------------------
(* An outgoing message.                                                    *)

Refused == Url("refused", 0)
Tracked(u) == u.kind \in {"mail", "generic"}

\* one round of _resolve_prior_tracking_url: a public link leads to its file, a link of mail to its
\* target; a token that tracking_links does not hold is refused, and so is a file that is gone
Resolved(u) ==
  CASE u.kind = "public" -> IF Matches(caps[u.n]) THEN Url("file", caps[u.n].file) ELSE Refused
    [] u.kind = "generic" -> Refused
    [] u.kind = "mail" /\ links[u.n].to.kind # "file" -> links[u.n].to
    [] u.kind = "mail" /\ links[u.n].to.kind = "file" /\ links[u.n].cap # 0 ->
         IF Matches(caps[links[u.n].cap]) THEN links[u.n].to ELSE Refused
    [] u.kind = "mail" /\ links[u.n].to.kind = "file" /\ links[u.n].cap = 0 ->
         IF NoYounger(links[u.n].to.n, links[u.n].made) THEN links[u.n].to ELSE Refused
    [] OTHER -> u

Refuses(c, anchor) ==
  /\ refused' = {[url |-> anchor, stands |-> anchor.kind = "generic" /\ generic[anchor.n].active]}
  /\ Goes(c, Idle)

\* a plausible slip: the target of a link is taken for the end of the chain
HopOnce(c, anchor, u, left) ==
  IF Resolved(u) = Refused THEN Refuses(c, anchor)
  ELSE Goes(c, [at |-> "instrument", to |-> Resolved(u)]) /\ UNCHANGED refused

\* each round reads the tables anew; what leads to a link of our own takes another one, of at
\* most MaxChain
Hop(c, anchor, u, left) ==
  LET v == Resolved(u)
      again == left > 1 /\ v.kind \in {"mail", "generic", "public"}
  IN IF v = Refused \/ (Tracked(v) /\ ~again) THEN Refuses(c, anchor)
     ELSE /\ Goes(c, IF again THEN [at |-> "detrack", anchor |-> anchor, url |-> v, left |-> left - 1]
                     ELSE [at |-> "instrument", to |-> v])
          /\ UNCHANGED refused

\* normalize_postmaster_html
Compose(c, u) ==
  /\ call[c] = Idle
  /\ Hop(c, u, u, MaxChain)
  /\ UNCHANGED <<mix, file, now, tables, served, told>>

Detrack(c) ==
  /\ call[c].at = "detrack"
  /\ Hop(c, call[c].anchor, call[c].url, call[c].left)
  /\ UNCHANGED <<mix, file, now, tables, served, told>>

\* instrument_html_with_shares and _insert_stored_file_link; the link is known to nobody until
\* the message is sent, after its three transactions
Instrument(c) ==
  /\ call[c].at = "instrument" /\ Len(links) < MaxLinks + Len(Historic) /\ Len(caps) < MaxCaps
  /\ LET to == call[c].to
     IN CASE to.kind = "file" /\ file[to.n] # Gone ->
               /\ caps' = Append(caps, Cap("private", to.n))
               /\ links' = Append(links, FileLink(to))
               /\ UNCHANGED refused
          [] to.kind = "file" /\ file[to.n] = Gone ->
               refused' = {[url |-> to, stands |-> FALSE]} /\ UNCHANGED <<caps, links>>
          [] OTHER -> links' = Append(links, PageLink(to)) /\ UNCHANGED <<caps, refused>>
  /\ Goes(c, Idle)
  /\ UNCHANGED <<mix, file, now, generic, served, told>>

-----------------------------------------------------------------------------

Anchors ==
  {Url("page", p) : p \in Pages} \cup {Url("file", f) : f \in Files}
  \cup {Url(caps[n].form, n) : n \in {m \in DOMAIN caps : caps[m].form # "private"}}
  \cup {Url("mail", n) : n \in DOMAIN links} \cup {Url("generic", n) : n \in DOMAIN generic}

Ask(c) ==
  \/ "create" \in mix /\ \E l \in Labels, k \in Keys :
       \/ \E p \in Pages : Create(c, "url", p, l, k)
       \/ \E f \in Files : Create(c, "file", f, l, k)
  \/ "follow" \in mix /\ \E u \in Anchors : Follow(c, u)
  \/ "compose" \in mix /\ \E u \in Anchors : Compose(c, u)

Work(c) == Insert(c) \/ Resolve(c) \/ Read(c) \/ Detrack(c) \/ Instrument(c)

Store(f) ==
  \/ \E x \in Contents : Save(f, x)
  \/ Delete(f)
  \/ SharePublic(f) \/ ShareSigned(f) \/ ShareExpiring(f)

Next ==
  \/ Tick
  \/ \E f \in Files : Store(f)
  \/ \E n \in DOMAIN generic : Revoke(n)
  \/ \E c \in Callers : Ask(c) \/ Work(c)

Spec == Init /\ [][Next]_vars

-----------------------------------------------------------------------------

\* Whoever follows a link is sent the incarnation the link was made for, whatever is deleted,
\* saved again and revoked meanwhile.  A signed URL and a link of an earlier release are compared
\* only once, before the file is read: what is saved within the request is sent too.  A signed URL
\* that expires is made for an id: it leads to whatever is stored under the id, also to what was
\* saved after a deletion, but never once it has expired.
ServedExactly ==
  \A s \in served :
    CASE s.by.check = "exact" -> s.got = [file |-> s.by.want.file, content |-> s.by.want.content,
                                          born |-> s.by.want.born]
      [] s.by.check = "signature" ->
           IF s.by.want.until = 0 THEN s.got.born = s.by.want.born \/ s.got.born > s.by.since
           ELSE s.got.file = s.by.want.file /\ s.by.since < s.by.want.until
      [] OTHER -> s.got.born <= s.by.made \/ s.got.born > s.by.since

\* One key is one link: two creations under a key, at once or after each other, are answered with
\* the same link, and only if they asked for the same target and label.
KeyMakesOneLink ==
  \A s, t \in told : s.intent.key = t.intent.key => s = t

\* A link made for a message leads to a page or a file, never through an older link of ours: a
\* click is counted once, for the delivery it belongs to.
NeverThroughAnother ==
  \A n \in DOMAIN links : n > Len(Historic) => ~Tracked(links[n].to) /\ links[n].to.kind # "public"

\* create_tracked_link: the URL "may be used ... in any user-authorized context ..., not only
\* email".  No message is refused for a generic link that has not been revoked.
LinkUsableInMail == \A r \in refused : ~r.stands

=============================================================================
