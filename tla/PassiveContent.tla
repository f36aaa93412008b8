--------------------------- MODULE PassiveContent ---------------------------
(***************************************************************************)
(* The remote content of one message: the static inventory of the URLs its *)
(* HTML names (email_privacy_v963.py, email_inventory_v963.py), the fetch  *)
(* of the passive ones through the privacy proxy into the durable cache    *)
(* (privacy_cache_v969.py), the one-level resolution of stylesheets        *)
(* (privacy_css_v969.py), decoy traffic, and the cache-only rendering.     *)
(* WebGUI requests and MCP calls run these concurrently (Callers).         *)
(*                                                                         *)
(* The identity of a message (its bytes once the body is cached) is the    *)
(* same for every call, so a resource is keyed by its URL.  A row of the   *)
(* cache is [ok, css, remote, local, lost]: whether it is a usable         *)
(* response, whether it is text/css, and then the URLs its text still      *)
(* names, the cached rows it links and the ones it marks as not available. *)
(***************************************************************************)
EXTENDS Naturals, FiniteSets, Sequences

CONSTANTS
  Callers,
  Inventory,      \* the URLs of the message in order: [url, source, tiny, redirector]
  Sheet,          \* url() targets, resolved, of each URL that may be answered as text/css
  Semantic,       \* URLs whose path or query says unsubscribe, login, reset, confirm, ...
  MaxResources,   \* MAX_TOTAL_RESOURCES_PER_MESSAGE_CYCLE, 32
  MaxNested,      \* MAX_NESTED_RESOURCES_PER_STYLESHEET, 12
  MaxDecoys,      \* _MAX_DECOY_REQUESTS_PER_MESSAGE, 4
  MaxCalls        \* bound: calls of each caller

VARIABLES
  cache,     \* mailbox_cache_remote_resources by URL
  enabled,   \* privacy_proxy_config: the proxy is enabled
  noise,     \* high_noise_decoy_enabled, under tracking_obfuscation
  call,      \* each caller's progress
  calls,     \* calls begun
  sent,      \* the requests last made of the proxy: <<url, "render" or "decoy">>
  page,      \* what the browser was last given of a resource
  abandoned  \* history: stylesheets a call ended over before it had rewritten them

vars == <<cache, enabled, noise, call, calls, sent, page, abandoned>>

-----------------------------------------------------------------------------
(* The inventory.                                                          *)

Images == {"img src", "source src", "video poster", "style url()", "background"}
Links == {"a href", "form action"}

\* what a URL is for, judged by where it stands and what it looks like
Classification(row) ==
  IF row.source = "a href"
  THEN IF row.url \in Semantic THEN "action" ELSE IF row.redirector THEN "redirector" ELSE "normal link"
  ELSE IF row.source = "img src" /\ row.tiny THEN "tracking pixel"
  ELSE IF row.source \in Images THEN "remote image" ELSE "unknown"

\* the semantics of the URL itself come first, wherever in the message it stands
Kind(row) == IF row.url \in Semantic THEN "action" ELSE Classification(row)

\* _passive_allowed, given the kind a row was put under
Allowed(row, kind) ==
  /\ kind \notin {"normal link", "action", "redirector"}
  /\ row.source \in Images \cup {"link href"}

Passive(row) == Allowed(row, Kind(row))

\* the passive rows, the first of each URL, at most MaxResources of them
Candidates ==
  LET passive == {i \in DOMAIN Inventory : Passive(Inventory[i])}
      firsts == {i \in passive : \A j \in passive : j < i => Inventory[j].url # Inventory[i].url}
  IN {i \in firsts : Cardinality({j \in firsts : j < i}) < MaxResources}

TopLevel == {Inventory[i].url : i \in Candidates}
Stylesheets == {i \in Candidates : Inventory[i].source = "link href"}

\* a url() of a stylesheet is judged by its classification alone
NestedAllowed(u) ==
  LET row == [url |-> u, source |-> "style url()", tiny |-> FALSE, redirector |-> FALSE]
  IN Allowed(row, Classification(row))

\* some of us, at most n
Some(us, n) == {s \in SUBSET us : Cardinality(s) = IF Cardinality(us) < n THEN Cardinality(us) ELSE n}

-----------------------------------------------------------------------------
(* The cache.                                                              *)

Urls == {Inventory[i].url : i \in DOMAIN Inventory} \cup UNION {Sheet[s] : s \in DOMAIN Sheet}
Usable == [ok |-> TRUE, css |-> FALSE, remote |-> {}, local |-> {}, lost |-> {}]
Negative == [Usable EXCEPT !.ok = FALSE]
Body(u) == IF u \in DOMAIN Sheet THEN [Usable EXCEPT !.css = TRUE, !.remote = Sheet[u]] ELSE Usable

Held(u) == u \in DOMAIN cache
Good(u) == Held(u) /\ cache[u].ok

Put(u, row) ==
  /\ cache' = [v \in DOMAIN cache \cup {u} |-> IF v = u THEN row ELSE cache[v]]
  /\ abandoned' = abandoned \ {u}
Drop(us) ==
  /\ cache' = [v \in DOMAIN cache \ us |-> cache[v]]
  /\ abandoned' = abandoned \ us
Kept == UNCHANGED <<cache, abandoned>>

Idle == [at |-> "idle"]
NoPage == [local |-> {}, told |-> {}]

Init ==
  /\ cache = [u \in {} |-> Negative]
  /\ enabled \in BOOLEAN /\ noise \in BOOLEAN
  /\ call = [c \in Callers |-> Idle] /\ calls = [c \in Callers |-> 0]
  /\ sent = {} /\ page = NoPage /\ abandoned = {}

-----------------------------------------------------------------------------
(* fetch_inventory: the top level.                                         *)

Goes(c, next) == call' = [call EXCEPT ![c] = next]

\* todo: URLs not looked up; work: to fetch; out: asked for; worked: fetched anything at all
Fetch(c, refresh) ==
  /\ call[c] = Idle /\ calls[c] < MaxCalls
  /\ Goes(c, [at |-> "top", refresh |-> refresh, worked |-> FALSE, todo |-> TopLevel,
              work |-> {}, out |-> {}, sheets |-> Stylesheets, refs |-> {}, left |-> 0,
              css |-> Negative])
  /\ Drop(IF refresh THEN TopLevel ELSE {})
  /\ calls' = [calls EXCEPT ![c] = @ + 1]
  /\ UNCHANGED <<enabled, noise, sent, page>>

\* a row of the cache is a hit whether it is usable or not: a failure is not tried again
Look(c, u) ==
  /\ call[c].at = "top" /\ u \in call[c].todo
  /\ Goes(c, [call[c] EXCEPT !.todo = @ \ {u}, !.work = IF Held(u) THEN @ ELSE @ \cup {u},
                             !.worked = @ \/ ~Held(u)])
  /\ Kept /\ UNCHANGED <<enabled, noise, calls, sent, page>>

Busy(c) == call[c].at \in {"top", "nested"} /\ call[c].todo = {}

\* PrivacyProxyClient.fetch asks the Worker
Send(c, u) ==
  /\ Busy(c) /\ u \in call[c].work \ call[c].out
  /\ enabled
  /\ Goes(c, [call[c] EXCEPT !.out = @ \cup {u}])
  /\ sent' = {<<u, "render">>}
  /\ Kept /\ UNCHANGED <<enabled, noise, calls, page>>

\* the proxy was switched off meanwhile: the error is cached like any other
Refuse(c, u) ==
  /\ Busy(c) /\ u \in call[c].work \ call[c].out
  /\ ~enabled
  /\ Put(u, Negative)
  /\ Goes(c, [call[c] EXCEPT !.work = @ \ {u}])
  /\ UNCHANGED <<enabled, noise, calls, sent, page>>

\* a stylesheet that used up its time or its bytes: what was not yet asked for is cached as failed
GiveUp(c, u) ==
  /\ call[c].at = "nested" /\ u \in call[c].work \ call[c].out
  /\ Put(u, Negative)
  /\ Goes(c, [call[c] EXCEPT !.work = @ \ {u}])
  /\ UNCHANGED <<enabled, noise, calls, sent, page>>

Landed(c, u) ==
  /\ Busy(c) /\ u \in call[c].out
  /\ Goes(c, [call[c] EXCEPT !.work = @ \ {u}, !.out = @ \ {u}])
  /\ UNCHANGED <<enabled, noise, calls, sent, page>>

\* a response or an error, put under the key as it is
Land(c, u) ==
  /\ call[c].at = "top" /\ Landed(c, u)
  /\ \E row \in {Body(u), Negative} : Put(u, row)

\* cover traffic for top-level resources, only when this call fetched something
Decoys(c) ==
  /\ call[c].at = "top" /\ Busy(c) /\ call[c].work = {}
  /\ IF call[c].worked /\ noise /\ enabled
     THEN \E us \in Some(TopLevel, MaxDecoys) : sent' = {<<u, "decoy">> : u \in us}
     ELSE UNCHANGED sent
  /\ Goes(c, [call[c] EXCEPT !.at = "sheet", !.left = MaxResources - Cardinality(TopLevel)])
  /\ Kept /\ UNCHANGED <<enabled, noise, calls, page>>

-----------------------------------------------------------------------------
(* _process_stylesheets.                                                   *)

\* render_cached_message: no network, straight to the stylesheets
Render(c) ==
  /\ call[c] = Idle /\ calls[c] < MaxCalls
  /\ Goes(c, [at |-> "sheet", refresh |-> FALSE, worked |-> FALSE, todo |-> {}, work |-> {},
              out |-> {}, sheets |-> Stylesheets, refs |-> {}, css |-> Negative,
              left |-> MaxResources - Cardinality(TopLevel)])
  /\ calls' = [calls EXCEPT ![c] = @ + 1]
  /\ Kept /\ UNCHANGED <<enabled, noise, sent, page>>

\* the stylesheets are taken in the order of the message
IsNext(c, i) == \A j \in call[c].sheets : i <= j

Turn(c, i) ==
  /\ call[c].at = "sheet" /\ i \in call[c].sheets /\ IsNext(c, i)
  /\ UNCHANGED <<enabled, noise, calls, sent, page>>

Done(c, i) == Goes(c, [call[c] EXCEPT !.sheets = @ \ {i}])

\* what failed, and what was answered as something else, is left as it is
SkipSheet(c, i) ==
  /\ Turn(c, i) /\ ~(Good(Inventory[i].url) /\ cache[Inventory[i].url].css)
  /\ Done(c, i) /\ Kept

\* more than MAX_STYLESHEET_BYTES
DropSheet(c, i) ==
  /\ Turn(c, i) /\ Good(Inventory[i].url) /\ cache[Inventory[i].url].css
  /\ Put(Inventory[i].url, Negative)
  /\ Done(c, i)

\* the stylesheet is read; the references it names are bounded, and those without a row are
\* fetched when the call may use the network at all
OpenSheet(c, i) ==
  LET s == Inventory[i].url
      bound == IF call[c].left < MaxNested THEN call[c].left ELSE MaxNested
  IN /\ Turn(c, i) /\ Good(s) /\ cache[s].css
     /\ \E refs \in Some({u \in cache[s].remote : NestedAllowed(u)}, bound) :
          LET missing == IF call[c].refresh THEN refs ELSE refs \ DOMAIN cache
          IN /\ Drop(IF call[c].refresh THEN refs ELSE {})
             /\ Goes(c, [call[c] EXCEPT !.at = "nested", !.css = cache[s], !.refs = refs,
                           !.left = @ - Cardinality(refs),
                           !.work = IF call[c].refresh \/ call[c].worked THEN missing ELSE {}])

\* the image or font of a stylesheet; an error, a timeout and the size limits are cached too
StoreNested(c, u) ==
  /\ call[c].at = "nested" /\ Landed(c, u)
  /\ \E row \in {Usable, Negative} : Put(u, row)

\* a plausible slip: what could not be fetched stays as it was
RewrittenWhereHeld(c) ==
  LET usable == {u \in call[c].refs : Good(u)}
  IN [ok |-> TRUE, css |-> TRUE, remote |-> call[c].refs \ usable, local |-> usable, lost |-> {}]

\* every url() becomes a link to a usable row, a mark, or nothing; the text that was read is
\* put back, whatever the row is by now
Rewritten(c) ==
  LET usable == {u \in call[c].refs : Good(u)}
  IN [ok |-> TRUE, css |-> TRUE, remote |-> {}, local |-> call[c].css.local \cup usable,
      lost |-> call[c].css.lost \cup (call[c].refs \ usable)]

Rewrite(c) ==
  /\ call[c].at = "nested" /\ call[c].work = {}
  /\ \E i \in call[c].sheets :
       /\ IsNext(c, i)
       /\ Put(Inventory[i].url, Rewritten(c))
       /\ Goes(c, [call[c] EXCEPT !.at = "sheet", !.sheets = @ \ {i}, !.refs = {}, !.css = Negative])
  /\ UNCHANGED <<enabled, noise, calls, sent, page>>

Return(c) ==
  /\ call[c].at = "sheet" /\ call[c].sheets = {}
  /\ Goes(c, Idle)
  /\ Kept /\ UNCHANGED <<enabled, noise, calls, sent, page>>

\* an exception, or the death of the process: what has landed is in the cache as it came
End(c) ==
  /\ call[c] # Idle
  /\ Goes(c, Idle)
  /\ abandoned' = abandoned \cup {u \in DOMAIN cache :
                       cache[u].remote # {} /\ \E i \in call[c].sheets : Inventory[i].url = u}
  /\ UNCHANGED <<cache, enabled, noise, calls, sent, page>>

Configure ==
  /\ \E e, n \in BOOLEAN : enabled' = e /\ noise' = n
  /\ Kept /\ UNCHANGED <<call, calls, sent, page>>

\* resource_response: a usable row, and of a stylesheet no url() at all
Serve(u) ==
  /\ Good(u) /\ cache[u].local # {}
  /\ page' = [local |-> cache[u].local, told |-> {}]
  /\ Kept /\ UNCHANGED <<enabled, noise, call, calls, sent>>

\* fetch_email_remote_content and the WebGUI's confirmed rendering: a fetch is authorised, a
\* refresh only with one, a cache-only reading needs neither
Ask(c) == Render(c) \/ \E refresh \in BOOLEAN : Fetch(c, refresh)

Next ==
  \/ Configure
  \/ \E u \in Urls : Serve(u)
  \/ \E c \in Callers :
       \/ Ask(c)
       \/ \E u \in Urls : Look(c, u) \/ Send(c, u) \/ Refuse(c, u) \/ GiveUp(c, u) \/ Land(c, u) \/ StoreNested(c, u)
       \/ \E i \in DOMAIN Inventory : SkipSheet(c, i) \/ DropSheet(c, i) \/ OpenSheet(c, i)
       \/ Decoys(c) \/ Rewrite(c) \/ Return(c) \/ End(c)

Spec == Init /\ [][Next]_vars

-----------------------------------------------------------------------------
(* What must hold.                                                         *)

Row == [ok : BOOLEAN, css : BOOLEAN, remote : SUBSET Urls, local : SUBSET Urls, lost : SUBSET Urls]

TypeOK ==
  /\ DOMAIN cache \subseteq Urls /\ \A u \in DOMAIN cache : cache[u] \in Row
  /\ sent \subseteq Urls \X {"render", "decoy"} /\ abandoned \subseteq DOMAIN cache

\* The stylesheets the browser is served name no remote origin (privacy_css_v969.py,
\* "without retaining any remote origin URL in browser-consumable CSS"): once no call is under
\* way this holds of every stylesheet the message links, though calls overwrite each other's
\* with the text they read, refreshes delete it under them, and a raw one lands at any moment;
\* except for one a call was ended over, until it is rewritten, fetched again or given up.
\* A row answered as text/css where an image was linked is kept as it came: nothing goes over it.
CachedCssIsLocal ==
  (\A c \in Callers : call[c] = Idle) =>
    \A i \in Stylesheets : Held(Inventory[i].url) =>
      cache[Inventory[i].url].remote = {} \/ Inventory[i].url \in abandoned

\* "Navigation/action/unsubscribe/login/... URLs remain silent": no request, genuine or
\* decoy, is ever made for one.
ActionUrlsSilent == \A r \in sent : r[1] \notin Semantic

\* "persisted in the same stable message cache and rewritten to local resource references"
\* (CHANGELOG.md:152): what a stylesheet links locally reaches the browser.
StylesShowTheirResources == page.told = page.local

=============================================================================
