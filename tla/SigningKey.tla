----------------------------- MODULE SigningKey -----------------------------
(***************************************************************************)
(* What privacy_proxy_provisioning_preview and _execute (mcp_v969.py over  *)
(* privacy_provisioning_v966.py) do with the Worker's address and the      *)
(* signing key: prepare_provisioning stores both, every other action signs *)
(* a request with the key and posts it to the address.                     *)
(*                                                                         *)
(* Each read and write of the two tables is a step; nothing keeps a second *)
(* call out.  Approvals are rows bound to action, address and key          *)
(* (PendingApproval); what the Worker makes of a request, generations and  *)
(* secrets are PrivacyProvisioning.  Keys are numbered, 0 is none.         *)
(***************************************************************************)
EXTENDS Integers

CONSTANTS
  Threads,
  Urls, NoUrl,
  MaxKeys,       \* bound: keys generated
  MaxPreviews    \* bound: previews

VARIABLES
  url,        \* privacy_proxy_config.worker_url
  key,        \* privacy_proxy_provisioning: the key pair with its id
  keys,       \* keys generated so far
  previews,   \* previews so far
  approvals,  \* mcp_pending_approvals, not yet consumed: [id, binding]
  call,       \* the execution of each thread
  maker,      \* history: the thread that stored the key
  shown,      \* history: the keys told, and the threads that had found none and might still store one
  posted      \* history: what was posted last

vars == <<url, key, keys, previews, approvals, call, maker, shown, posted>>

Idle == [at |-> "idle"]
Goes(c, r) == call' = [call EXCEPT ![c] = r]
Steps(c, at) == Goes(c, [at |-> at, binding |-> call[c].binding])

Init ==
  /\ url = NoUrl /\ key = 0 /\ keys = 0 /\ previews = 0
  /\ approvals = {} /\ call = [c \in Threads |-> Idle]
  /\ maker = {} /\ shown = {} /\ posted = {}

-----------------------------------------------------------------------------
(* The binding of a preview and of an execution.                           *)

\* an address is given to prepare, and only then; a request needs a key and an address
Bindable(action, u) ==
  /\ action = "prepare" <=> u # NoUrl
  /\ action = "prepare" \/ (key # 0 /\ url # NoUrl)

Binding(action, u) == [action |-> action, url |-> IF action = "prepare" THEN u ELSE url, key |-> key]

Preview(action, u) ==
  /\ previews < MaxPreviews /\ Bindable(action, u)
  /\ previews' = previews + 1
  /\ approvals' = approvals \cup {[id |-> previews, binding |-> Binding(action, u)]}
  /\ UNCHANGED <<url, key, keys, call, maker, shown, posted>>

-----------------------------------------------------------------------------
(* privacy_proxy_provisioning_execute.                                     *)

Begin(c, action, u) ==
  /\ call[c] = Idle /\ Bindable(action, u)
  /\ Goes(c, [at |-> "consume", binding |-> Binding(action, u)])
  /\ UNCHANGED <<url, key, keys, previews, approvals, maker, shown, posted>>

Consume(c) ==
  /\ call[c].at = "consume"
  /\ LET b == call[c].binding
         rows == {r \in approvals : r.binding = b}
     IN \/ rows = {} /\ Goes(c, Idle) /\ UNCHANGED approvals
        \/ \E r \in rows : approvals' = approvals \ {r} /\ Goes(c, [at |-> b.action, binding |-> b])
  /\ UNCHANGED <<url, key, keys, previews, maker, shown, posted>>

\* configure(worker_url)
Configure(c) ==
  /\ call[c].at = "prepare"
  /\ url' = call[c].binding.url
  /\ Steps(c, "look")
  /\ UNCHANGED <<key, keys, previews, approvals, maker, shown, posted>>

\* a plausible slip: each preparation makes a key
LookPast(c) ==
  /\ call[c].at = "look" /\ keys < MaxKeys
  /\ Steps(c, "store")
  /\ UNCHANGED <<url, key, keys, previews, approvals, maker, shown, posted>>

\* _prepare_key: a key that is there stays
Look(c) ==
  /\ call[c].at = "look" /\ keys < MaxKeys
  /\ Steps(c, IF key = 0 THEN "store" ELSE "tell")
  /\ UNCHANGED <<url, key, keys, previews, approvals, maker, shown, posted>>

StoreKey(c) ==
  /\ call[c].at = "store"
  /\ key' = keys + 1 /\ keys' = keys + 1 /\ maker' = {c}
  /\ Steps(c, "tell")
  /\ UNCHANGED <<url, previews, approvals, shown, posted>>

\* calls that found no key
Rivals == {c \in Threads : call[c].at = "store"}

\* public_status, as an answer or as privacy_proxy_status: the key to pin in the Worker
Tells == shown' = IF key = 0 THEN shown ELSE shown \cup {[key |-> key, rivals |-> Rivals]}

Tell(c) ==
  /\ call[c].at = "tell"
  /\ Tells /\ Goes(c, Idle)
  /\ UNCHANGED <<url, key, keys, previews, approvals, maker, posted>>

PublicStatus == Tells /\ UNCHANGED <<url, key, keys, previews, approvals, call, maker, posted>>

\* the address is read again
Address(c) ==
  /\ call[c].at = "provision"
  /\ Goes(c, [at |-> "sign", binding |-> call[c].binding, to |-> url])
  /\ UNCHANGED <<url, key, keys, previews, approvals, maker, shown, posted>>

\* _sign_headers names the key it reads first
Name(c) ==
  /\ call[c].at = "sign"
  /\ Goes(c, [at |-> "post", binding |-> call[c].binding, to |-> call[c].to, named |-> key])
  /\ UNCHANGED <<url, key, keys, previews, approvals, maker, shown, posted>>

\* _private_key is read again; _post_provision
Post(c) ==
  /\ call[c].at = "post"
  /\ posted' = {[to |-> call[c].to, named |-> call[c].named, by |-> key, approved |-> call[c].binding]}
  /\ Goes(c, Idle)
  /\ UNCHANGED <<url, key, keys, previews, approvals, maker, shown>>

Next ==
  \/ \E action \in {"prepare", "provision"}, u \in Urls \cup {NoUrl} :
       Preview(action, u) \/ \E c \in Threads : Begin(c, action, u)
  \/ \E c \in Threads :
       \/ Consume(c) \/ Configure(c) \/ Look(c) \/ StoreKey(c) \/ Tell(c)
       \/ Address(c) \/ Name(c) \/ Post(c)
  \/ PublicStatus

Spec == Init /\ [][Next]_vars

-----------------------------------------------------------------------------

\* A key that was told, to be pinned in the Worker, is replaced by nobody but a call that had found
\* none when it was told and has not stored its own yet: no later preparation, approval or
\* address touches it.  Two first preparations at once do lose a key that was told.
ToldKeyStays == \A s \in shown : key = s.key \/ maker \subseteq s.rivals

\* "Approval never carries across changed action/origin/key/generation/state"
\* (privacy-proxy-mcp-provisioning.md:210): a request goes where its approval said.
PostsWhereApproved == \A p \in posted : p.to = p.approved.url

=============================================================================
