# A TLA+ model of Postmaster MCP

Postmaster MCP is a self-hosted server that gives AI clients mail, persistent tasks, a knowledge
base with project scopes, structured data, stored files and a remote privacy proxy. It is one Python
process: MCP tools run in worker threads, the WebGUI in async handlers of the same process, and a
few background threads watch mailboxes. Its state is in SQLite databases and files on two volumes. A
bootstrap script in the Compose file picks and starts the release; a Cloudflare Worker fetches
remote images.

The modules here model the parts whose correctness depends on the order of steps: several threads,
restarts in the middle of a call, lost answers, clocks that move. TLC checks each on a small
instance; TLAPS proves every safety property of the passing runs for every value of the constants
(section 6).

Paths below are relative to `src/` of this project; `postmaster/x.py` is `src/src/postmaster/x.py`.

## 1. Inventory

### 1.1 How the program is put together

* **Layers.** `server.py` holds the base tools; `runtime_v946.py` … `runtime_v983.py` wrap or
  replace them one version on top of the other (`runtime.py` gives the order), and so do the
  `webgui_*` and `mail_v9xx` modules. A function is often defined several times; the model follows
  the body that is live after composition. Example: `_send_individualized` of `tracked_mail.py` is
  overridden by the one of `stored_file_delivery.py`.
* **Stores.** Each store is one object per process (`lru_cache` in `server.py`), with its own SQLite
  file and sometimes a `threading.RLock`. The outbound ledger, pending approvals, confirmation
  tokens, privacy configuration, jobs, knowledge and files are in different databases, so a
  handler that touches two of them is never one transaction.
* **SQLite in Python's default mode.** A transaction opens at the first statement that *writes*. A
  `SELECT` followed by an `UPDATE` is two steps unless the code says `BEGIN IMMEDIATE` or holds a
  lock. The models follow this throughout: what was read is kept in the caller's local state, and
  the write is an action of its own.
* **Restarts.** The process is ended by `terminate_current_process` after an approved version
  change, by the container runtime, or by a crash. What a call had read is lost; what it had
  committed stays.

### 1.2 Components

"State" is what survives a call; "hard" is what a unit test would hardly reach; "correct when" names
the properties that are checked. A part in parentheses belongs to the property before it.

| component | state | operations | hard | correct when |
|---|---|---|---|---|
| outbound ledger (`outbound_safety.py`) | one row per logical send: key, payload hash, visible hash, state, stamp | `execute` = `_reserve`, callback, `_finish` | clock read before the lock, crash between callback and finish, force_send, two kinds of duplicates | ImplementsAtMostOnce, WindowGuard, AnswersTruthful |
| SMTP transport and individualized sends (`mail_v950.py`, `stored_file_delivery.py`, `outbound_archive_v969.py`, `mail_v960.py`) | delivery attempts, archive copy, the server's mailboxes | `_reliable_transport`, `_smtp_send_once`, `_send_individualized` | answer to DATA lost, retry, failure of one leg, bookkeeping failing after success | OneCopyPerLeg, ReportsAreTrue, EquivalentTakenOnce, DeliveryEnds |
| recipient policy and thread recipients (`mail_extensions.py`, `thread_recipients.py`, `mail_v960_unsubscribe.py`) | allowlists, sent history, the confirmed suppressions of a call | authorize, revoke, migrate, send, reply, follow up, drafts | policy and list change between preflight, the reads of a leg and its transmission; confirmation visible to one call only | RecipientsSafety (NoneBehindThePolicy, StaysInThread) |
| outbound operations index (`outbound_operations_v969.py`, `outbound_archive_v969.py`) | logical operation with all Message-IDs | `record_operation`, `resolve_reply` | a reply before the record, replays, hidden recipients, the older format | OperationsSafety (FiledWhereItBelongs, DirectAnswerNamesItsSender) |
| pending approvals (`pending_approval_v969.py`, `mcp_v969.py`) | table of previews with digest and expiry | `issue`, `consume_matching`; preview and execute tools | two executions of one preview, state that moves, preview id left out | ExactApproval, ImplementsOneShot, UnspentStaysOpen, NeverGuesses |
| confirmation tokens (`confirmation_v967.py`) | spent nonces, key file | `issue`, `consume` | purge and insert in one transaction, with a clock read again | SigningSafety (OnceWhileValid, OnlyStraddlersReplay, ConfirmedExactly) |
| task registry (`scheduler_engine.py`) | jobs, latest history event | create, update, pause, resume, complete, delete | SELECT and UPDATE apart, completion against edit, deletion against edit | ServedOnce, NoResurrection, CompletedImmutable, TasksSafety (HistoryTellsStatus, KeepsSchedule, RowConsistent) |
| project registry and deletion (`project_service.py`, `scheduler_engine.py`) | projects, references of jobs and profiles | create, delete with detach in three databases | new reference during a deletion, failure after a partial detach | ScopesSafety (DeletionExcludesReferences, DeletedIsDetached) |
| knowledge scopes (`knowledge_scopes.py`, `runtime_v960_knowledge.py`, `project_scope_semantics.py`) | scope rows with a primary one, audit, project column | `sync_primary`, `set_scopes`, backfills at start | column and rows in separate transactions, "Unassigned" against "Global" | ScopesSafety (PrimaryAgrees), UnassignedStays |
| knowledge items and retrieval (`knowledge_store.py`, `context_engine.py`, `semantic_engine.py`) | items, revisions, chunks, vectors | create, update, delete, restore, import, reindex; lists, search, bounded context | a vector computed for a text that changed, a restore in two transactions, several reads per answer | IndexSafety (CurrentIsKept, VectorOfItsText), RetrievalSafety (AnswersAreScoped, AlwaysWithinBudget) |
| structured data (`structured_data_v980.py`) | typed tables, rows, indexes, migrations, audit, idempotency keys | schema, rows, upsert, import, migrations, overrides, queries | an import repeated after it stopped half-way, pages beside overrides | DataSafety (KeyedOnce, AppliedInEffect), ReadsSafety (PagesCover, OriginalIsTold) |
| mail accounts (`account_store.py`) | accounts, the default, import marker | save, delete, set_default, AMP state, import of the environment | the default deleted under a set_default, a crash between import and marker | AccountsSafety (ChosenAnswers, ImportedOnce) |
| privacy proxy provisioning (`privacy_provisioning_v966.py`, `email_privacy_v963.py`) | signing key, address, generation, pending and active secret, switch | prepare, provision, rotate, reconcile, deprovision, switch | lost and late POSTs, crash between two tables, second caller | ProxySafety (SecretHeld, InStep), NeverReinstated, Settles, SigningSafety (ToldKeyStays) |
| privacy proxy Worker (`extras/cloudflare-email-privacy-proxy`) | generation, active and previous secret | `/provision`, `/health`, `/fetch` | repeated and reordered requests, grace of an old secret | ProxySafety (DuringGrace), NeverReinstated |
| runtime control and bootstrap (`runtime_control.py`, `postmaster-mcp.yml`) | control file, releases on disk, symlink | `write_control`, the start script | kill between two file operations, a control file that cannot be cleared, shared temporary file, fallback to the cached release | RuntimeSafety (OneShotServedOnce, KeepsWorkingRelease), RuntimeSteps (InstalledAsAccepted, FirstRestart) |
| update check (`update_status.py`, `runtime_control.py`) | one cached lookup of releases each | look up, force | a clock read before a lock that is held while others fetch, failed attempts | RuntimeSafety (NoFalseNegative, AttemptsSpaced) |
| persistent file store (`file_store.py`) | rows and content-addressed blobs | `save_bytes`, `delete`, `update_metadata` | unlink outside the lock, limits, an INSERT that fails or a crash between blob and row, an id given again | FilesSafety (WithinLimits, NoOrphanBlob, StoredHasBlob) |
| secrets kept in files (`file_handoff.py`, `confirmation_v967.py`, `unsubscribe.py`) | one key file each | read or create | two creations at once, a write that fails, a kill between creation and write, a key read back otherwise than it was written | FilesSafety (OneKey, EmptyIsBeingFilled) |
| stored-file links (`stored_file_public_v972.py`, `file_handoff.py`, `generic_tracking_v98x.py`) | capabilities, links of mail, generic links | create, revoke, resolve, rewrite in outgoing mail | a file recreated under its id, URLs that bind the id alone, two creations under one key | LinksSafety (ServedExactly, KeyMakesOneLink, NeverThroughAnother) |
| open and link tracking (`email_analytics.py`, `link_tracking*.py`, `tracking_telemetry_v971.py`, `provider_classification.py`) | append-only events, a private address table with retention | record, locate, retain, query, classify | events of two visitors served at once, purge under a query, neighbours in time | TelemetrySafety (ShowsItsOwnAddress, EvidenceIsNearest, BurstTold, PersonSpared) |
| inbound processing and IDLE watchers (`imap_idle.py`, `mail_v950.py`) | high-water UID, watcher threads | `process_inbound_changes`, `initialize_inbound_highwater` | the last UID is returned again by `n:*`, bounded passes, lost connections | NothingPassedOver |
| delivery reliability (`delivery_reliability.py`) | suppression list, soft-bounce counters, attempt log, throttle window | suppress, unsuppress, `record_bounce`, `process_inbound` | counter read outside its lock, a bounce processed twice; several windows that must be open at once | HardBounceHolds, RateKept, DeliveryEnds (AcquireEnds) |
| mailbox cache (`mailbox_cache_v963.py`) | cached messages per folder and UIDVALIDITY | `sync_account`, `reset_mailbox`, `delete_missing_uids`, `ensure_body` | a pass of many commands that fail one by one, joined passes, recreated mailboxes, bodies fetched late | MirrorsAfterQuietPass |
| privacy cache and safe rendering (`privacy_cache_v969.py`, `privacy_css*.py`, `email_privacy_v963.py`) | cached remote resources per message | inventory, fetch, rewrite stylesheets, render | overwriting each other's stylesheet, calls that end half-way, moved messages, rewritten keys | CachedCssIsLocal, KeptContentFollows |
| mailbox operations (`mail_bridge.py`, `mail_extensions.py`, …) | none of its own (the IMAP server's) | search, read, move, mark, draft | COPY, STORE and EXPUNGE beside other moves | NothingLost |
| unsubscribe and classification (`unsubscribe.py`, `provider_classification.py`) | none but the key | sign and resolve links, suppress, score clicks | with the parts it acts on | the parts' |
| inbound inspection, remote download, composition, WebGUI, model preparation | none of their own | – | – | not modelled, section 8 |

### 1.3 Interactions

* Every outbound tool calls `_safe_outbound` → `OutboundSafetyStore.execute` → transport →
  (archive, index). The suppression list is read by the transport, written by the inbound watchers
  and by unsubscribe links. Answers are resolved against the index.
* Lifecycle tools preview with `PendingApprovalStore.issue`, execute with `consume_matching`, and
  then call `write_control` and schedule the end of the process; the bootstrap reads the file.
* `ProjectService.delete` holds the scheduler's write reservation while it detaches knowledge and
  files, which commit on their own.
* Provisioning talks to the Worker over signed POSTs, and to the privacy configuration in another
  table; the switch of the WebGUI writes the same configuration.
* The privacy cache lives in the mailbox cache's database, under keys derived from its rows.
* An outgoing message gets links to stored files and pages; the public request that follows one
  reads the file store and records telemetry.

## 2. Plan

Order: what can send a mail twice first, then what can execute an approval twice, then the
persistent registries, then the two-sided protocols, then caches and indexes.

| step | modules | status |
|---|---|---|
| A. outbound | `AtMostOnce` (abstract), `OutboundSafety`, `OutboundSafetyProofs`; `OutboundDelivery` = transport ⊗ ledger, refines `OutboundSafety`, `OutboundDeliveryProofs`; `DeliveryThrottle`; `Recipients`; `OutboundOperations` | done |
| B. approvals | `OneShotApproval` (abstract), `PendingApproval`; `ConfirmationTokens`; `ApprovalsProofs` | done |
| C. registries | `TaskRegistry`, `TaskRegistryProofs`; `ProjectScopes` = scheduler ⊗ knowledge ⊗ files at project deletion; `Accounts` | done |
| D. lifecycle and proxy | `PrivacyProvisioning` ⊗ `ProvisioningWorker`; `SigningKey`; `RuntimeControl` ⊗ bootstrap; `ReleaseLookup` | done |
| E. files and links | `FileStore`; `KeyFiles`; `FileLinks`; `Tracking` with `ClickClassification` | done |
| F. mailboxes | `InboundWatch` (watchers ⊗ suppression list); `MailboxCache`; `PassiveContent`, `ContentIdentity`; `MailboxMoves` | done |
| G. knowledge and data | `KnowledgeIndex`, `KnowledgeRetrieval`; `StructuredData`, `TableReads` | done |
| H. proofs of the unions | `MailProofs` (cache, stylesheets, keys of kept content, inbound, moves), `ApprovalsProofs` (also `SigningKey` and `ProjectScopes`), `ApplicationProofs` (tasks, runtime, files, keys, lookups, links, tracking, index, retrieval), `RecordsProofs` (structured data, reads, accounts, recipients, index of sent mail), `ProgressProofs` (throttle, provisioning) | done |

Every module takes its sizes as CONSTANTS, has one action per step of the code and uses no RECURSIVE
operator, so that it can be proved about as it stands.

## 3. Modules and code

Definitions keep the code's names where they can. A definition introduced as a slip is a deliberately
wrong variant of its neighbour; the runs show that the properties notice it (`PROJECT.json`,
mutants).

### 3.1 Outbound mail

**`OutboundSafety`** – the table `outbound_operations` (`rows`), one caller's locals (`req`, `stamp`,
`op`, `verdict`) and its answer (`reply`). `Begin` is the entry of `execute` including the reading
of the clock; `ReserveKnownKey`, `ReserveNearDuplicate`, `ReserveInsert` and `ReserveFails` are the
four ends of the `BEGIN IMMEDIATE` transaction; `CallbackEnds` is what the callback returns or
raises; `Finish`/`FinishFails` the final UPDATE. `Crash` ends the process for one caller at any
point. A visible message is a `content`, a complete payload a `content` with a `variant`.

**`AtMostOnce`** – the promise: each key is submitted at most once, with one payload, and settles
once. The refinement mapping sends a key with two rows to no state of the promise.

**`OutboundDelivery`** – puts the transport in the place of the opaque callback: legs, attempts,
SMTP answers, the server's mailbox (`accepted`), the archive. `Enter`, `Leave` and `Crash` are the
joint steps. It implements `OutboundSafety` by construction, since every action conjoins one of the ledger's
or leaves the ledger alone; what the transport could spoil is what its own properties say.

**`DeliveryThrottle`** – the sliding windows of the server, the accounts and the recipient domains. A leg
asks, sleeps, and asks again; each round is one step, since it holds the lock. Legs come without end,
and the code keeps no queue of those who sleep. Time stamps are kept as ages of at most a second, which is all
that the code compares, so that endless behaviours have finitely many states.

**`Recipients`** – the policy (`domains`, `exact`, `history`) in the format an earlier release left it
and after its migration, the suppression list, and callers between preflight, legs and archive. To, Cc and Bcc are
validated one after the other, each by a read of the addresses, one of the domains and one of the Sent folder
(`ReadExact`, `ReadDomains`, `Consult`); the list is asked (`AskSuppressed`) before the throttle and the attempts
(`Deliver`). An address stands for itself in any case. The confirmation of suppressed recipients is the caller's
own (`_suppression_authorization`), as are the manual sends of the WebGUI. `named`, `bare` and `free` are
history: whom the policy named, which of its tables was empty and who was not suppressed at some moment of the
call.

**`OutboundOperations`** – sends as they went out (external truth), what was recorded of them
(`ops`, `deliveries`, `mappings`), and the resolution of one arriving answer, header by header.

### 3.2 Approvals and registries

**`PendingApproval`**, **`OneShotApproval`** – rows ever issued, those present and those consumed;
callers between reading the live state, reading the clock, and the consuming transaction.

**`ConfirmationTokens`** – tokens are records of the clients; the server keeps spent nonces. The
purge inside `_consume_nonce_once` uses a clock of its own (`Unpurged`). `uses` and `late` count the attempts a
token serves before and after its expiry, `held` who had authenticated it by then.

**`SigningKey`** – the two rows that `prepare_provisioning` writes (address, key) and every read of
them by previews and executions; what was posted where, who stored the key and who might still have
replaced it when it was told (`Rivals`) is history.

**`TaskRegistry`** – a job row with status, schedule and next time; `op` is what a call read before
its write. `complete_job` alone takes the lock. `version`, `served` and `overlapped` are history.

**`ProjectScopes`** – three databases and the handlers that span them. Pending steps are in `pc`,
what they read in `call`. A deletion keeps the scheduler's write reservation (`WriterFree`).
`revisions` are the projects that old revisions of an item name; `restored` is history: what a
restoration wrote back although the project was not active (`RestoreReads`, `RestoreRequires`).

**`Accounts`** – rows with the partial unique index on the default (`Fits`), the import of the
environment in two transactions, and what the forms answer: every change is answered with
`get_account`, which finds only enabled accounts.

### 3.3 Privacy proxy and lifecycle

**`ProvisioningWorker`** (operators) and **`PrivacyProvisioning`** – the Worker's secret state
machine, and both sides with the network between them. `late` holds the requests whose caller gave
up and that may still arrive.

**`RuntimeControl`** – control file as inodes under two names, the bootstrap as a program counter
over the shell script, releases by number. Any fault of the disk or the network is one of `faults`;
`uncleared` is history: the release whose name the bootstrap failed to take back (`ClearFails`).

**`ReleaseLookup`** – the two cached lookups of published releases, `latest_version_status` and the
forcible `stable_release_tags`. A caller's clock is read before it waits for the lock (`stamp`); what
GitHub lists, and when it was published, is external.

### 3.4 Files, links, telemetry

**`FileStore`** – rows, blobs and the program counters of `save_bytes` and `delete`. `save_bytes` holds the
lock from the limits to the row, `delete` leaves it before the unlink. Ids are new or given by the caller, so that
one may come back; a write, a rename, an INSERT or an unlink may fail, and what they leave behind is
remembered in `left`.

**`KeyFiles`** – the three routines that read or create a secret. A key is a number and whether its first
or last byte is white space; creation (`O_EXCL`), write and fsync are steps, and threads, failures
and restarts fall between them.

**`FileLinks`** – a stored file has incarnations, known by digest and creation time; a link leads to a
file, a page, another link or a generic link and is checked in one of three ways (exact incarnation,
signature, "no younger than the link"). A signature binds the incarnation, or, in URLs of the first release
that expire (`until`), the id alone. Links of earlier releases are part of the initial state.
`Hop` is one round of the way an outgoing message loses old tracking before it gets new: `Resolved` reads
the tables, a link of our own behind it is a step of its own (`Detrack`), at most `MaxChain` of them.

**`Tracking`**, **`ClickClassification`** – the event tables, and the private table whose rows are
found again by the instant of the event (`OfItsInstant`); a query reads the events (`Look`) and shows them
with what the private table then holds (`Shown`). The classification is a function of the set of
clicks a query read, which the code sorts by time and id (`InOrder`: at each place the click that has
as many before it); `EvidenceIsNearestOf` compares the walk over the sorted clicks with its definition
by distance.

### 3.5 Mailboxes

**`MailboxCache`** – the server's mailbox is external (`mailbox`: validity, UIDs, seen flags); `pass` is
one coalesced pass, command by command, with what was read so far; followers wait for it. Each
command may fail, STATUS included (`Validity`, `Search`, `Header`, `Finish`), and the connection may be lost
before each (`Fail`). `unnoticed` is history: rows that were of another validity when STATUS told one and
none was known to compare it with.

**`InboundWatch`** – what arrives under each UID is given (`Mail`); a watcher takes its mark, and passes
read UIDs above it, with the server's habit of answering `n:*` with the last message (`Fresh`), the last `Limit` of
them (`LastOf`).
Soft counts are read and written in two steps.

**`PassiveContent`** – the URLs a message names, by kind; calls fetch, store, and rewrite stylesheets
from the text they read, beside each other; `sent` are the requests last made, decoys
included. `GiveUp` is the end of a stylesheet's time or bytes, `DropSheet` one that is too long, `SkipSheet` one
that failed or was answered as something else, `End` the end of a call by an exception or of the process;
`abandoned` is history: the stylesheets a call ended over.

**`ContentIdentity`** – which key a resource is kept under, as a function of what the mailbox cache
holds at a place; messages move, mailboxes are recreated, bodies come later, every start rewrites
keys.

**`MailboxMoves`** – UIDs and flags of two mailboxes, MOVE or COPY-STORE-EXPUNGE of two callers, and
another client that marks messages.

### 3.6 Knowledge and data

**`KnowledgeIndex`** – item, revisions, chunks and vectors; saves are one transaction, an indexing reads
chunks and writes vectors one by one, in any order, a restore reads and saves.

**`KnowledgeRetrieval`** – lists, searches, the scoped context and the legacy one, each read a step;
`wasIn` and `wasOn` collect which items were in scope and enabled at some moment of the call. Ranks
are any order.

**`StructuredData`** – one project's tables: schema, rows, unique indexes, migrations, idempotency keys,
and whether the newest audit event of a row still tells the truth. Mutations are one action each; an
import is one per row.

**`TableReads`** – pages cut from the stored rows in a sort order, overrides laid over them, with edits
and overrides between two pages.

Each module's data types are in its `TypeOK`, or in the comments of its VARIABLES in a few modules that have
none. Runs check it with the
invariants, and the proofs establish it, or what it says, for every module that section 6 names.

Three idioms recur:

* **`Loads`/`load`, `Mixes`/`mix`.** Some questions need two callers, others long sequences of one
  caller or crashes, and all of it at once is too much for TLC. The constant is a set of "what the
  clients of one behaviour do" (which callers, which operations, how many faults, crashes or not);
  `Init` picks one and it never changes. Properties that hold for a single caller only say so by
  `Alone`. The modules' actions do not depend on it except as a bound.
* **`overlapped`, `raced`, `torn`, `clean`.** History that becomes true (or false) when calls overlap
  in a way for which the property is not claimed; the property says so.
* **Union modules.** `MCApprovals`, `MCApplication`, `MCMail`, `MCRecords` and `MCProgress` hold several
  components in one state space. The components share no variable, so their product would add
  nothing but interleavings of independent steps. `component` says which of them a behaviour is about;
  the others stay in one initial state. Every property is the component's own, or joins those of
  two, guarded by `component` where it is an invariant with a type part. The reachable states are the union of those the
  components have by themselves.

## 4. Runs

| run | what it asks | instance and why it is enough |
|---|---|---|
| `delivery` | OneCopyPerLeg, ReportsAreTrue, EquivalentTakenOnce | 2 callers, 1 key, 1 content with 2 variants, 2 rows, window 1 on a clock of 3; 2 recipients, 2 attempts and every SMTP answer; a keyed, a forced and an individualized send; one bookkeeping fault, after which FailedMeansUndelivered and EquivalentTakenOnce are not claimed. Two legs show a mix of outcomes, two attempts a retry. |
| `progress` | DeliveryEnds, Settles (liveness), RateKept, NeverReinstated, ProxySafety | *delivery*: one caller (callers do not wait for each other inside the transport), one bookkeeping fault. *throttle*: 3 senders with legs without end, a second of 2 instants, limits of 2 for the server and 1 for each of 2 accounts and a domain: two legs that need different windows make the third wait for both, and may overtake it for ever. *provisioning*: one call at a time with 3 secrets, 3 faults and the switch; two calls at a time with 2 secrets and a fault, or with 3 secrets and none, so that one call may be overtaken by two rotations; one client that follows the interruption guide. Three secrets are active, previous and given up; three faults a loss, a crash and one more while recovering. The theorems cover all sizes. |
| `approvals` | ExactApproval, ImplementsOneShot, UnspentStaysOpen, NeverGuesses | 2 threads, 2 operations, 2 live states, 2 previews, TTL 1 on a clock of 3: ambiguous previews, expiry before and after each step, restarts |
| | SigningSafety | *tokens*: 2 threads, 2 tokens, 2 bindings, TTL 1 on a clock of 4. *signing*: 2 threads, 2 addresses, 3 keys: the first told, the second overwriting it (a rival's), and one too many |
| | ScopesSafety, UnassignedStays | either 2 callers, 1 project and crashes, or 1 caller and 2 projects; 1 item, 1 file, 2 references. Two projects are what a remaining scope needs after a deletion. |
| `application` | ServedOnce, NoResurrection, CompletedImmutable, TasksSafety | 2 clients on one task (tasks do not interact), 4 schedulings, period 1, clock of 3 |
| | RuntimeSafety, RuntimeSteps | 3 releases; one writer with 2 kills and a fault, which may be a download or the clearing of the control file; two writers with forced refreshes; a failing start script. *releases*: 2 callers, TTL 2, 4 instants, 2 releases, of which one is published while callers wait |
| | FilesSafety | *files*: 3 callers without a crash or 1 with; 4 files of 2 contents, limits of 2 files and 3 units, so that both limits are reached and contents are shared; every write may fail. *keys*: 2 threads, the 3 routines, 3 keys, 2 restarts, 1 failed write |
| | LinksSafety | 1 file saved up to three times, 1 page, 4 links of earlier releases (a chain among them), 2 threads, creation beside following beside composing |
| | TelemetrySafety | 2 visitors, 1 delivery with 2 links, two threads with two events or one with three, pauses inside and outside the burst and the retention: the burst of 1.9 s scores lowest. One of the two visitors comes from a source that names a proxy, which weighs in the score. |
| | IndexSafety | 1 item with a one-chunk and a two-chunk text, 2 callers, 3 revisions, 1 deletion of the item or its project |
| | RetrievalSafety | an item of the project, a global one that must always be told, one of another owner; a budget that holds two |
| `mail` | MirrorsAfterQuietPass | 2 UIDs, 2 askers, 1 recreation, 2 passes of which any command may fail: the second pass is the quiet one. The theorem covers all sizes. |
| | CachedCssIsLocal | one page with an action link, an image that is answered as text/css and a stylesheet that names it, 2 callers with 2 calls, any of which may end at any step |
| | KeptContentFollows | 2 messages that share a resource, 2 mailboxes, 1 move, 1 restart, 1 row of an earlier release |
| | NothingPassedOver, HardBounceHolds | 2 accounts with messages about one delivery (a soft bounce and a reply; a hard bounce, an automatic reply and a soft bounce), 2 passes each, bursts within the limit of 3, a person who suppresses or lifts, 1 restart |
| | NothingLost | 2 callers, 2 messages, 2 mailboxes, another client that marks |
| `records` | ImplementsAtMostOnce, WindowGuard, AnswersTruthful | 2 callers, 1 key, 1 content with 2 variants, 4 kinds of requests, 2 rows, window 1 on a clock of 3. Two rows make every kind of duplicate; the clock leaves the window behind while a caller holds an old stamp. The theorems cover all sizes. |
| | DataSafety | 1 table, a required column and one with a default and an allowed set, 2 rows, 1 key, 3 plans of migrations, one of which can fail at its second operation |
| | ReadsSafety | 3 rows in pages of 2, 5 possible overrides, 1 edit, 5 kinds of reads |
| | AccountsSafety | 2 accounts, one of them the environment's, 2 callers, 3 starts |
| | RecipientsSafety | 3 addresses, 6 kinds of letters, 3 legacies, with and without the Sent folder. One caller with 2 sends and an edit, or one send and 2 edits; 2 callers with 2 sends of whole messages and an edit: one edit falls between two reads or between question and transmission, two make a policy look empty that never was. |
| | OperationsSafety | 2 accounts, 2 sends of 2 shapes, 2 answers, a replay, an operation of the older format |
| `delivery_bookkeeping_fault` | EquivalentSendsOnce is violated | one caller, unkeyed sends, one fault: section 7.1 |
| `scopes_reference` | NoDanglingReference is violated | 2 callers, 1 project, no crash |
| `inbound_bounce` | SingleSoftBounceSpares is violated | one account, one message, three passes |
| `content_styles` | StylesShowTheirResources is violated | one page with one stylesheet |
| `signing_address` | PostsWhereApproved is violated | 2 threads, 2 addresses |
| `unsubscribe_tokens` | TokensResolve is violated | 1 thread, 1 key, 1 restart |

Deadlock checking is off in the unions: once the bounded ids, calls, faults or releases are used up,
clients may stop, and an application that runs need do nothing. It is on in `delivery`, where some
call or the clock is always possible.

Bounds (`Horizon`, `Max…`, `Files`, `Limit`) only limit how often a guard lets something new begin;
they disable no continuation of what has begun.

## 5. Fairness

`MCProgress!FairSpec` conjoins the fairness that the three modules state:

* `OutboundDelivery!Fairness`: weak fairness of the transport's own steps and of `_finish` for each
  caller. SMTP and SQLite calls end in an answer, an error or a timeout, so a call that reached the
  transport goes on. Nothing is assumed of new calls, crashes or the clock.
* `PrivacyProvisioning!Fairness`: weak fairness of a running call's steps, for the same reason
  (`_post_provision` has a timeout), and of `BeginReconcile`: the interruption guide
  (`docs/privacy-proxy-mcp-provisioning.md:208`) tells the client to approve `reconcile` when it
  sees phase `pending`. `Settles` is claimed for a single client that never deprovisions; faults
  are finitely many.

* `DeliveryThrottle!Fairness`: time goes on, and each thread takes its next round when it may run.
  Nothing is assumed of new legs, nor who comes first: `acquire` keeps no queue, so a stream of other legs can
  take the place a sleeper waits for again and again. `AcquireEnds` therefore says that a leg gets its places
  unless others take places it needs for ever (`Overtaken`); without that exception the run finds it violated.

In a behaviour about one of the three, the others wait in their initial states, where no step that
fairness speaks of is enabled; their fairness is then satisfied and assumes nothing.

Liveness is not claimed elsewhere: watchers, mailbox passes and indexing retry for ever under faults
that the code does not bound, so that they succeed is an assumption and not a property.

## 6. Proofs

Checked by TLAPS (SMT, Zenon, LS4), for every value of the constants that satisfies the ASSUMEs of
section 6.3. The theorems a reader should know of are in `PROJECT.json`, theorems; where one states a
property of a run, the run shows it on the instance of section 4 and the theorem for all of them.

### 6.1 The argument, module by module

Every safety theorem follows from an inductive invariant: it holds initially, every step keeps it, it
implies the property. TLC finds each of these invariants, written with quantifiers it can enumerate, true of the instances of section 4. What the property
alone lacks is named here.

* **`OutboundSafetyProofs`.** `Inv1` = `TypeOK` ∧ `OwnedProgress` (a caller in its callback holds a
  row in progress that nobody else holds); `OwnedProgress` is needed because `Finish`
  writes by id and must not disturb a settled row. A lemma (`TableSteps`) classifies the steps as
  seen by the table: insert, settle, or nothing. From it follow `OncePerKey`, `GuardedWindow` and
  `RowsFinal`, each by the three kinds of steps. `GuardedWindow` uses that the stamp of a new row
  is the one the window was computed from, not the current clock. `TruthfulAnswers` strengthens
  the invariant by what each caller still remembers of its own request (`HeldMatches`).
  `Refinement` maps each kind of step to a step of `AtMostOnce` or a stutter, with `OncePerKey`
  making the mapping well-defined.
* **`OutboundDeliveryProofs`.** Every step of the transport is one of the opaque callback or a stutter, by construction of the
  actions (lemma `DeliveryRefinesLedger`), so that each theorem about the ledger is one about the delivery. `DeliveryInv` then relates where a caller is in the transport to what the server took:
  the legs after its own are untouched, the answer it has in hand is true of its own
  (`LegKnown`), what it lists was taken (`ListKnown`), and the rows others hold are not touched
  (`RowKnown`, which needs `OwnedProgress`). Theorems: `OnceTaken`, `ReportsTrue`, and
  `EquivalentOnce`: while no bookkeeping fails, equivalent sends within the window reach the server
  once – the exact condition under which the finding of section 7.1 does not occur.
* **`ApprovalsProofs`.** *Previews*: `IInv` = `TypeOK` ∧ `StampsBehind` (no caller's clock is ahead) ∧
  `Spending` (a row that authorised something is consumed or purged and expired) ∧ `HeldSpent` ∧
  `ExactApproval` ∧ `UnspentStaysOpen`. `StampsBehind` is what makes a purge by a stale clock
  harmless. Theorems: `TypeCorrect`, `OneShot`, `ExactlyApproved`, `NoFalseDenial`, `Unambiguous`,
  and `Refinement` of `OneShotApproval`. *Tokens*: that a confirmed caller's token was used (`Confirmed`) is what keeps a
  second caller from spending it; and whoever still holds a token that has expired held it when it expired (`Straddling`).
*Signing key*: once a key was told there is one, so that who still stores one had found none before (`SigningInv`). *Scopes*: `ScopesInv` says
  how far a deletion has come and what its caller has in hand (`CallAgrees`: the affected items are
  those that were read, a detached project is named nowhere), that the rows about to be inserted are counted
  (`RefsFit`), and that an item whose column and rows disagree is being saved or had a revision restored that was
  refused afterwards (`RowsAgree`, `BeingSaved`, `Restored`). `UnassignedForGood` needs that an item with a primary scope was not left
  Unassigned, since the backfill of a start would otherwise give it one.
* **`TaskRegistryProofs`.** `IInv` = `TypeOK` ∧ `LockHeld` (who completes holds the lock, and one
  only) ∧ `Fresh` ∧ `Held` (the version a completion read is unserved as long as it is current) ∧
  `ServedOnce` ∧ `OpsTimed` ∧ `RowConsistent`. Theorems: `TypeCorrect`, `ServedAtMostOnce`,
  `Consistent` and `DeletedForGood`. While calls do not overlap, `Orderly` adds that there is one
  note at most, that it still fits the row it was made of (`NoteFits`), and that each row is
  what its latest event tells; from it `ScheduleAndHistory` and `CompletedForGood`.
* **`MailProofs`.** *Moves*: a copy remains that is neither marked nor the source of a caller between
  COPY and STORE (`CopyRemains`); it has a UID above all that calls can name. *Cache*:
  whenever the known UIDVALIDITY is the server's, all cached headers but the `unnoticed` ones are of it
  (`KnownIsCurrent`, `ToldIsCurrent`), through passes that failed half-way, validities lost with a failed STATUS and
  mailboxes recreated under them; `CleanPass` is
  what an undisturbed pass has reached at each command. *Stylesheets*: a cached text with remote
  addresses is still before some call that will go over it, or one was ended over it, or it is linked as no
  stylesheet (`RawIsPending`). *Inbound*: whatever lies below the mark, or
  below what a pass has read or is to read, is done (`Marked`, `Underway`). *Content identity*: what is kept of a
  message stands under a key made of its header and bytes only (`KeptStands`), and a page whose message was
  held with its body when its keys were made lands under such keys (`PagesFit`), wherever the message has
  moved meanwhile. A start goes over the rows one by one, each under the keys the ones before it left: on the
  trace of that fold (`RekeyTrace`), a row under a stable key stays, unless its own place gives another key.
* **`ApplicationProofs`.** *Lookups*: what the cache knows is right up to an instant that has passed (`KnownWell`);
  without that bound a release published later would spoil it. *Key files*: one thread fills the file at
  a time (`OneFills`), and while there is no file nobody has a key (`KeysAgree`). *Files*: the limits
  are kept because one save at a time is between check and INSERT (`OneSaves`), and its file, which
  nobody deletes, still fits; bytes without a row are about to get one or to be unlinked, or were left behind
  (`BlobsWanted`), and a caller alone finds the bytes it counts on (`AloneFinds`). *Index*: what an indexing has still to
  write is a vector of the text that is there, unless it was overtaken (`RowsFit`), and every
  revision that is kept could be saved again (`RevisionsFit`). *Runtime*: nobody writes the control file between its
  reading and its clearing (`NobodyWrites`), what is fetched is the one-shot release if there is one
  (`FetchesRight`), a single writer has its temporary file to itself and the approved release is not
  given up before it was started (`OwnFile`, `KeepsApproval`), and without kills the release that
  works is on disk wherever a lookup or download may fail (`NeverStranded`). *Links*: `LinksInv` says
  that a link made for a message leads to no link of ours and older ones only to links, pages and files
  that exist (`LinkFits`, on which `Hop` relies), that what was told of a key is the row that holds it, which
  a revocation does not change (`KeysFit`), and that the file of a request that was resolved is still that file, or gone, or
  saved after the request (`ResolvedStill`): a clock that every save moves on is what tells the
  incarnations apart. *Retrieval*: what a call has in hand was in scope and enabled when it read it (`CallHolds`),
  whatever is edited between the reads; pinned sources stand before all others of a package (`PinnedFirst`),
  without which the budget could be spent before their turn. *Tracking*: an open of the instant of a
  request is its own, and is there once the request has inserted it (`InstantsOwned`), so the row that is
  found by instant is the right one; every private row names an event of its own instant and address
  (`SidecarNames`), so joining by id shows no other. *Classification*: the sorted clicks exist, one at each
  place, by counting those before (`SortedClicks`); the walk stops at the nearest click on another link,
  on either side (`WalkFinds`), and a score is a bounded sum (`ScoreIs`) that company brings to 70 or more
  (lowest: 5 and the 70 of the slowest burst) and that without company and other visitors stays below.
* **`RecordsProofs`.** *Recipients*: whom the policy names, which of its tables is empty and who is not suppressed at a moment
  of a call is remembered of that call (`Remembers`), so that what was read of one table still fits when the other
  is read, whatever was edited in between (`Consulting`, `Fitting`), and whoever has passed was named, or both
  tables were seen empty (`LetPass`, `Cleared`). The policy of an earlier release is all there is until it is
  migrated (`PolicyFits`). *Accounts*: at most one account is the
  default, and it is the one chosen last unless a deletion fell into the choice (`AccountsFit`); the default
  that nobody chose is the oldest row, which there is because creations are numbered (`OldestIs`, by the
  well-foundedness of the naturals). An import is marked or about to be (`ImportFits`). *Index of sent mail*: the
  rows of an operation are those of its send, or those of the older format until the store is opened
  (`RowsFit` in `TablesFit`), and every Message-ID names one send; so that an answer which names a
  message of ours finds the row of that send or none (`ReferenceNames`, `ResolvedIs`), and what was told of
  an answer still stands (`AnswerFits`), since rows are only added (`RowsStay`). *Structured data*: a row that is there
  is on the audit trail, which forgets none (`TrailKnows`); the keys of imported rows are used by inserts only
  (`RowKeysFit`), and those before the position of an import have been used (`RowsImported`), so that one row
  stands for each; no two applied migrations made the same index (`MigrationsFit`), since an index that is there
  is refused, so a rollback takes none of another's; an upsert is a fold over its batch, taken step by step. *Reads*: the rows a read has told are a
  beginning of every order of what it will tell (`ReadFits`, `Leads`), for a column without equal values
  has one order only; a page that is not full is the last.
* **`ProgressProofs`.** *Throttle*: what a queue has lost is a second old, so of every age below a second its newest entries
  are as many and as new as the places that were granted (`QueueKeeps`), through all the windows a round
  reads and writes. *Provisioning*: however many calls overlap, a secret belongs to one
  request (`OneRequest`), and no request is more than one generation ahead of the newest that was configured,
  nor is the Worker (`Ordered`); hence a request that the Worker takes up finds the configured secret active, which
  the grace then keeps (`AdvanceIs`, `GraceKept`). Every step is of one of five kinds (`Moves`), and each kind keeps
  this. With one call at a time the generations tell more: what is late, pending or carried is of the
  generation after the row's, or older (`Standing`, `Underway`), which is what brings both sides together again
  after whatever was lost. A secret that was given up is carried only by requests of generations the
  Worker has left behind (`GivenUp`), which it never takes up: `NothingReinstated`.

### 6.2 From a component to its union

`MailProofs`, `ApprovalsProofs`, `ApplicationProofs`, `RecordsProofs` and `ProgressProofs` speak of the state spaces the runs check. Each
part's invariant is proved of its own `Next`, and a step of another part leaves its variables alone
(the lemmas named `…Turn`, `…Turns`, `…Rest` or `…Beside`); so each theorem about a component by itself (`QuietPassMirrors`,
`MarkPassesNothing`, …) is one about the union.

### 6.3 What is assumed of the constants

* sets are what they are called, bounds are naturals, `NoKey` is no key, `NoCaller` no caller, and the
  sets from which an initial state is chosen (`Loads`, `Mixes`, `Routines`) are not empty;
* `ScopesAssumption`: finitely many callers, since the rows about to be inserted are counted;
* `MovesAssumption`: finitely many messages, with UIDs from 1 on at first, and UIDs enough for them;
* `LinksAssumption`: the links of earlier releases lead to pages, files and links among them;
* `IdentityAssumption`, `DataAssumption`, `ReadsAssumption`, `RetrievalAssumption`, `TrackingAssumption`: rows of
  earlier releases, batches, plans, overrides, questions, items and requests have the shape the code gives
  them; the rows of a table, the items and the rows of earlier releases are finitely many, which sorting and
  counting need; pauses, sizes and limits are naturals; and what a cut of a text adds is not more than it takes
  away (`Marker`, `Cut`);
* `BurstsFit`: what arrives in an account fits in one pass (500 messages, `postmaster/mail_v950.py`);
  beyond it the code itself gives the older ones up, so that `NothingPassedOver` would not hold;
* `RecordsAssumption`: letters, policies of earlier releases and operations of the older format are of the shape
  the code gives them, what a policy spells are addresses and domains, and an operation of the older
  format was one message to somebody;
* `ProgressAssumption`: no leg of the throttle needs no window at all, limits and the second are positive,
  and the loads of provisioning stay within the secrets and faults there are.

TLC evaluates all of them, for the constants of each run.

### 6.4 Only model-checked

Only the liveness properties: `DeliveryEnds` (with `AcquireEnds`) and `Settles`. They rest on fairness, hence
on ENABLED, which these provers do not reason about.

Induction over data needs no exception. The library's induction theorems take an operator as a parameter, which
none of the provers can instantiate, so the proofs do without: what a fold over a sequence leaves is shown
on the trace of its intermediate results (`FoldLeft` is a recursive function on the sets of indices), and where a quantity grows by
one, the least counterexample is taken, which the naturals have because they are well-founded.

Proved and not checked by a run of its own: `OncePerKey`, `RowsFinal`, `OneShot`, `ProgressOwned`
and the type invariants of the first modules, which follow from or strengthen what the
runs check. No module has a RECURSIVE operator.


## 7. What the code does not keep

### 7.1 Findings with a run

* **`delivery_bookkeeping_fault`.** `_reliable_transport` writes `delivery_attempts` after the
  server took the message, inside a `try` that only catches `_SMTPAttemptFailure`
  (`postmaster/mail_v950.py:415`). When the INSERT fails (disk full, database locked), the error
  reaches `execute`, which records the row as *failed* (`postmaster/outbound_safety.py:302`), and
  the near-duplicate guard lets the same visible message go out again. The comment at
  `postmaster/outbound_archive_v969.py:177` promises the opposite.
* **`scopes_reference`.** `create_job` and `create_execution_profile` check the project in a SELECT
  (`postmaster/scheduler_engine.py:607`) before their INSERT opens a transaction. The INSERT waits
  for a running deletion to commit and then stores a job of a deactivated project. The comment at
  `postmaster/project_service.py:274` says this cannot happen.
* **`inbound_bounce`.** A pass searches `UID mark+1:*` (`postmaster/mail_v950.py:682`), which a server
  answers with the last message when none is newer, and every IDLE event starts a pass. The newest
  message is processed again each time, and `record_bounce`
  (`postmaster/delivery_reliability.py:369`) counts its soft bounce once per pass, until the
  recipient is suppressed. `README.md:765`: "A single soft bounce never creates permanent
  suppression."
* **`content_styles`.** `resource_response` empties every `url()` of a stylesheet it serves
  (`postmaster/webgui_v963.py:505`), also the local references that `_process_stylesheets` has just
  written there: the nested resources are fetched and never shown. `CHANGELOG.md:152` says they
  are rewritten to local references.
* **`signing_address`.** `execute` consumes an approval bound to the stored address and then reads
  the address again to post the request (`postmaster/privacy_provisioning_v966.py:582`). A
  `prepare_provisioning` for another address that runs in between sends the signed request there.
  `docs/privacy-proxy-mcp-provisioning.md:210`: "Approval never carries across changed
  action/origin/key/generation/state."

* **`unsubscribe_tokens`.** `_load_or_create_key` generates 48 raw bytes and keeps them, but strips white
  space from what it reads when the process starts again (`postmaster/unsubscribe.py:50`). About one
  key in twenty begins or ends with such a byte; then the links of every message sent before the
  first restart are answered with 404. `tests/test_v9_6_0_scopes_unsubscribe_ui.py:115` expects of a
  token that was given out: `manager.resolve(token)` is `"delivery-123"`, and the file exists to
  make that so after a restart.

### 7.2 What does not hold, and is therefore not claimed

Counterexamples met while modelling; the properties of the runs are stated so as to exclude exactly
them. Where a statement of the repository is contradicted, the module keeps it as a definition that
no run checks; its name is given.

* *Approvals.* The binding is computed from the live state before `consume_matching`
  (`postmaster/pending_approval_v969.py:149`). When the state changes in between, a row bound to
  the old state is consumed. `ExactApproval` therefore speaks of the state the caller read.
* *Tokens.* `_consume_nonce_once` reads the clock again (`postmaster/confirmation_v967.py:233`) after
  the token was authenticated. At the expiry, its purge removes the nonce of the first use and the
  INSERT succeeds a second time; the docstring at line 90 speaks of one-time consumption.
  `OnceWhileValid` therefore ends with the validity, and `OnlyStraddlersReplay` says who may replay the token then.
* *Signing key.* `_prepare_key` looks for a key and stores one in two transactions
  (`postmaster/privacy_provisioning_v966.py:230`): of two first preparations at once, the second to store replaces
  the key that the first has told, and that may be pinned in the Worker already. `ToldKeyStays` allows exactly
  that rival.
* *Tasks.* `update_job`, `pause_job` and `resume_job` check the status in a SELECT and write by id
  (`postmaster/scheduler_engine.py:751` and `:783`); a completion between the two is overwritten,
  against "Completed jobs are immutable" at line 752. Hence `~overlapped`.
* *Scopes.* `_apply_scopes` (`postmaster/runtime_v960_knowledge.py:58`) and `update_item`
  (`postmaster/knowledge_store.py:329`) write back a project they read before a deletion detached
  it (`CHANGELOG.md:276`): `DeletedIsDetached` is claimed for one caller.
  `restore_knowledge_revision` (`postmaster/runtime_v960_knowledge.py:663`) writes the project of a revision
  into the item and only then asks whether it is active: a deleted project is named again, and the
  scope rows stay behind the column. `DeletedIsDetached` and `PrimaryAgrees` allow exactly those items. An edit without scopes
  makes an Unassigned item Global (`postmaster/runtime_v960_knowledge.py:55`, against
  `postmaster/webgui_v962_views.py:258`): `UnassignedStays` excludes saves of the item. A crash
  between `update_item` and `_apply_scopes` leaves column and rows apart: `PrimaryAgrees` excludes
  it.
* *Provisioning.* A deprovision whose answer is lost leaves the Worker one generation ahead with no
  pending record, so no later operation is accepted (`postmaster/privacy_provisioning_v966.py:621`,
  `docs/privacy-proxy-mcp-provisioning.md:208`): `Settles` is claimed without deprovision. Two
  approved provision calls overwrite each other's pending secret (`:602`, doc line 124): `SecretHeld`
  and `InStep` are claimed for one call at a time. `_promote` reads the switch before it writes it
  back with the secret (`:297`) and undoes a disable in between (doc line 128). It writes its secret
  and generation without looking at the row's: a call that was verified, and whose pending operation a
  second call reconciled before it rotated further, writes the older secret back, which the Worker no
  longer accepts after a second rotation or the grace. `DuringGrace` therefore speaks of the newest
  generation that was configured (`newest`), and of the secret in use for one call at a time.
* *Runtime.* A kill between `rm -f` and `ln -s` of the symlink leaves no release to fall back to when
  the lookup then fails (`postmaster-mcp.yml:294`, `README.md:101`): `KeepsWorkingRelease` is
  claimed without kills. Two writers share one temporary file
  (`postmaster/runtime_control.py:144`): `InstalledAsAccepted` is claimed for one. The one-shot
  release is cleared before `start.sh` ran (`postmaster-mcp.yml:307`,
  `docs/MCP_LIFECYCLE_V967.md:60`): `FirstRestart` is claimed for start scripts that work. When the control file
  cannot be cleared, the release is started all the same (`postmaster-mcp.yml:313`), and the next start runs the
  one-shot release once more: `OneShotServedOnce` allows the name that could not be taken back.
* *Files.* `delete` unlinks the blob after releasing the lock (`postmaster/file_store.py:342`); a save
  of the same content in between keeps its row and loses its bytes (compare
  `tests/test_file_store.py:61`): `StoredHasBlob` is claimed for one caller. An INSERT or a commit that fails after
  the bytes were renamed into place (`postmaster/file_store.py:184`), an unlink that fails and a crash
  leave bytes without a row, and so does a deletion whose id was saved anew between its reading and its commit:
  the new row goes, the old bytes are unlinked, the new ones stay. `NoOrphanBlob` names those.
* *Sending.* A mailbox check by `recipient_authorization_status` and the sending of
  `_validate_recipients` (`postmaster/mail_extensions.py:461`) disagree when no policy is set: the
  first says no, the second sends (`StatusIsKept`, `postmaster/server.py:334`). The environment's
  domains are seeded with a SELECT and an INSERT apart. The suppression list is asked once for each leg
  (`postmaster/mail_v950.py:382`), before the throttle sleeps and before every retry: who is suppressed after that is
  still written to. `_validate_recipients` reads the addresses and the domains on two connections
  (`postmaster/mail_extensions.py:464`): edits in between can make a policy look empty, and let everyone pass,
  that had entries all the time. `NoneBehindThePolicy` excludes both. One's own address in the Cc of a reply is
  recorded although it is not in the envelope.
* *Accounts.* The forms answer a save, a deletion of the default and other changes with
  `get_account`, which refuses a disabled account: "failed" after the row was committed
  (`SaveTellsTruth`). A set_default whose account is deleted under it clears the default and sets none:
  `ChosenAnswers` is silent from there to the next choice (`raced`). The environment's account is imported again after
  each end of the process between the import and its marker (`torn`). A disabled default keeps the partial unique index occupied, so that the first
  new account is refused although none is enabled (`CanBeAdded`,
  `postmaster/account_store.py:260`).
* *Inbound.* An answer of a person whose text reads like a bounce is taken for one
  (`postmaster/mail_protocols.py:267`) and its delivery keeps waiting (`AnswersAreNoted`,
  `CHANGELOG.md:405`). After a reconnect no pass is started before the next event
  (`postmaster/imap_idle.py:156`); the first pass after a start only sets the mark.
* *Mailbox cache.* The UIDVALIDITY is recorded when a pass ends, and as None when STATUS failed
  (`postmaster/mailbox_cache_v963.py:584`). A mailbox recreated between headers that were stored and the next
  STATUS that is told, with no validity to compare it with, goes unnoticed: old rows are taken for rows of the new mailbox
  (`CHANGELOG.md:254`, `postmaster/mailbox_cache_v963.py:64`). `MirrorsAfterQuietPass` speaks of UIDs and flags
  all the same, and of all headers but those. A body fetched by UID while the mailbox is recreated is stored
  under the new header. A UID that vanished is told as "moved".
* *Passive content.* The classification of a URL found in a stylesheet does not look at its path, so
  that one that says unsubscribe is fetched (`ActionUrlsSilent`, `postmaster/privacy_css_v969.py:59`,
  `CHANGELOG.md:256`). A stylesheet is kept as it came (`postmaster/privacy_cache_v969.py:610`) until it is rewritten
  (`postmaster/privacy_css_v969.py:409`): a call that ends in between leaves its remote addresses in the cache,
  and nothing goes over a row that was answered as text/css where an image was linked. `CachedCssIsLocal` allows
  both; what `resource_response` serves of a stylesheet has every `url()` emptied. A start makes each row's key anew from what the cache holds at the place the row
  was first seen at; after a move another message or none is there, and what was fetched is lost
  (`StartKeepsContent`, `postmaster/privacy_cache_v969.py:123`).
* *Mailboxes.* EXPUNGE takes whatever else is marked in the mailbox (`TakesOnlyItsOwn`,
  `postmaster/mail_extensions.py:1246`, against "Move one email" at `postmaster/server.py:547`):
  `NothingLost` speaks of messages nobody else marked.
* *Links.* A generic link "may be used … not only email" (`postmaster/runtime_v982.py:74`), but a
  message that contains one is refused, because the detracking of mail does not know its token
  (`LinkUsableInMail`). The signature of a URL that expires binds the id alone (`postmaster/file_handoff.py:126`):
  a file saved again under the id is served through it until then (`ServedExactly`). A crash between creating and filling the secret file of downloads leaves
  an empty one, over which no later start writes (`postmaster/file_handoff.py:100`):
  `EmptyIsBeingFilled` excludes creations that were cut short. A key whose fsync fails may have been
  read by another thread before its file is removed: `OneKey` excludes it (`unsynced`). Whoever loses
  the race for the unsubscribe key takes the text it finds, even an empty one
  (`postmaster/unsubscribe.py:59`): `OneKey` lets that routine sign with it.
* *Tracking.* A burst is told by queries that read all clicks of a delivery; one restricted to a link
  does not read its neighbours (`BurstToldByLink`, `CHANGELOG.md:465`,
  `postmaster/link_tracking_queries.py:88`). The private row of an open is found again by its instant
  (`postmaster/tracking_telemetry_v971.py:190`): of two opens of one delivery in the same microsecond, the newer
  row may get the address of the other. `ShowsItsOwnAddress` excludes that coincidence.
* *Structured data.* An upsert whose conflict columns are not unique updates every matching row and
  audits one (`AuditTellsRows`, `postmaster/structured_data_v980.py:1486`,
  `docs/structured-data-v980.md:53`). When a query does not select an overridden column, the override is laid over
  the row all the same, and the original value it tells is None (`OriginalIsTold`, doc line 57). An
  export is cut at 1,000 rows although it accepts a limit of 100,000.
* *Knowledge.* `restore_knowledge_revision` writes the project of the revision back before it checks
  it (`NoneInDeleted`, `postmaster/runtime_v960_knowledge.py:663`, `CHANGELOG.md:276`). A vector
  computed while the item is saved stands under the new text: `VectorOfItsText` excludes that
  overlap. Without a query the global context lists the owner's items of every project
  (`GlobalContextIsGlobal`, `postmaster/context_engine.py:223`, `README.md:239`). The scoped search
  ranks first and filters the best hundred; the joined `context_text` is longer than `used_chars` by
  its separators.

## 8. Left out

Abstractions: texts, addresses and payloads are opaque values; hashing, signing and encryption are
taken as sound; formatting, logging and rendering are left out. Times are instants or milliseconds,
and a time to live is a number of them. One owner, one account and one folder stand for all where
rows of different ones never meet in a query.

Not modelled:

* inbound inspection: functions of one message's text without state;
* remote file download: one bounded request whose result is saved by the modelled store;
* composition of the server: the order of layers decides which body is live, and the modules follow
  the live ones;
* WebGUI: forms and pages over the modelled operations;
* model preparation: one download at start, whose failure leaves the lexical search.

Partly modelled, and what is missing:

* SMTP transport: building and health checks of messages;
* knowledge scopes: several owners, and permissions by owner; an import that leaves an item it finds
  as it is and only applies the scopes of the bundle to it;
* privacy proxy Worker: the image fetch, and the nonce table, because every POST carries a fresh
  nonce;
* runtime control: the pinned version of the bootstrap;
* file store: `update_metadata`, which changes names and tags only;
* structured data: two imports at once (one runs beside other writers), free SELECT texts, the listings of the catalogue, the column types;
* delivery reliability: metrics, which are sums of rows;
* unsubscribe and classification: the key of the links is in `KeyFiles`, what an unsubscribe request does
  in `InboundWatch`, the confirmed suppressions in `Recipients`, the scores of clicks in
  `ClickClassification`; the text of headers and placeholders is left out;
* stored-file links: byte ranges, names and headers of the answer;
* tracking: queries that only count, the rewriting of HTML;
* mailbox operations: searches and reads, which change nothing.

Each component's entry in `PROJECT.json` says the same of the lines it names.

## 9. Running it

In this directory: `tlc -workers 2 -config MCOutboundDelivery.cfg MCOutboundDelivery` checks a model
(every `MC*.cfg` belongs to the `MC*.tla` named in `PROJECT.json`, runs), `tlapm
OutboundSafetyProofs.tla` a module of proofs. Every run takes less than five minutes on two cores,
`ApplicationProofs` and `RecordsProofs` about ten minutes each, the other proofs a few minutes each.
