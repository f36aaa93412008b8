------------------------ MODULE PrivacyProvisioning ------------------------
(***************************************************************************)
(* Provisioning of the Privacy Proxy: privacy_proxy_provisioning_execute   *)
(* (privacy_provisioning_v966.py) against the Worker of                    *)
(* ProvisioningWorker.                                                     *)
(*                                                                         *)
(* Postmaster keeps one row (generation, provisioned, pending secret) and, *)
(* in another table, the secret and the switch the proxy uses.  Every      *)
(* SELECT, UPDATE and POST is a step of its own: nothing excludes a second *)
(* execute call.  A POST or its answer may be lost, and a POST given up    *)
(* after the timeout may still arrive.  The process may die between any    *)
(* two steps.                                                              *)
(*                                                                         *)
(* The one-time token of a call is ConfirmationTokens; here it is spent by *)
(* Begin, whose guard is the state the token is bound to.  The signing key *)
(* is prepared and pinned, one Worker URL is configured, and the legacy    *)
(* ways to set a secret are not used.                                      *)
(***************************************************************************)
EXTENDS ProvisioningWorker

CONSTANTS Callers,     \* threads that run an execute call
          MaxSecret,   \* bound: secrets ever generated
          MaxFaults,   \* bound: losses, failures and crashes
          Loads        \* bound: what the clients of one behaviour do

\* what is assumed of the constants; the module that instantiates them asserts it
ConstantsAssumption ==
  /\ MaxSecret \in Nat \ {0}
  /\ MaxFaults \in Nat
  /\ \A d \in Loads :
       /\ d.callers \subseteq Callers
       /\ d.operations \subseteq {"provision", "rotate", "reconcile", "deprovision"}
       /\ d.secrets \in 0..MaxSecret /\ d.faults \in 0..MaxFaults
       /\ d.admin \in BOOLEAN

VARIABLES
  load,     \* the threads at work, the actions they ask for, how many secrets
            \* and faults there are, and whether an administrator uses the switch
  row,      \* privacy_proxy_provisioning: generation, provisioned, pending
  secret,   \* privacy_proxy_config.secret_enc
  enabled,  \* privacy_proxy_config.enabled
  newest,   \* history: the newest generation that was configured, and its secret
  calls,    \* the execute call of each thread
  worker,   \* the Worker's secret state
  late,     \* POSTs given up that may still reach the Worker
  fresh,    \* secrets generated so far
  faults    \* faults so far

local == <<load, row, secret, enabled, newest>>
vars == <<local, calls, worker, late, fresh, faults>>

Gens == 0..(2 * MaxSecret + 1)
Secrets == 0..MaxSecret

NoPending == [op |-> "none", gen |-> 0, secret |-> NoSecret]

(* PendingSecret; NoPending when the columns are cleared. *)
Pendings == [op : {"provision", "rotate"}, gen : Gens, secret : Secrets] \cup {NoPending}

Idle == [pc |-> "idle", req |-> NoPending, on |-> FALSE]

Calls == [pc : {"idle", "save", "read", "sent", "accepted", "refused", "verified",
                "configure", "promote", "finish"},
          req : Requests(Gens, Secrets) \cup {NoPending}, on : BOOLEAN]

Init ==
  /\ load \in Loads
  /\ row = [generation |-> 0, provisioned |-> FALSE, pending |-> NoPending]
  /\ secret = NoSecret
  /\ enabled = FALSE
  /\ newest = [gen |-> 0, secret |-> NoSecret]
  /\ calls = [c \in Callers |-> Idle]
  /\ worker = EmptyWorker
  /\ late = {}
  /\ fresh = 0
  /\ faults = 0

At(c, pc) == calls[c].pc = pc

Goes(c, pc) == calls' = [calls EXCEPT ![c].pc = pc]

Asks(c, pc, op, gen, s) ==
  calls' = [calls EXCEPT ![c] = [Idle EXCEPT !.pc = pc, !.req = [op |-> op, gen |-> gen, secret |-> s]]]

Returns(c) == calls' = [calls EXCEPT ![c] = Idle]

(* The secret of the caller's request, or none, is configured. *)
Configures(c, s) ==
  /\ secret' = s
  /\ newest' = IF calls[c].req.gen > newest.gen THEN [gen |-> calls[c].req.gen, secret |-> s] ELSE newest

Fault == faults < load.faults /\ faults' = faults + 1

(***************************************************************************)
(* execute: the binding is computed from one SELECT and the token spent    *)
(***************************************************************************)

(* _binding without "pending rotation exists". *)
BindsPending(op) ==
  CASE op = "provision" -> ~row.provisioned
    [] op = "rotate" -> row.provisioned
    [] op = "deprovision" -> row.provisioned
    [] op = "reconcile" -> row.pending # NoPending

(* What _binding requires of the row for each action. *)
Binds(op) ==
  CASE op = "provision" -> row.pending = NoPending /\ ~row.provisioned
    [] op = "rotate" -> row.pending = NoPending /\ row.provisioned
    [] op = "deprovision" -> row.pending = NoPending /\ row.provisioned
    [] op = "reconcile" -> row.pending # NoPending

(* provision and rotate generate a secret; deprovision posts at once. *)
BeginSecret(c, op) ==
  /\ op \in load.operations \cap {"provision", "rotate"}
  /\ At(c, "idle") /\ Binds(op) /\ fresh < load.secrets
  /\ fresh' = fresh + 1
  /\ Asks(c, "save", op, row.generation + 1, fresh + 1)
  /\ UNCHANGED <<local, worker, late, faults>>

BeginReconcile(c) ==
  /\ "reconcile" \in load.operations
  /\ At(c, "idle") /\ Binds("reconcile")
  /\ Goes(c, "read")
  /\ UNCHANGED <<local, worker, late, fresh, faults>>

BeginDeprovision(c) ==
  /\ "deprovision" \in load.operations
  /\ At(c, "idle") /\ Binds("deprovision") /\ row.generation + 1 \in Gens
  /\ Asks(c, "sent", "deprovision", row.generation + 1, NoSecret)
  /\ UNCHANGED <<local, worker, late, fresh, faults>>

(* _save_pending overwrites whatever pending material there is. *)
SavePending(c) ==
  /\ At(c, "save")
  /\ row' = [row EXCEPT !.pending = calls[c].req]
  /\ Goes(c, "read")
  /\ UNCHANGED <<load, secret, enabled, newest, worker, late, fresh, faults>>

(* _pending: the row is read again and what it holds is posted; provision  *)
(* and rotate post their own secret when it holds none, reconcile returns. *)
ReadPending(c) ==
  /\ At(c, "read")
  /\ LET q == IF row.pending = NoPending THEN calls[c].req ELSE row.pending IN
       IF q = NoPending THEN Returns(c) ELSE Asks(c, "sent", q.op, q.gen, q.secret)
  /\ UNCHANGED <<local, worker, late, fresh, faults>>

(***************************************************************************)
(* The POST to /provision and its answer                                   *)
(***************************************************************************)

(* The Worker handles the request a caller waits for. *)
WorkerHandles(c) ==
  /\ At(c, "sent")
  /\ worker' = After(worker, calls[c].req)
  /\ Goes(c, IF Accepts(worker, calls[c].req) THEN "accepted" ELSE "refused")
  /\ UNCHANGED <<local, late, fresh, faults>>

(* The Worker handles a request whose caller gave up. *)
WorkerHandlesLate(q) ==
  /\ worker' = After(worker, q)
  /\ late' = late \ {q}
  /\ UNCHANGED <<local, calls, fresh, faults>>

(* A request that never arrives, or with a time stamp too old by then. *)
RequestDropped(q) ==
  /\ late' = late \ {q}
  /\ UNCHANGED <<local, calls, worker, fresh, faults>>

(* worker_provisioning_network_error: the request is still under way, or   *)
(* was handled and its answer is lost.                                     *)
GivesUp(c) ==
  /\ calls[c].pc \in {"sent", "accepted", "refused"}
  /\ Fault
  /\ late' = IF At(c, "sent") THEN late \cup {calls[c].req} ELSE late
  /\ Returns(c)
  /\ UNCHANGED <<local, worker, fresh>>

(* worker_provisioning_rejected; the pending material stays. *)
Refused(c) ==
  /\ At(c, "refused")
  /\ Returns(c)
  /\ UNCHANGED <<local, worker, late, fresh, faults>>

(* _verify_health with the pending secret; a failure leaves it pending. *)
HealthVerified(c) ==
  /\ At(c, "accepted") /\ calls[c].req.op # "deprovision"
  /\ calls[c].req.secret \in Valid(worker)
  /\ Goes(c, "verified")
  /\ UNCHANGED <<local, worker, late, fresh, faults>>

HealthRejected(c) ==
  /\ At(c, "accepted") /\ calls[c].req.op # "deprovision"
  /\ calls[c].req.secret \notin Valid(worker)
  /\ Returns(c)
  /\ UNCHANGED <<local, worker, late, fresh, faults>>

(***************************************************************************)
(* _promote: the switch is read, written back with the secret, then the    *)
(* row is updated                                                          *)
(***************************************************************************)

PromoteReads(c) ==
  /\ At(c, "verified")
  /\ calls' = [calls EXCEPT ![c].pc = "configure", ![c].on = enabled]
  /\ UNCHANGED <<local, worker, late, fresh, faults>>

(* A proxy that is switched off keeps the secret it had. *)
PromoteConfiguresEnabledOnly(c) ==
  /\ At(c, "configure")
  /\ Configures(c, IF calls[c].on THEN calls[c].req.secret ELSE secret)
  /\ enabled' = calls[c].on
  /\ Goes(c, "promote")
  /\ UNCHANGED <<load, row, worker, late, fresh, faults>>

PromoteConfigures(c) ==
  /\ At(c, "configure")
  /\ Configures(c, calls[c].req.secret)
  /\ enabled' = calls[c].on
  /\ Goes(c, "promote")
  /\ UNCHANGED <<load, row, worker, late, fresh, faults>>

Promote(c) ==
  /\ At(c, "promote")
  /\ row' = [generation |-> calls[c].req.gen, provisioned |-> TRUE, pending |-> NoPending]
  /\ Returns(c)
  /\ UNCHANGED <<load, secret, enabled, newest, worker, late, fresh, faults>>

(***************************************************************************)
(* _finish_deprovision                                                     *)
(***************************************************************************)

(* configure(secret="", enabled=False) after the Worker's answer. *)
DeprovisionConfigures(c) ==
  /\ At(c, "accepted") /\ calls[c].req.op = "deprovision"
  /\ Configures(c, NoSecret)
  /\ enabled' = FALSE
  /\ Goes(c, "finish")
  /\ UNCHANGED <<load, row, worker, late, fresh, faults>>

DeprovisionFinishes(c) ==
  /\ At(c, "finish")
  /\ row' = [generation |-> calls[c].req.gen, provisioned |-> FALSE, pending |-> NoPending]
  /\ Returns(c)
  /\ UNCHANGED <<load, secret, enabled, newest, worker, late, fresh, faults>>

(***************************************************************************)
(* The environment                                                         *)
(***************************************************************************)

(* configure(enabled=...) of the administrator, who needs a secret to enable. *)
SetEnabled(on) ==
  /\ load.admin /\ enabled # on
  /\ on => secret # NoSecret
  /\ enabled' = on
  /\ UNCHANGED <<load, row, secret, newest, calls, worker, late, fresh, faults>>

(* proxy:previous runs out. *)
GraceEnds ==
  /\ worker.prev # NoSecret
  /\ worker' = [worker EXCEPT !.prev = NoSecret]
  /\ UNCHANGED <<local, calls, late, fresh, faults>>

(* The process dies; the requests on the wire may still arrive. *)
Crash ==
  /\ \E c \in Callers : ~At(c, "idle")
  /\ Fault
  /\ late' = late \cup {calls[c].req : c \in {b \in Callers : At(b, "sent")}}
  /\ calls' = [c \in Callers |-> Idle]
  /\ UNCHANGED <<local, worker, fresh>>

Step(c) ==
  \/ SavePending(c) \/ ReadPending(c)
  \/ WorkerHandles(c) \/ Refused(c)
  \/ HealthVerified(c) \/ HealthRejected(c)
  \/ PromoteReads(c) \/ PromoteConfigures(c) \/ Promote(c)
  \/ DeprovisionConfigures(c) \/ DeprovisionFinishes(c)

Next ==
  \/ \E c \in load.callers :
       \/ \E op \in {"provision", "rotate"} : BeginSecret(c, op)
       \/ BeginReconcile(c) \/ BeginDeprovision(c)
       \/ Step(c) \/ GivesUp(c)
  \/ \E q \in late : WorkerHandlesLate(q) \/ RequestDropped(q)
  \/ \E on \in BOOLEAN : SetEnabled(on)
  \/ GraceEnds
  \/ Crash

Spec == Init /\ [][Next]_vars

(* A call that has begun goes on, and a client that sees phase "pending"   *)
(* previews and approves reconcile, as the interruption guide tells it to. *)
Fairness ==
  \A c \in Callers : /\ WF_vars(c \in load.callers /\ Step(c))
                      /\ WF_vars(c \in load.callers /\ BeginReconcile(c))

FairSpec == Spec /\ Fairness

(***************************************************************************)
(* Properties                                                              *)
(***************************************************************************)

(* Every variable has its type; a cleared pending operation is cleared in  *)
(* all its columns.                                                        *)
TypeOK ==
  /\ load \in Loads
  /\ row \in [generation : Gens, provisioned : BOOLEAN, pending : Pendings]
  /\ secret \in Secrets
  /\ enabled \in BOOLEAN
  /\ newest \in [gen : Gens, secret : Secrets]
  /\ calls \in [Callers -> Calls]
  /\ worker \in WorkerStates(Gens, Secrets)
  /\ late \subseteq Requests(Gens, Secrets)
  /\ fresh \in Secrets
  /\ faults \in 0..MaxFaults

Alone == \E c \in Callers : load.callers = {c}

(* One execute call at a time: the secret the Worker uses is never lost.   *)
(* Postmaster has it as its active or its pending secret, or the running   *)
(* call still carries it.                                                  *)
SecretHeld ==
  (Alone /\ worker.active # NoSecret) =>
    \/ worker.active \in {secret, row.pending.secret}
    \/ \E c \in Callers : calls[c].req.secret = worker.active

(* One execute call at a time: the Worker is at most one generation ahead, *)
(* and when it is not ahead both sides agree whether the proxy is          *)
(* provisioned and with which secret, whatever was lost, late or cut short *)
(* by a crash.                                                             *)
InStep ==
  Alone =>
    /\ worker.gen - row.generation \in {0, 1}
    /\ worker.gen = row.generation =>
         worker.active = (IF row.provisioned THEN secret ELSE NoSecret)

(* While the grace of a rotation lasts, the Worker accepts the newest      *)
(* secret that Postmaster configured, however many calls overlap; and with *)
(* one execute call at a time that is the secret Postmaster uses: no       *)
(* call writes an older one over it.                                       *)
DuringGrace ==
  /\ worker.prev # NoSecret => newest.secret \in Valid(worker)
  /\ Alone => secret = newest.secret

(* A secret the Worker gave up never becomes its active one again,         *)
(* whatever late request arrives and however many calls overlap.           *)
NeverReinstated ==
  \A s \in 1..MaxSecret :
    []((worker.active = s) => [](worker.active # s => [](worker.active # s)))

(* One client that never deprovisions: an operation left pending by losses *)
(* and crashes is reconciled in the end.                                   *)
Guided == Alone /\ "deprovision" \notin load.operations

Settles == (Guided /\ row.pending # NoPending) ~> row.pending = NoPending

=============================================================================
