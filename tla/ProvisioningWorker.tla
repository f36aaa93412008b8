------------------------- MODULE ProvisioningWorker -------------------------
(***************************************************************************)
(* The secret state of the Cloudflare Worker behind the Privacy Proxy: the *)
(* Durable Object NonceGuard of extras/cloudflare-email-privacy-proxy.     *)
(* One object serves every request, and its storage calls close its input  *)
(* gate, so a request to /secret-state is one step.                        *)
(*                                                                         *)
(* A secret is a number, 0 when there is none.  The generation stored with *)
(* proxy:active is left out: both puts of _applySecretState write the same *)
(* number, so it is the object's generation whenever a secret is active.   *)
(* Signature, time stamp and nonce of a request are taken as valid: they   *)
(* are made afresh for every POST.                                         *)
(***************************************************************************)
EXTENDS Integers

NoSecret == 0

(* A signed POST to /provision. *)
Requests(Gen, Secret) ==
  [op : {"provision", "rotate", "deprovision"}, gen : Gen, secret : Secret]

WorkerStates(Gen, Secret) == [gen : Gen, active : Secret, prev : Secret]

EmptyWorker == [gen |-> 0, active |-> NoSecret, prev |-> NoSecret]

(* Any generation but the current one. *)
AdvancesAny(w, q) ==
  /\ q.gen # w.gen
  /\ q.op = "provision" => w.active = NoSecret
  /\ q.op = "rotate" => w.active # NoSecret

(* The request is the next generation, of an operation the state allows. *)
Advances(w, q) ==
  /\ q.gen = w.gen + 1
  /\ q.op = "provision" => w.active = NoSecret
  /\ q.op = "rotate" => w.active # NoSecret

(* A repeated request taken for a conflict. *)
RepeatsNever(w, q) == FALSE

(* The request repeats the one that installed the active secret. *)
Repeats(w, q) ==
  /\ q.op # "deprovision"
  /\ q.gen = w.gen
  /\ w.active # NoSecret
  /\ q.secret = w.active

(* The answer's status is 200. *)
Accepts(w, q) == Advances(w, q) \/ Repeats(w, q)

(* A rotation that keeps an older secret while its grace lasts. *)
AfterKeepsOldest(w, q) ==
  IF ~Advances(w, q) THEN w
  ELSE IF q.op = "deprovision" THEN [EmptyWorker EXCEPT !.gen = q.gen]
  ELSE [gen |-> q.gen, active |-> q.secret,
        prev |-> IF w.prev = NoSecret THEN w.active ELSE w.prev]

(* The state after the request: the secret it replaces stays valid for the *)
(* grace it asked for (120 of at most 300 seconds).                        *)
After(w, q) ==
  IF ~Advances(w, q) THEN w
  ELSE IF q.op = "deprovision" THEN [EmptyWorker EXCEPT !.gen = q.gen]
  ELSE [gen |-> q.gen, active |-> q.secret,
        prev |-> IF w.active = NoSecret THEN w.prev ELSE w.active]

(* The secrets that authenticate /health and /fetch. *)
Valid(w) == IF w.active = NoSecret THEN {} ELSE {w.active, w.prev} \ {NoSecret}

=============================================================================
