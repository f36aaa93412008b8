----------------------------- MODULE MCProgress -----------------------------
(***************************************************************************)
(* What must end, under the fairness the components state; they share no   *)
(* state, and a behaviour is about one of them: the others wait in their   *)
(* initial state, where no step that fairness is about is enabled.         *)
(*                                                                         *)
(* delivery: one caller, ordinary and individualized sends, two attempts,  *)
(* one failure of its own bookkeeping.  provisioning: one call at a time   *)
(* with every operation, three faults and the switch; two calls at a time, *)
(* also with three secrets, so that one of them may be overtaken by two    *)
(* others; and one client that never deprovisions.  throttle: legs without *)
(* end, each of which needs the server's window of two places, that of one *)
(* of two accounts and perhaps that of a domain, of one place each; a      *)
(* second is two instants.                                                 *)
(***************************************************************************)
EXTENDS Integers, Sequences

CONSTANTS
  Callers, MaxSecret, MaxFaults, Loads, \* of provisioning
  Senders, Legs, Places, Second         \* of throttle

Ask(k, v, f) == [key |-> k, content |-> "m1", variant |-> v, force |-> f]
Requests == {Ask("k1", "single", FALSE), Ask("", "single", FALSE), Ask("", "single", TRUE),
             Ask("", "individual", FALSE)}

All == {"provision", "rotate", "reconcile", "deprovision"}
Forward == {"provision", "rotate", "reconcile"}
Single == [callers |-> {"c1"}, operations |-> All, secrets |-> 3, faults |-> 3, admin |-> TRUE]
Pair == [callers |-> {"c1", "c2"}, operations |-> All, secrets |-> 2, faults |-> 1, admin |-> FALSE]
Overtaken == [callers |-> {"c1", "c2"}, operations |-> Forward, secrets |-> 3, faults |-> 0, admin |-> FALSE]
Follower == [callers |-> {"c1"}, operations |-> Forward, secrets |-> 2, faults |-> 3, admin |-> FALSE]
ProxyLoads == {Single, Pair, Overtaken, Follower}

PlacesHere == [server |-> 2, account1 |-> 1, account2 |-> 1, domain |-> 1]
LegsHere == {{"server", "account1", "domain"}, {"server", "account1"}, {"server", "account2", "domain"}}

VARIABLES
  component,   \* the part this behaviour is about
  now, rows, pc, req, stamp, op, verdict, reply, step, leg, attempt, answer, deliveries,
  accepted, archived, odFaults,
  load, row, secret, enabled, newest, calls, worker, late, fresh, ppFaults,
  queue, sender, granted

Delivery == INSTANCE OutboundDelivery WITH
  Callers <- {"c1"}, Keys <- {"k1"}, NoKey <- "", Contents <- {"m1"},
  Variants <- {"single", "individual"}, Asked <- Requests, Window <- 1, Horizon <- 1,
  MaxRows <- 2, Individualized <- {"individual"}, Recipients <- 2, MaxAttempts <- 2,
  MaxFaults <- 1, faults <- odFaults

Proxy == INSTANCE PrivacyProvisioning WITH
  faults <- ppFaults

Throttle == INSTANCE DeliveryThrottle WITH
  Requests <- Legs, Limit <- Places, Window <- Second

deliveryVars == <<now, rows, pc, req, stamp, op, verdict, reply, step, leg, attempt, answer, deliveries,
  accepted, archived, odFaults>>
provisioningVars == <<load, row, secret, enabled, newest, calls, worker, late, fresh, ppFaults>>
throttleVars == <<queue, sender, granted>>
allVars == <<component, deliveryVars, provisioningVars, throttleVars>>

Init ==
  /\ component \in {"delivery", "provisioning", "throttle"}
  /\ Delivery!Init /\ Proxy!Init /\ Throttle!Init
  \* one initial state of the component when it does not act
  /\ component # "provisioning" => load = CHOOSE l \in Loads : TRUE

Next ==
  /\ UNCHANGED component
  /\ \/ component = "delivery" /\ Delivery!Next /\ UNCHANGED <<provisioningVars, throttleVars>>
     \/ component = "provisioning" /\ Proxy!Next /\ UNCHANGED <<deliveryVars, throttleVars>>
     \/ component = "throttle" /\ Throttle!Next /\ UNCHANGED <<deliveryVars, provisioningVars>>

Spec == Init /\ [][Next]_allVars

-----------------------------------------------------------------------------
ASSUME ProgressAssumption ==
  Proxy!ConstantsAssumption /\ Throttle!ConstantsAssumption /\ Loads # {}

FairSpec == Spec /\ Delivery!Fairness /\ Proxy!Fairness /\ Throttle!Fairness

\* See the comments of these properties in the modules they come from.

\* A call that reached the transport comes back, and a leg sleeps in the throttle for ever only if
\* others take the places it needs for ever.
DeliveryEnds == Delivery!DeliveryEnds /\ Throttle!AcquireEnds

\* The Worker and Postmaster are in step, the secret in use is held, and a grace is kept.
ProxySafety ==
  component = "provisioning" =>
    Proxy!TypeOK /\ Proxy!InStep /\ Proxy!SecretHeld /\ Proxy!DuringGrace

\* No limit of the throttle is exceeded in the second that ends at any instant.
RateKept == Throttle!RateKept

\* A secret that was given up never comes back.
NeverReinstated == Proxy!NeverReinstated

\* A pending operation is reconciled in the end.
Settles == Proxy!Settles
=============================================================================
