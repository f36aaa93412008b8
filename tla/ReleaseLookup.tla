---------------------------- MODULE ReleaseLookup ---------------------------
(***************************************************************************)
(* The cached lookup of the published releases: latest_version_status      *)
(* (update_status.py), which says whether a newer release exists, and      *)
(* stable_release_tags (runtime_control.py), which lists them and may be   *)
(* forced.  Each has a cache of its own under a lock of its own; a         *)
(* behaviour is about one of them.                                         *)
(*                                                                         *)
(* A caller reads the clock before it waits for the lock, and the lock is  *)
(* held while the releases are fetched.  Releases are numbered in the      *)
(* order of their versions and of their publication; GitHub is external.   *)
(***************************************************************************)
EXTENDS Integers, Sequences

CONSTANTS
  Callers,
  Current,      \* the release that runs
  Ttl,          \* UPDATE_CACHE_TTL_SECONDS, _RELEASE_CACHE_TTL_SECONDS
  Horizon,      \* bound: the last instant
  MaxReleases   \* bound: releases published

\* what is assumed of the constants; the module that instantiates them asserts it
LookupAssumption == Current \in Nat \ {0} /\ Ttl \in Nat /\ Horizon \in Nat /\ MaxReleases \in Nat

VARIABLES
  forcible,    \* whether this is the lookup that may be forced
  now,
  published,   \* the instant each release was published at
  cache,       \* [latest, attempt, checked]: 0 and -1 where there is none
  call,        \* each caller: [at, stamp, force], and since when it fetches
  attempts,    \* history: the stamps of the attempts
  answer       \* history: what the last caller was told, [available, checked]

vars == <<forcible, now, published, cache, call, attempts, answer>>

Idle == [at |-> "idle"]
Goes(c, r) == call' = [call EXCEPT ![c] = r]

Init ==
  /\ forcible \in BOOLEAN
  /\ now = 0
  /\ published = [v \in 1..Current |-> 0]
  /\ cache = [latest |-> 0, attempt |-> -1, checked |-> -1]
  /\ call = [c \in Callers |-> Idle]
  /\ attempts = {} /\ answer = [available |-> "unknown", checked |-> -1]

Tick == now < Horizon /\ now' = now + 1 /\ UNCHANGED <<forcible, published, cache, call, attempts, answer>>

Publish ==
  /\ Len(published) < MaxReleases
  /\ published' = Append(published, now)
  /\ UNCHANGED <<forcible, now, cache, call, attempts, answer>>

Begin(c, force) ==
  /\ call[c] = Idle /\ (force => forcible)
  /\ Goes(c, [at |-> "waits", stamp |-> now, force |-> force, began |-> -1])
  /\ UNCHANGED <<forcible, now, published, cache, attempts, answer>>

Available(latest) == IF latest = 0 THEN "unknown" ELSE IF latest > Current THEN "yes" ELSE "no"

Told(after) == answer' = [available |-> Available(after.latest), checked |-> after.checked]

LockFree == \A c \in Callers : call[c].at # "fetches"
Fresh(c) == cache.attempt # -1 /\ call[c].stamp - cache.attempt < Ttl

\* within the time to live the cache answers, whatever the last attempt brought
Hit(c) ==
  /\ call[c].at = "waits" /\ LockFree /\ Fresh(c) /\ ~call[c].force
  /\ Goes(c, Idle) /\ Told(cache)
  /\ UNCHANGED <<forcible, now, published, cache, attempts>>

\* the attempt is stamped with the clock of the call before it is made
Attempt(c) ==
  /\ call[c].at = "waits" /\ LockFree /\ (~Fresh(c) \/ call[c].force)
  /\ Goes(c, [call[c] EXCEPT !.at = "fetches", !.began = now])
  /\ cache' = [cache EXCEPT !.attempt = call[c].stamp]
  /\ attempts' = attempts \cup {call[c].stamp}
  /\ UNCHANGED <<forcible, now, published, answer>>

Fetched(c) ==
  /\ call[c].at = "fetches"
  /\ cache' = [cache EXCEPT !.latest = Len(published), !.checked = call[c].began]
  /\ Goes(c, Idle) /\ Told(cache')
  /\ UNCHANGED <<forcible, now, published, attempts>>

\* plausible slips: a failure counts as a check, or as no attempt at all
FailedChecks(c) ==
  /\ call[c].at = "fetches"
  /\ cache' = [cache EXCEPT !.checked = call[c].began]
  /\ Goes(c, Idle) /\ Told(cache')
  /\ UNCHANGED <<forcible, now, published, attempts>>

FailedRetries(c) ==
  /\ call[c].at = "fetches"
  /\ cache' = [cache EXCEPT !.attempt = -1]
  /\ Goes(c, Idle) /\ Told(cache)
  /\ UNCHANGED <<forcible, now, published, attempts>>

\* what was known stays
Failed(c) ==
  /\ call[c].at = "fetches"
  /\ Goes(c, Idle) /\ Told(cache)
  /\ UNCHANGED <<forcible, now, published, cache, attempts>>

Next ==
  \/ Tick \/ Publish
  \/ \E c \in Callers :
       \/ \E force \in BOOLEAN : Begin(c, force)
       \/ Hit(c) \/ Attempt(c) \/ Fetched(c) \/ Failed(c)

Spec == Init /\ [][Next]_vars

-----------------------------------------------------------------------------
(* What must hold.                                                         *)

\* "rather than a false negative" (update_status.py:81): who is told that no newer release
\* exists is told since when that is known, and none was published before that.
NoFalseNegative ==
  answer.available = "no" =>
    \A v \in DOMAIN published : published[v] < answer.checked => v <= Current

\* "one shared lazy 60-second cache": no two attempts lie within one time to live of each other,
\* though callers bring stamps that are older than the attempt they waited for, and though
\* attempts fail.  A forced refresh is allowed to.
AttemptsSpaced ==
  ~forcible => \A a, b \in attempts : a < b => b - a >= Ttl

=============================================================================
