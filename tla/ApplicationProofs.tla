------------------------- MODULE ApplicationProofs -------------------------
(***************************************************************************)
(* What is proved of the parts that MCApplication puts side by side, for   *)
(* every value of their constants.                                         *)
(***************************************************************************)
EXTENDS MCApplication, TaskRegistryProofs, FiniteSetTheorems, SequenceTheorems, WellFoundedInduction

-----------------------------------------------------------------------------
(***************************************************************************)
(* The task registry is proved in TaskRegistryProofs.                      *)
(***************************************************************************)

\* The part of the run: the registry's invariants, while no two calls overlap those of the client
\* who sees schedule, row and history agree.
THEOREM TasksHold == AllSpec => []TasksSafety
<1>1. AllInit => OrderlyInv
  BY InitHolds, OrderlyStarts DEF AllInit, OrderlyInv
<1>2. OrderlyInv /\ [AllNext]_allVars => OrderlyInv'
  <2>1. [AllNext]_allVars => [Next]_vars
    BY DEF AllNext, allVars
  <2> QED BY <2>1, StepHolds, OrderlyHolds DEF OrderlyInv
<1>3. OrderlyInv => TasksSafety
  BY OrderlyTells DEF TasksSafety
<1> QED BY <1>1, <1>2, <1>3, PTL DEF AllSpec

\* The same for a completed task, which nothing but a deletion changes.
THEOREM CompletedStaysSo == AllSpec => CompletedImmutable
<1>1. AllInit => OrderlyInv
  BY InitHolds, OrderlyStarts DEF AllInit, OrderlyInv
<1>2. [AllNext]_allVars => [Next]_vars
  BY DEF AllNext, allVars
<1>3. OrderlyInv /\ [AllNext]_allVars => OrderlyInv'
  BY <1>2, StepHolds, OrderlyHolds DEF OrderlyInv
<1>4. OrderlyInv /\ [AllNext]_allVars =>
        [~overlapped => \A j \in Jobs : row[j].status = "completed" => row'[j] \in {row[j], Missing}]_vars
  BY <1>2, CompletedStep
<1> QED BY <1>1, <1>3, <1>4, PTL DEF AllSpec, CompletedImmutable

-----------------------------------------------------------------------------
(***************************************************************************)
(* The lookup of releases.                                                 *)
(***************************************************************************)

LookupCalls ==
  {Lookup!Idle} \cup [at : {"waits", "fetches"}, stamp : 0..LastInstant, force : BOOLEAN, began : -1..LastInstant]

LookupAnswers == [available : {"unknown", "yes", "no"}, checked : Int]

LookupTyped ==
  /\ forcible \in BOOLEAN
  /\ rlNow \in 0..LastInstant
  /\ published \in Seq(0..LastInstant) /\ Len(published) # 0
  /\ cache \in [latest : Nat, attempt : -1..LastInstant, checked : -1..LastInstant]
  /\ rlCall \in [Threads -> LookupCalls]
  /\ attempts \subseteq 0..LastInstant

\* What is known of the releases is right up to the instant the cache names, which has passed.
\* Without the bound on that instant, a release published later would spoil it.
KnownWell(latest, checked) ==
  /\ latest <= Len(published) /\ checked <= rlNow
  /\ latest = 0 => checked = -1
  /\ latest # 0 => \A v \in DOMAIN published : published[v] < checked => v <= latest

\* The cache names the last attempt, unless somebody may force one.
AttemptNamed ==
  ~forcible =>
    /\ cache.attempt = -1 => attempts = {}
    /\ cache.attempt # -1 => cache.attempt \in attempts
    /\ \A a \in attempts : a <= cache.attempt

LookupInv ==
  /\ LookupTyped
  /\ \A v \in DOMAIN published : published[v] <= rlNow
  /\ KnownWell(cache.latest, cache.checked)
  /\ \A c \in Threads : /\ rlCall[c] # Lookup!Idle => (rlCall[c].force => forcible)
                        /\ rlCall[c].at = "fetches" => rlCall[c].began \in 0..rlNow
  /\ answer \in LookupAnswers /\ answer.checked <= rlNow
  /\ AttemptNamed
  /\ Lookup!NoFalseNegative /\ Lookup!AttemptsSpaced

LEMMA LookupConstants ==
  /\ CurrentRelease \in Nat \ {0} /\ Ttl \in Nat /\ LastInstant \in Nat /\ MaxReleases \in Nat
BY ApplicationAssumption DEF Lookup!LookupAssumption

\* Whatever is told of the cache is known.
LEMMA ToldTruly ==
  ASSUME NEW latest \in Nat, NEW checked \in Int, KnownWell(latest, checked), published \in Seq(0..LastInstant)
  PROVE  Lookup!Available(latest) = "no" =>
           \A v \in DOMAIN published : published[v] < checked => v <= CurrentRelease
<1> SUFFICES ASSUME Lookup!Available(latest) = "no", NEW v \in DOMAIN published, published[v] < checked
             PROVE  v <= CurrentRelease
  OBVIOUS
<1>1. latest # 0 /\ ~(latest > CurrentRelease)
  BY DEF Lookup!Available
<1>2. v <= latest
  BY <1>1 DEF KnownWell
<1>3. v \in Nat
  OBVIOUS
<1> QED BY <1>1, <1>2, <1>3, LookupConstants

LEMMA LookupTick == ASSUME LookupInv, Lookup!Tick PROVE LookupInv'
<1>1. rlNow' = rlNow + 1 /\ rlNow' \in 0..LastInstant /\ rlNow \in Nat
  BY LookupConstants DEF LookupInv, LookupTyped, Lookup!Tick
<1>2. UNCHANGED <<forcible, published, cache, rlCall, attempts, answer>>
  BY DEF Lookup!Tick
<1>3. LookupTyped'
  BY <1>1, <1>2 DEF LookupInv, LookupTyped
<1>4. \A v \in DOMAIN published' : published'[v] <= rlNow'
  <2>0. published \in Seq(0..LastInstant)
    BY DEF LookupInv, LookupTyped
  <2>1. \A v \in DOMAIN published : published[v] <= rlNow
    BY DEF LookupInv
  <2>2. \A v \in DOMAIN published : published[v] \in Nat
    <3> TAKE v \in DOMAIN published
    <3>0. v \in 1..Len(published)
      BY <2>0
    <3>1. published[v] \in 0..LastInstant
      BY <2>0, <3>0, ElementOfSeq
    <3> QED BY <3>1
  <2> QED BY <1>1, <1>2, <2>1, <2>2
<1>5. KnownWell(cache.latest, cache.checked)'
  BY <1>1, <1>2, LookupConstants DEF LookupInv, LookupTyped, KnownWell
<1>6. \A c \in Threads : rlCall[c].at = "fetches" => rlCall[c].began \in 0..rlNow'
  BY <1>1 DEF LookupInv
<1>7. answer.checked <= rlNow'
  BY <1>1 DEF LookupInv, LookupAnswers
<1> QED BY <1>2, <1>3, <1>4, <1>5, <1>6, <1>7
        DEF LookupInv, AttemptNamed, Lookup!NoFalseNegative, Lookup!AttemptsSpaced

LEMMA LookupPublish == ASSUME LookupInv, Lookup!Publish PROVE LookupInv'
<1>1. /\ published' = Append(published, rlNow) /\ published \in Seq(0..LastInstant) /\ rlNow \in 0..LastInstant
      /\ UNCHANGED <<forcible, rlNow, cache, rlCall, attempts, answer>>
  BY DEF LookupInv, LookupTyped, Lookup!Publish
<1>2. /\ published' \in Seq(0..LastInstant) /\ Len(published') = Len(published) + 1
      /\ DOMAIN published' = 1..Len(published) + 1 /\ DOMAIN published = 1..Len(published)
      /\ published'[Len(published) + 1] = rlNow
      /\ \A v \in DOMAIN published : published'[v] = published[v]
  BY <1>1
<1>3. LookupTyped'
  BY <1>1, <1>2 DEF LookupInv, LookupTyped
<1>4. \A v \in DOMAIN published' : v \in DOMAIN published \/ published'[v] = rlNow
  BY <1>1, <1>2
<1>5. \A v \in DOMAIN published' : published'[v] <= rlNow
  BY <1>1, <1>2, <1>4 DEF LookupInv
<1>6. KnownWell(cache.latest, cache.checked)'
  <2>1. cache.latest \in Nat /\ cache.checked \in Int /\ KnownWell(cache.latest, cache.checked)
    BY DEF LookupInv, LookupTyped
  <2>2. \A v \in DOMAIN published' : published'[v] < cache.checked => v \in DOMAIN published
    BY <1>1, <1>4, <2>1 DEF KnownWell
  <2> QED BY <1>1, <1>2, <2>1, <2>2 DEF KnownWell
<1>7. Lookup!NoFalseNegative'
  <2>1. answer.checked \in Int /\ answer.checked <= rlNow /\ Lookup!NoFalseNegative
    BY DEF LookupInv, LookupAnswers
  <2>2. \A v \in DOMAIN published' : published'[v] < answer.checked => v \in DOMAIN published
    BY <1>1, <1>4, <2>1
  <2> QED BY <1>1, <1>2, <2>1, <2>2 DEF Lookup!NoFalseNegative
<1> QED BY <1>1, <1>3, <1>5, <1>6, <1>7 DEF LookupInv, AttemptNamed, Lookup!AttemptsSpaced

LEMMA LookupBegin ==
  ASSUME LookupInv, NEW c \in Threads, NEW force \in BOOLEAN, Lookup!Begin(c, force) PROVE LookupInv'
<1> DEFINE r == [at |-> "waits", stamp |-> rlNow, force |-> force, began |-> -1]
<1>1. /\ rlCall' = [rlCall EXCEPT ![c] = r] /\ (force => forcible)
      /\ UNCHANGED <<forcible, rlNow, published, cache, attempts, answer>>
  BY DEF Lookup!Begin, Lookup!Goes
<1>2. r \in LookupCalls
  BY LookupConstants DEF LookupCalls, LookupInv, LookupTyped
<1>3. rlCall \in [Threads -> LookupCalls]
  BY DEF LookupInv, LookupTyped
<1>4. rlCall' \in [Threads -> LookupCalls]
  BY <1>1, <1>2, <1>3
<1>5. LookupTyped'
  BY <1>1, <1>4 DEF LookupInv, LookupTyped
<1>6. \A d \in Threads : /\ rlCall'[d] # Lookup!Idle => (rlCall'[d].force => forcible)
                         /\ rlCall'[d].at = "fetches" => rlCall'[d].began \in 0..rlNow
  BY <1>1, <1>3 DEF LookupInv
<1> QED BY <1>1, <1>5, <1>6 DEF LookupInv, KnownWell, AttemptNamed, Lookup!NoFalseNegative, Lookup!AttemptsSpaced

\* A call that ends has told what the cache says then.
LEMMA LookupEnds ==
  ASSUME LookupInv, NEW c \in Threads, Lookup!Goes(c, Lookup!Idle), Lookup!Told(cache'),
         UNCHANGED <<forcible, rlNow, published, attempts>>,
         cache' \in [latest : Nat, attempt : -1..LastInstant, checked : -1..LastInstant],
         cache'.attempt = cache.attempt, KnownWell(cache'.latest, cache'.checked)
  PROVE  LookupInv'
<1>1. rlCall \in [Threads -> LookupCalls] /\ rlCall' = [rlCall EXCEPT ![c] = Lookup!Idle]
  BY DEF LookupInv, LookupTyped, Lookup!Goes
<1>2. rlCall' \in [Threads -> LookupCalls]
  BY <1>1 DEF LookupCalls
<1>3. LookupTyped'
  BY <1>2 DEF LookupInv, LookupTyped
<1>4. \A d \in Threads : /\ rlCall'[d] # Lookup!Idle => (rlCall'[d].force => forcible)
                         /\ rlCall'[d].at = "fetches" => rlCall'[d].began \in 0..rlNow
  <2>1. \A d \in Threads : rlCall'[d] = Lookup!Idle \/ rlCall'[d] = rlCall[d]
    BY <1>1
  <2>2. Lookup!Idle.at # "fetches"
    BY DEF Lookup!Idle
  <2> QED BY <2>1, <2>2 DEF LookupInv
<1>5. answer' = [available |-> Lookup!Available(cache'.latest), checked |-> cache'.checked]
  BY DEF Lookup!Told
<1>6. /\ cache'.latest \in Nat /\ cache'.checked \in Int /\ published \in Seq(0..LastInstant)
      /\ cache'.checked <= rlNow
  BY DEF LookupInv, LookupTyped, KnownWell
<1>7. answer' \in LookupAnswers /\ answer'.checked <= rlNow
  BY <1>5, <1>6 DEF LookupAnswers, Lookup!Available
<1>8. Lookup!NoFalseNegative'
  BY <1>5, <1>6, ToldTruly DEF Lookup!NoFalseNegative
<1>9. KnownWell(cache.latest, cache.checked)' /\ AttemptNamed'
  BY DEF LookupInv, KnownWell, AttemptNamed
<1> QED BY <1>3, <1>4, <1>7, <1>8, <1>9 DEF LookupInv, Lookup!AttemptsSpaced

LEMMA LookupAttempt == ASSUME LookupInv, NEW c \in Threads, Lookup!Attempt(c) PROVE LookupInv'
<1> DEFINE s == rlCall[c].stamp
<1>1. /\ rlCall \in [Threads -> LookupCalls] /\ rlCall[c].at = "waits"
      /\ cache \in [latest : Nat, attempt : -1..LastInstant, checked : -1..LastInstant]
      /\ attempts \subseteq 0..LastInstant /\ rlNow \in 0..LastInstant
  BY DEF LookupInv, LookupTyped, Lookup!Attempt
<1>2. rlCall[c] \in [at : {"waits", "fetches"}, stamp : 0..LastInstant, force : BOOLEAN, began : -1..LastInstant]
  BY <1>1 DEF LookupCalls, Lookup!Idle
<1>3. s \in 0..LastInstant /\ rlCall[c] # Lookup!Idle
  BY <1>1, <1>2 DEF Lookup!Idle
<1>4. PICK r : r = [rlCall[c] EXCEPT !.at = "fetches", !.began = rlNow]
  OBVIOUS
<1>14. r = [at |-> "fetches", stamp |-> s, force |-> rlCall[c].force, began |-> rlNow]
  BY <1>2, <1>4
<1>5. r.at = "fetches" /\ r.began = rlNow /\ r.force = rlCall[c].force /\ r \in LookupCalls /\ r # Lookup!Idle
  BY <1>1, <1>2, <1>14, LookupConstants DEF LookupCalls, Lookup!Idle
<1>6. /\ rlCall' = [rlCall EXCEPT ![c] = r] /\ cache' = [cache EXCEPT !.attempt = s]
      /\ attempts' = attempts \cup {s}
      /\ ~Lookup!Fresh(c) \/ rlCall[c].force
      /\ UNCHANGED <<forcible, rlNow, published, answer>>
  BY <1>4 DEF Lookup!Attempt, Lookup!Goes
<1>7. /\ cache' \in [latest : Nat, attempt : -1..LastInstant, checked : -1..LastInstant]
      /\ cache'.attempt = s /\ cache'.latest = cache.latest /\ cache'.checked = cache.checked
  BY <1>1, <1>3, <1>6
<1>8. LookupTyped'
  BY <1>1, <1>3, <1>5, <1>6, <1>7 DEF LookupInv, LookupTyped
<1>9. \A d \in Threads : /\ rlCall'[d] # Lookup!Idle => (rlCall'[d].force => forcible)
                         /\ rlCall'[d].at = "fetches" => rlCall'[d].began \in 0..rlNow
  <2>1. rlCall'[c] = r /\ \A d \in Threads \ {c} : rlCall'[d] = rlCall[d]
    BY <1>1, <1>6
  <2>2. rlNow \in 0..rlNow
    BY <1>1
  <2> QED BY <1>3, <1>5, <2>1, <2>2 DEF LookupInv
<1>10. KnownWell(cache.latest, cache.checked)'
  BY <1>6, <1>7 DEF LookupInv, KnownWell
<1>11. ~forcible => \A a \in attempts : s - a >= Ttl
  <2> SUFFICES ASSUME ~forcible, NEW a \in attempts PROVE s - a >= Ttl
    OBVIOUS
  <2>1. ~rlCall[c].force
    BY <1>3 DEF LookupInv
  <2>2. cache.attempt = -1 \/ ~(s - cache.attempt < Ttl)
    BY <1>6, <2>1 DEF Lookup!Fresh
  <2>3. cache.attempt # -1 /\ a <= cache.attempt /\ a \in Nat
    BY <1>1 DEF LookupInv, AttemptNamed
  <2> QED BY <1>1, <1>3, <2>2, <2>3, LookupConstants
<1>12. AttemptNamed'
  <2> SUFFICES ASSUME ~forcible
               PROVE  cache'.attempt # -1 /\ cache'.attempt \in attempts' /\ \A a \in attempts' : a <= cache'.attempt
    BY <1>6 DEF AttemptNamed
  <2>1. \A a \in attempts : a <= s
    BY <1>1, <1>3, <1>11, LookupConstants
  <2> QED BY <1>3, <1>6, <1>7, <2>1
<1>13. Lookup!AttemptsSpaced'
  <2> SUFFICES ASSUME ~forcible, NEW a \in attempts', NEW b \in attempts', a < b PROVE b - a >= Ttl
    BY <1>6 DEF Lookup!AttemptsSpaced
  <2>1. CASE a \in attempts /\ b \in attempts
    BY <2>1 DEF LookupInv, Lookup!AttemptsSpaced
  <2>2. CASE a \in attempts /\ b = s
    BY <1>11, <2>2
  <2>3. CASE a = s
    <3>1. b \in attempts
      BY <1>3, <1>6, <2>3
    <3>2. s - b >= Ttl /\ b \in Nat
      BY <1>1, <1>11, <3>1
    <3> QED BY <1>3, <2>3, <3>2, LookupConstants
  <2> QED BY <1>6, <2>1, <2>2, <2>3
<1> QED BY <1>6, <1>8, <1>9, <1>10, <1>12, <1>13 DEF LookupInv, Lookup!NoFalseNegative

LEMMA LookupKeeps == LookupInv /\ Lookup!Next => LookupInv'
<1> SUFFICES ASSUME LookupInv, Lookup!Next PROVE LookupInv'
  OBVIOUS
<1>0. cache \in [latest : Nat, attempt : -1..LastInstant, checked : -1..LastInstant]
  BY DEF LookupInv, LookupTyped
<1>1. ASSUME NEW c \in Threads, Lookup!Hit(c) \/ Lookup!Failed(c) PROVE LookupInv'
  <2>1. /\ Lookup!Goes(c, Lookup!Idle) /\ Lookup!Told(cache)
        /\ UNCHANGED <<forcible, rlNow, published, cache, attempts>>
    BY <1>1 DEF Lookup!Hit, Lookup!Failed
  <2>2. Lookup!Told(cache')
    BY <2>1
  <2>3. KnownWell(cache'.latest, cache'.checked)
    BY <2>1 DEF LookupInv
  <2> QED BY <1>0, <2>1, <2>2, <2>3, LookupEnds
<1>2. ASSUME NEW c \in Threads, Lookup!Fetched(c) PROVE LookupInv'
  <2>1. /\ Lookup!Goes(c, Lookup!Idle) /\ Lookup!Told(cache')
        /\ UNCHANGED <<forcible, rlNow, published, attempts>>
        /\ cache' = [cache EXCEPT !.latest = Len(published), !.checked = rlCall[c].began]
        /\ rlCall[c].at = "fetches"
    BY <1>2 DEF Lookup!Fetched
  <2>2. /\ rlCall[c].began \in 0..rlNow /\ rlNow \in 0..LastInstant /\ published \in Seq(0..LastInstant)
        /\ Len(published) \in Nat /\ DOMAIN published = 1..Len(published)
    BY <2>1 DEF LookupInv, LookupTyped
  <2>3. /\ cache' \in [latest : Nat, attempt : -1..LastInstant, checked : -1..LastInstant]
        /\ cache'.attempt = cache.attempt /\ cache'.latest = Len(published) /\ cache'.checked = rlCall[c].began
    <3>1. cache' = [latest |-> Len(published), attempt |-> cache.attempt, checked |-> rlCall[c].began]
      BY <1>0, <2>1
    <3>2. rlCall[c].began \in -1..LastInstant /\ cache.attempt \in -1..LastInstant
      BY <1>0, <2>2, LookupConstants
    <3> QED BY <2>2, <3>1, <3>2
  <2>4. CASE Len(published) # 0
    <3>1. KnownWell(cache'.latest, cache'.checked)
      BY <2>2, <2>3, <2>4 DEF KnownWell
    <3> QED BY <2>1, <2>3, <3>1, LookupEnds
  <2>5. CASE Len(published) = 0
    BY <2>5 DEF LookupInv, LookupTyped
  <2> QED BY <2>2, <2>4, <2>5
<1> QED BY <1>1, <1>2, LookupTick, LookupPublish, LookupBegin, LookupAttempt DEF Lookup!Next

LEMMA LookupStarts == Lookup!Init => LookupInv
<1> SUFFICES ASSUME Lookup!Init PROVE LookupInv
  OBVIOUS
<1>1. published \in Seq(0..LastInstant) /\ Len(published) = CurrentRelease
      /\ \A v \in DOMAIN published : published[v] = 0
  BY LookupConstants DEF Lookup!Init
<1>2. LookupTyped
  BY <1>1, LookupConstants DEF Lookup!Init, LookupTyped, LookupCalls
<1>3. \A c \in Threads : rlCall[c] = Lookup!Idle
  BY DEF Lookup!Init
<1>4. Lookup!Idle.at # "fetches"
  BY DEF Lookup!Idle
<1>5. answer = [available |-> "unknown", checked |-> -1] /\ cache = [latest |-> 0, attempt |-> -1, checked |-> -1]
      /\ rlNow = 0 /\ attempts = {}
  BY DEF Lookup!Init
<1>6. answer \in LookupAnswers /\ answer.checked <= rlNow /\ Lookup!NoFalseNegative
  BY <1>5 DEF LookupAnswers, Lookup!NoFalseNegative
<1>7. KnownWell(cache.latest, cache.checked) /\ AttemptNamed /\ Lookup!AttemptsSpaced
  BY <1>1, <1>5 DEF KnownWell, AttemptNamed, Lookup!AttemptsSpaced
<1> QED BY <1>1, <1>2, <1>3, <1>4, <1>5, <1>6, <1>7 DEF LookupInv

LEMMA LookupTurns == LookupInv /\ [AllNext]_allVars => LookupInv'
<1> SUFFICES ASSUME LookupInv, [AllNext]_allVars PROVE LookupInv'
  OBVIOUS
<1>1. CASE Lookup!Next
  BY <1>1, LookupKeeps
<1>2. CASE UNCHANGED releasesVars
  BY <1>2 DEF releasesVars, LookupInv, LookupTyped, KnownWell, AttemptNamed, Lookup!NoFalseNegative,
              Lookup!AttemptsSpaced
<1> QED BY <1>1, <1>2 DEF AllNext, allVars

\* Nobody is told that no newer release exists when one had been published at the instant the
\* answer names, and without force no two attempts lie within one time to live, however many
\* callers wait with old stamps and however many attempts fail.
THEOREM LookupsHold == AllSpec => [](Lookup!NoFalseNegative /\ Lookup!AttemptsSpaced)
<1>1. AllInit => LookupInv
  BY LookupStarts DEF AllInit
<1>2. LookupInv => Lookup!NoFalseNegative /\ Lookup!AttemptsSpaced
  BY DEF LookupInv
<1> QED BY <1>1, <1>2, LookupTurns, PTL DEF AllSpec

-----------------------------------------------------------------------------
(***************************************************************************)
(* Secrets kept in files.                                                  *)
(***************************************************************************)

\* One thread at a time fills the file: it is empty while that one writes, and holds its key
\* while that one waits for fsync.
Filling(t) == at[t] \in {"write", "sync"}

OneFills ==
  /\ \A t, u \in Threads : Filling(t) /\ Filling(u) => t = u
  /\ \A t \in Threads :
       /\ at[t] = "write" => kfFile = Secrets!Empty
       /\ at[t] = "sync" => kfFile = mine[t]
       /\ Filling(t) => mine[t].n # 0 /\ (routine # "unsubscribe" => ~mine[t].blank)
  /\ routine # "unsubscribe" => kfFile = Secrets!Absent \/ ~kfFile.blank

\* A key as OneKey allows it.
Good(k) ==
  \/ k = Secrets!Absent
  \/ k = kfFile /\ k # Secrets!Empty
  \/ routine = "unsubscribe" /\ k = Secrets!Empty

\* OneKey, with what it needs of a file that is not there: nobody has a key then.  A download
\* secret whose creation failed is made again, and would otherwise replace one that is in use.
KeysAgree ==
  ~unsynced =>
    /\ kfFile = Secrets!Absent =>
         (\A k \in signed : k = Secrets!Absent) /\ \A t \in Threads : held[t] = Secrets!Absent
    /\ ~(routine = "unsubscribe" /\ kfFile.blank) =>
         (\A k \in signed : Good(k)) /\ \A t \in Threads : Good(held[t])

KeysInv == Secrets!TypeOK /\ Secrets!EmptyIsBeingFilled /\ OneFills /\ KeysAgree

LEMMA KeysTyped ==
  ASSUME Secrets!TypeOK
  PROVE  /\ at \in [Threads -> {"idle", "create", "reread", "write", "sync"}]
         /\ mine \in [Threads -> Secrets!Keys] /\ held \in [Threads -> Secrets!Keys]
         /\ kfFile \in Secrets!Keys /\ signed \subseteq Secrets!Keys
         /\ keys \in 0..MaxKeys /\ starts \in 0..MaxStarts /\ kfFaults \in 0..MaxFaults
         /\ MaxKeys \in Nat /\ MaxStarts \in Nat /\ MaxFaults \in Nat
BY ApplicationAssumption DEF Secrets!TypeOK, Secrets!KeyFilesAssumption

LEMMA SecretsDiffer ==
  /\ Secrets!Absent # Secrets!Empty /\ Secrets!Absent.n = 0 /\ Secrets!Empty.n = 0
  /\ Secrets!Absent.blank = TRUE /\ Secrets!Empty.blank = FALSE
BY DEF Secrets!Absent, Secrets!Empty

\* The text of a file without white space around it is the key itself.
LEMMA StrippedKey ==
  ASSUME NEW k \in Secrets!Keys
  PROVE  Secrets!Stripped(k) \in Secrets!Keys /\ (~k.blank => Secrets!Stripped(k) = k)
<1>1. [k EXCEPT !.blank = FALSE] \in Secrets!Keys
  BY DEF Secrets!Keys
<1>2. k.blank = FALSE => [k EXCEPT !.blank = FALSE] = k
  BY DEF Secrets!Keys
<1>3. k.blank \in BOOLEAN
  BY DEF Secrets!Keys
<1> QED BY <1>1, <1>2, <1>3 DEF Secrets!Stripped

\* A call that returns a good key, or none.
LEMMA KeysReturn ==
  ASSUME KeysInv, NEW t \in Threads, NEW k \in Secrets!Keys, Secrets!Return(t, k), at[t] # "write",
         UNCHANGED <<routine, kfFile, keys, mine, signed, interrupted, unsynced, starts, kfFaults>>,
         kfFile = Secrets!Absent => k = Secrets!Absent,
         ~unsynced /\ ~(routine = "unsubscribe" /\ kfFile.blank) => Good(k)
  PROVE  KeysInv'
<1>1. Secrets!TypeOK
  BY DEF KeysInv
<1>2. at' = [at EXCEPT ![t] = "idle"] /\ held' = [held EXCEPT ![t] = k]
  BY DEF Secrets!Return, Secrets!Goes
<1>3. at' \in [Threads -> {"idle", "create", "reread", "write", "sync"}] /\ held' \in [Threads -> Secrets!Keys]
  BY <1>1, <1>2, KeysTyped
<1>4. Secrets!TypeOK'
  BY <1>1, <1>3 DEF Secrets!TypeOK, Secrets!Keys
<1>5. \A u \in Threads : (at'[u] = at[u] /\ u # t) \/ (at'[u] = "idle" /\ u = t)
  BY <1>1, <1>2, KeysTyped
<1>6. \A u \in Threads : held'[u] = held[u] \/ held'[u] = k
  BY <1>1, <1>2, KeysTyped
<1>7. Secrets!EmptyIsBeingFilled'
  BY <1>5 DEF KeysInv, Secrets!EmptyIsBeingFilled, Secrets!Empty
<1>8. OneFills'
  BY <1>5 DEF KeysInv, OneFills, Filling, Secrets!Empty, Secrets!Absent
<1>9. KeysAgree'
  BY <1>6 DEF KeysInv, KeysAgree, Good, Secrets!Empty, Secrets!Absent
<1> QED BY <1>4, <1>7, <1>8, <1>9 DEF KeysInv

LEMMA KeysAnswer ==
  ASSUME KeysInv, NEW t \in Threads, Secrets!Answer(t), at[t] # "write",
         UNCHANGED <<routine, kfFile, keys, mine, signed, interrupted, unsynced, starts, kfFaults>>
  PROVE  KeysInv'
<1>1. CASE kfFile.n = 0
  <2>1. Secrets!Return(t, Secrets!Absent) /\ Good(Secrets!Absent)
    BY <1>1 DEF Secrets!Answer, Good
  <2>2. Secrets!Absent \in Secrets!Keys
    BY ApplicationAssumption DEF Secrets!Absent, Secrets!Keys, Secrets!KeyFilesAssumption
  <2> QED BY <2>1, <2>2, KeysReturn
<1>2. CASE kfFile.n # 0
  <2>1. Secrets!Return(t, Secrets!Stripped(kfFile))
    BY <1>2 DEF Secrets!Answer
  <2>2. kfFile \in Secrets!Keys /\ kfFile # Secrets!Absent /\ kfFile # Secrets!Empty
    BY <1>2, SecretsDiffer DEF KeysInv, Secrets!TypeOK
  <2>3. ~(routine = "unsubscribe" /\ kfFile.blank) => ~kfFile.blank
    BY <2>2 DEF KeysInv, OneFills
  <2>4. ~(routine = "unsubscribe" /\ kfFile.blank) => Good(Secrets!Stripped(kfFile))
    BY <2>2, <2>3, StrippedKey DEF Good
  <2> QED BY <2>1, <2>2, <2>4, StrippedKey, KeysReturn
<1> QED BY <1>1, <1>2

\* Steps that change where a thread is and nothing else.
LEMMA KeysMove ==
  ASSUME KeysInv, NEW t \in Threads, NEW where \in {"create", "reread"}, Secrets!Goes(t, where), ~Filling(t),
         UNCHANGED <<routine, kfFile, keys, mine, held, signed, interrupted, unsynced, starts, kfFaults>>
  PROVE  KeysInv'
<1>1. Secrets!TypeOK /\ at' = [at EXCEPT ![t] = where]
  BY DEF KeysInv, Secrets!Goes
<1>2. at' \in [Threads -> {"idle", "create", "reread", "write", "sync"}]
  BY <1>1, KeysTyped
<1>3. Secrets!TypeOK'
  BY <1>1, <1>2 DEF Secrets!TypeOK, Secrets!Keys
<1>4. \A u \in Threads : at'[u] = at[u] \/ (u = t /\ at'[u] \notin {"write", "sync"})
  BY <1>1, KeysTyped
<1>5. Secrets!EmptyIsBeingFilled'
  BY <1>1, <1>4, KeysTyped DEF KeysInv, Secrets!EmptyIsBeingFilled, Secrets!Empty, Filling
<1>6. OneFills'
  BY <1>4 DEF KeysInv, OneFills, Filling, Secrets!Empty, Secrets!Absent
<1>7. KeysAgree'
  BY DEF KeysInv, KeysAgree, Good, Secrets!Empty, Secrets!Absent
<1> QED BY <1>3, <1>5, <1>6, <1>7 DEF KeysInv

\* O_CREAT | O_EXCL: the file was not there, so nobody fills it and nobody has a key.
LEMMA KeysCreate == ASSUME KeysInv, NEW t \in Threads, Secrets!Create(t) PROVE KeysInv'
<1>1. PICK b \in BOOLEAN : /\ mine' = [mine EXCEPT ![t] = [n |-> keys + 1, blank |-> b]]
                           /\ routine # "unsubscribe" => b = FALSE
  BY DEF Secrets!Create
<1>2. /\ Secrets!TypeOK /\ kfFile = Secrets!Absent /\ keys < MaxKeys /\ keys' = keys + 1 /\ kfFile' = Secrets!Empty
      /\ at' = [at EXCEPT ![t] = "write"]
      /\ UNCHANGED <<routine, held, signed, interrupted, unsynced, starts, kfFaults>>
  BY DEF KeysInv, Secrets!Create, Secrets!Goes
<1> DEFINE k == [n |-> keys + 1, blank |-> b]
<1>3. k \in Secrets!Keys /\ k.n # 0 /\ keys' \in 0..MaxKeys /\ Secrets!Empty \in Secrets!Keys
  BY <1>2, KeysTyped DEF Secrets!Keys, Secrets!Empty
<1>4. /\ at' \in [Threads -> {"idle", "create", "reread", "write", "sync"}]
      /\ mine' \in [Threads -> Secrets!Keys]
  BY <1>1, <1>2, <1>3, KeysTyped
<1>5. Secrets!TypeOK'
  BY <1>2, <1>3, <1>4 DEF Secrets!TypeOK, Secrets!Keys
<1>6. \A u \in Threads : ~Filling(u)
  <2> SUFFICES ASSUME NEW u \in Threads, Filling(u) PROVE FALSE
    OBVIOUS
  <2>1. kfFile.n # 0 \/ kfFile = Secrets!Empty
    BY DEF KeysInv, OneFills, Filling
  <2> QED BY <1>2, <2>1, SecretsDiffer
<1>7. /\ at'[t] = "write" /\ mine'[t] = k
      /\ \A u \in Threads \ {t} : at'[u] \notin {"write", "sync"}
  BY <1>1, <1>2, <1>6, KeysTyped DEF Filling
<1>8. OneFills'
  <2>1. \A u \in Threads : Filling(u)' => u = t
    BY <1>7 DEF Filling
  <2>2. kfFile' = Secrets!Empty' /\ ~kfFile'.blank
    BY <1>2 DEF Secrets!Empty
  <2>3. routine' # "unsubscribe" => ~mine'[t].blank
    BY <1>1, <1>2, <1>7
  <2> QED BY <1>3, <1>7, <2>1, <2>2, <2>3 DEF OneFills
<1>9. KeysAgree'
  <2>1. ~unsynced => (\A x \in signed : x = Secrets!Absent) /\ \A u \in Threads : held[u] = Secrets!Absent
    BY <1>2 DEF KeysInv, KeysAgree
  <2> QED BY <1>2, <2>1, SecretsDiffer DEF KeysAgree, Good, Secrets!Absent
<1>10. Secrets!EmptyIsBeingFilled'
  BY <1>7 DEF Secrets!EmptyIsBeingFilled
<1> QED BY <1>5, <1>8, <1>9, <1>10 DEF KeysInv

LEMMA KeysWrite == ASSUME KeysInv, NEW t \in Threads, Secrets!Write(t) PROVE KeysInv'
<1>1. /\ Secrets!TypeOK /\ at[t] = "write" /\ kfFile' = mine[t] /\ at' = [at EXCEPT ![t] = "sync"]
      /\ UNCHANGED <<routine, keys, mine, held, signed, interrupted, unsynced, starts, kfFaults>>
  BY DEF KeysInv, Secrets!Write, Secrets!Goes
<1>2. /\ kfFile = Secrets!Empty /\ mine[t].n # 0 /\ (routine # "unsubscribe" => ~mine[t].blank)
      /\ \A u \in Threads : Filling(u) => u = t
  BY <1>1 DEF KeysInv, OneFills, Filling
<1>3. at' \in [Threads -> {"idle", "create", "reread", "write", "sync"}] /\ mine[t] \in Secrets!Keys
  BY <1>1, KeysTyped
<1>4. Secrets!TypeOK'
  BY <1>1, <1>3 DEF Secrets!TypeOK, Secrets!Keys
<1>5. at'[t] = "sync" /\ \A u \in Threads \ {t} : at'[u] \notin {"write", "sync"}
  BY <1>1, <1>2, KeysTyped DEF Filling
<1>6. kfFile' # Secrets!Absent /\ kfFile' # Secrets!Empty
  BY <1>1, <1>2, SecretsDiffer
<1>7. OneFills'
  <2>1. \A u \in Threads : Filling(u)' => u = t
    BY <1>5 DEF Filling
  <2> QED BY <1>1, <1>2, <1>5, <2>1 DEF OneFills
<1>8. KeysAgree'
  <2>1. ~unsynced => /\ \A k \in signed : k = Secrets!Absent \/ (routine = "unsubscribe" /\ k = Secrets!Empty)
                     /\ \A u \in Threads : held[u] = Secrets!Absent \/ (routine = "unsubscribe" /\ held[u] = Secrets!Empty)
    BY <1>2, SecretsDiffer DEF KeysInv, KeysAgree, Good
  <2> QED BY <1>1, <1>6, <2>1 DEF KeysAgree, Good, Secrets!Absent, Secrets!Empty
<1>9. Secrets!EmptyIsBeingFilled'
  BY <1>6 DEF Secrets!EmptyIsBeingFilled, Secrets!Empty
<1> QED BY <1>4, <1>7, <1>8, <1>9 DEF KeysInv

LEMMA KeysFail == ASSUME KeysInv, NEW t \in Threads, Secrets!Fail(t) PROVE KeysInv'
<1>1. /\ Secrets!TypeOK /\ Filling(t) /\ kfFaults < MaxFaults
      /\ kfFile' = IF routine = "download" THEN Secrets!Absent ELSE kfFile
      /\ interrupted' = (interrupted \/ (at[t] = "write" /\ routine # "download"))
      /\ unsynced' = (unsynced \/ at[t] = "sync") /\ kfFaults' = kfFaults + 1
      /\ at' = [at EXCEPT ![t] = "idle"]
      /\ UNCHANGED <<routine, keys, mine, held, signed, starts>>
  BY DEF KeysInv, Secrets!Fail, Secrets!Goes, Filling
<1>2. /\ \A u \in Threads : Filling(u) => u = t
      /\ at[t] = "write" => kfFile = Secrets!Empty
      /\ at[t] = "sync" => kfFile = mine[t] /\ mine[t].n # 0
  BY <1>1 DEF KeysInv, OneFills, Filling
<1>3. at' \in [Threads -> {"idle", "create", "reread", "write", "sync"}]
  BY <1>1, KeysTyped
<1>4. Secrets!TypeOK'
  <2>1. kfFaults' \in 0..MaxFaults /\ kfFile' \in Secrets!Keys
    BY <1>1, KeysTyped DEF Secrets!Keys, Secrets!Absent
  <2>2. interrupted' \in BOOLEAN /\ unsynced' \in BOOLEAN
    BY <1>1
  <2> QED BY <1>1, <1>3, <2>1, <2>2 DEF Secrets!TypeOK, Secrets!Keys
<1>5. \A u \in Threads : at'[u] \notin {"write", "sync"}
  BY <1>1, <1>2, KeysTyped DEF Filling
<1>6. OneFills'
  BY <1>1, <1>5 DEF KeysInv, OneFills, Filling, Secrets!Absent, Secrets!Empty
<1>7. Secrets!EmptyIsBeingFilled'
  <2> SUFFICES ASSUME kfFile' = Secrets!Empty PROVE interrupted'
    BY DEF Secrets!EmptyIsBeingFilled, Secrets!Empty
  <2>1. kfFile = Secrets!Empty /\ routine # "download"
    BY <1>1, SecretsDiffer
  <2>2. at[t] = "write"
    BY <1>1, <1>2, <2>1, SecretsDiffer DEF Filling
  <2> QED BY <1>1, <2>1, <2>2
<1>8. KeysAgree'
  <2> SUFFICES ASSUME ~unsynced' PROVE KeysAgree'
    BY DEF KeysAgree
  <2>1. ~unsynced /\ at[t] = "write" /\ kfFile = Secrets!Empty
    BY <1>1, <1>2 DEF Filling
  <2>2. CASE routine # "download"
    BY <1>1, <2>1, <2>2 DEF KeysInv, KeysAgree, Good, Secrets!Absent, Secrets!Empty
  <2>3. CASE routine = "download"
    <3>1. (\A k \in signed : k = Secrets!Absent) /\ \A u \in Threads : held[u] = Secrets!Absent
      BY <2>1, <2>3 DEF KeysInv, KeysAgree, Good
    <3> QED BY <1>1, <3>1 DEF KeysAgree, Good, Secrets!Absent
  <2> QED BY <2>2, <2>3
<1> QED BY <1>4, <1>6, <1>7, <1>8 DEF KeysInv

LEMMA KeysSign == ASSUME KeysInv, NEW t \in Threads, Secrets!Sign(t) PROVE KeysInv'
<1>1. /\ Secrets!TypeOK /\ signed' = signed \cup {held[t]} /\ held[t] # Secrets!Absent
      /\ held' = held \/ held' = [held EXCEPT ![t] = Secrets!Absent]
      /\ UNCHANGED <<routine, kfFile, keys, at, mine, interrupted, unsynced, starts, kfFaults>>
  BY DEF KeysInv, Secrets!Sign
<1>2. Secrets!Absent \in Secrets!Keys
  BY <1>1, KeysTyped DEF Secrets!Keys, Secrets!Absent
<1>3. held' \in [Threads -> Secrets!Keys] /\ \A u \in Threads : held'[u] = held[u] \/ held'[u] = Secrets!Absent
  BY <1>1, <1>2, KeysTyped
<1>4. signed' \subseteq Secrets!Keys
  BY <1>1, KeysTyped
<1>5. Secrets!TypeOK'
  BY <1>1, <1>3, <1>4 DEF Secrets!TypeOK, Secrets!Keys
<1>6. Secrets!EmptyIsBeingFilled' /\ OneFills'
  BY <1>1 DEF KeysInv, Secrets!EmptyIsBeingFilled, OneFills, Filling, Secrets!Absent, Secrets!Empty
<1>7. KeysAgree'
  BY <1>1, <1>3 DEF KeysInv, KeysAgree, Good, Secrets!Absent, Secrets!Empty
<1> QED BY <1>5, <1>6, <1>7 DEF KeysInv

LEMMA KeysRestart == ASSUME KeysInv, Secrets!Restart PROVE KeysInv'
<1>1. /\ Secrets!TypeOK /\ starts < MaxStarts /\ starts' = starts + 1
      /\ interrupted' = (interrupted \/ \E t \in Threads : at[t] = "write")
      /\ at' = [t \in Threads |-> "idle"] /\ held' = [t \in Threads |-> Secrets!Absent]
      /\ UNCHANGED <<routine, kfFile, keys, mine, signed, unsynced, kfFaults>>
  BY DEF KeysInv, Secrets!Restart
<1>2. Secrets!Absent \in Secrets!Keys
  BY <1>1, KeysTyped DEF Secrets!Keys, Secrets!Absent
<1>3. starts' \in 0..MaxStarts /\ interrupted' \in BOOLEAN /\ held' \in [Threads -> Secrets!Keys]
      /\ at' \in [Threads -> {"idle", "create", "reread", "write", "sync"}]
  BY <1>1, <1>2, KeysTyped
<1>4. Secrets!TypeOK'
  BY <1>1, <1>3 DEF Secrets!TypeOK, Secrets!Keys
<1>5. (\A t \in Threads : at'[t] = "idle") /\ \A t \in Threads : held'[t] = Secrets!Absent
  BY <1>1
<1>6. Secrets!EmptyIsBeingFilled' /\ OneFills'
  BY <1>1, <1>5 DEF KeysInv, Secrets!EmptyIsBeingFilled, OneFills, Filling, Secrets!Absent, Secrets!Empty
<1>7. KeysAgree'
  BY <1>1, <1>5 DEF KeysInv, KeysAgree, Good, Secrets!Absent, Secrets!Empty
<1> QED BY <1>4, <1>6, <1>7 DEF KeysInv

LEMMA KeysKeep == KeysInv /\ Secrets!Next => KeysInv'
<1> SUFFICES ASSUME KeysInv, Secrets!Next PROVE KeysInv'
  OBVIOUS
<1>1. ASSUME NEW t \in Threads, Secrets!Look(t) PROVE KeysInv'
  <2>1. at[t] = "idle" /\ UNCHANGED <<routine, kfFile, keys, mine, signed, interrupted, unsynced, starts, kfFaults>>
    BY <1>1 DEF Secrets!Look
  <2>2. (Secrets!Goes(t, "create") /\ UNCHANGED held) \/ Secrets!Answer(t)
    BY <1>1 DEF Secrets!Look
  <2> QED BY <2>1, <2>2, KeysMove, KeysAnswer DEF Filling
<1>2. ASSUME NEW t \in Threads, Secrets!Exists(t) PROVE KeysInv'
  BY <1>2, KeysMove DEF Secrets!Exists, Filling
<1>3. ASSUME NEW t \in Threads, Secrets!Reread(t) PROVE KeysInv'
  <2>1. at[t] = "reread" /\ UNCHANGED <<routine, kfFile, keys, mine, signed, interrupted, unsynced, starts, kfFaults>>
    BY <1>3 DEF Secrets!Reread
  <2>2. CASE kfFile = Secrets!Empty /\ routine = "unsubscribe"
    <3>1. Secrets!Return(t, Secrets!Empty) /\ Good(Secrets!Empty) /\ kfFile # Secrets!Absent
      BY <1>3, <2>2, SecretsDiffer DEF Secrets!Reread, Good
    <3>2. Secrets!Empty \in Secrets!Keys
      BY <2>2 DEF KeysInv, Secrets!TypeOK
    <3> QED BY <2>1, <3>1, <3>2, KeysReturn
  <2>3. CASE ~(kfFile = Secrets!Empty /\ routine = "unsubscribe")
    BY <1>3, <2>1, <2>3, KeysAnswer DEF Secrets!Reread
  <2> QED BY <2>2, <2>3
<1>4. ASSUME NEW t \in Threads, Secrets!Sync(t) PROVE KeysInv'
  <2>1. /\ at[t] = "sync" /\ Secrets!Return(t, mine[t])
        /\ UNCHANGED <<routine, kfFile, keys, mine, signed, interrupted, unsynced, starts, kfFaults>>
    BY <1>4 DEF Secrets!Sync
  <2>2. kfFile = mine[t] /\ mine[t].n # 0
    BY <2>1 DEF KeysInv, OneFills, Filling
  <2>3. Good(mine[t]) /\ kfFile # Secrets!Absent
    BY <2>2, SecretsDiffer DEF Good
  <2>4. mine[t] \in Secrets!Keys
    BY KeysTyped DEF KeysInv
  <2> QED BY <2>1, <2>3, <2>4, KeysReturn
<1> QED BY <1>1, <1>2, <1>3, <1>4, KeysCreate, KeysWrite, KeysFail, KeysSign, KeysRestart DEF Secrets!Next

LEMMA KeysStart == Secrets!Init => KeysInv
<1> SUFFICES ASSUME Secrets!Init PROVE KeysInv
  OBVIOUS
<1>1. Secrets!Absent \in Secrets!Keys /\ MaxKeys \in Nat /\ MaxStarts \in Nat /\ MaxFaults \in Nat
  BY ApplicationAssumption DEF Secrets!KeyFilesAssumption, Secrets!Keys, Secrets!Absent
<1>2. Secrets!TypeOK
  <2>1. /\ routine \in Routines /\ kfFile = Secrets!Absent /\ keys = 0 /\ starts = 0 /\ kfFaults = 0
        /\ at = [t \in Threads |-> "idle"] /\ mine = [t \in Threads |-> Secrets!Absent]
        /\ held = [t \in Threads |-> Secrets!Absent] /\ signed = {}
        /\ interrupted = FALSE /\ unsynced = FALSE
    BY DEF Secrets!Init
  <2>2. mine \in [Threads -> Secrets!Keys] /\ held \in [Threads -> Secrets!Keys]
        /\ at \in [Threads -> {"idle", "create", "reread", "write", "sync"}]
    BY <1>1, <2>1
  <2>3. keys \in 0..MaxKeys /\ starts \in 0..MaxStarts /\ kfFaults \in 0..MaxFaults
    BY <1>1, <2>1
  <2> QED BY <1>1, <2>1, <2>2, <2>3 DEF Secrets!TypeOK
<1>3. Secrets!EmptyIsBeingFilled /\ OneFills /\ KeysAgree
  BY SecretsDiffer DEF Secrets!Init, Secrets!EmptyIsBeingFilled, OneFills, Filling, KeysAgree, Good
<1> QED BY <1>2, <1>3 DEF KeysInv

LEMMA KeysTurns == KeysInv /\ [AllNext]_allVars => KeysInv'
<1> SUFFICES ASSUME KeysInv, [AllNext]_allVars PROVE KeysInv'
  OBVIOUS
<1>1. CASE Secrets!Next
  BY <1>1, KeysKeep
<1>2. CASE UNCHANGED keysVars
  BY <1>2 DEF keysVars, KeysInv, Secrets!TypeOK, Secrets!Keys, Secrets!EmptyIsBeingFilled, OneFills, Filling,
              KeysAgree, Good, Secrets!Absent, Secrets!Empty
<1> QED BY <1>1, <1>2 DEF AllNext, allVars

LEMMA KeysShow == KeysInv => Secrets!TypeOK /\ Secrets!OneKey /\ Secrets!EmptyIsBeingFilled
<1> SUFFICES ASSUME KeysInv PROVE Secrets!OneKey
  BY DEF KeysInv
<1> QED BY DEF KeysInv, KeysAgree, Good, Secrets!OneKey

\* Links and confirmations that were given out are signed with the one key that stays in the
\* file, whoever created it beside whom, whichever write failed and however often the process
\* was killed, with any number of threads.
THEOREM OneKeyStays == AllSpec => [](Secrets!TypeOK /\ Secrets!OneKey /\ Secrets!EmptyIsBeingFilled)
<1>1. AllInit => KeysInv
  BY KeysStart DEF AllInit
<1> QED BY <1>1, KeysShow, KeysTurns, PTL DEF AllSpec
-----------------------------------------------------------------------------
(***************************************************************************)
(* The persistent file store.                                              *)
(***************************************************************************)

Saving(c) == fsCalls[c].pc \in {"write", "insert"}
Removing(c) == fsCalls[c].pc \in {"delete", "unlink"}

StoreTyped ==
  /\ fsLoad \in StoreLoads /\ leftBytes \subseteq Contents
  /\ rows \in [Files -> {Store!NoBlob} \cup {Store!Some(d) : d \in Contents}]
  /\ blobs \subseteq Contents
  /\ fsCalls \in [Savers -> Store!Calls]

\* A call that is under way: the file of a save is not stored and has room.
CallFits(c) ==
  /\ fsCalls[c].pc # "idle" => c \in fsLoad.callers
  /\ Saving(c) => \E f \in Files, d \in Contents :
                    /\ fsCalls[c].file = {f} /\ fsCalls[c].content = {d}
                    /\ rows[f] = {} /\ Store!Fits(d)
  /\ Removing(c) => \E f \in Files, d \in Contents : fsCalls[c].file = {f} /\ fsCalls[c].content = {d}

\* One save at a time.
OneSaves == \A c, e \in Savers : Saving(c) /\ Saving(e) => c = e

\* The bytes of all files, which Total counts.
AllBytes == UNION {Store!Bytes(f) : f \in Files}

StoreLimits ==
  /\ IsFiniteSet(Store!Stored) /\ IsFiniteSet(AllBytes)
  /\ Cardinality(Store!Stored) <= MaxFiles /\ Cardinality(AllBytes) <= MaxTotal

\* A caller alone finds the bytes it counts on: a save that inserts has them, and a deletion that
\* unlinks has left no file with them.
AloneFinds ==
  (\A c, e \in fsLoad.callers : c = e) =>
    /\ \A f \in Files : rows[f] \subseteq blobs
    /\ \A c \in Savers : fsCalls[c].pc = "insert" => fsCalls[c].content \subseteq blobs
    /\ \A c \in Savers : fsCalls[c].pc = "unlink" => \A f \in Files : rows[f] # fsCalls[c].content

\* Bytes without a file are about to get one or to be removed, or were left behind.
BlobsWanted ==
  \A d \in blobs : \/ \E f \in Files : rows[f] = {d}
                   \/ \E c \in Savers : fsCalls[c].pc \in {"insert", "unlink"} /\ fsCalls[c].content = {d}
                   \/ d \in leftBytes

StoreInv ==
  /\ StoreTyped /\ (\A c \in Savers : CallFits(c)) /\ OneSaves /\ StoreLimits /\ AloneFinds /\ BlobsWanted

LEMMA StoreCardinality ==
  ASSUME NEW S
  PROVE  Store!Cardinality(S) = Cardinality(S)
BY DEF Store!Cardinality, Cardinality

LEMMA StoreFinite ==
  ASSUME NEW S, Store!IsFiniteSet(S)
  PROVE  IsFiniteSet(S)
BY DEF Store!IsFiniteSet, IsFiniteSet

LEMMA StoreConstants ==
  /\ Size \in [Contents -> Nat] /\ IsFiniteSet(Savers) /\ MaxFiles \in Nat \ {0} /\ MaxTotal \in Nat
  /\ \A l \in StoreLoads : l.callers \subseteq Savers
BY ApplicationAssumption, StoreFinite DEF Store!ConstantsAssumption

StoreSteps == {"idle", "write", "insert", "delete", "unlink"}

LEMMA CallOf ==
  ASSUME NEW k \in Store!Calls
  PROVE  k.pc \in StoreSteps
BY DEF Store!Calls, StoreSteps

LEMMA CallWith ==
  ASSUME NEW k \in Store!Calls, NEW p \in StoreSteps, NEW r, r = [k EXCEPT !.pc = p]
  PROVE  r \in Store!Calls /\ r.pc = p /\ r.file = k.file /\ r.content = k.content
BY DEF Store!Calls, StoreSteps

LEMMA CallMade ==
  ASSUME NEW p \in StoreSteps, NEW f \in Files, NEW d \in Contents, NEW r,
         r = [pc |-> p, file |-> {f}, content |-> Store!Some(d)]
  PROVE  r \in Store!Calls /\ r.pc = p /\ r.file = {f} /\ r.content = {d}
BY DEF Store!Calls, Store!Some, StoreSteps

LEMMA CallNone == Store!Idle \in Store!Calls /\ Store!Idle.pc = "idle"
BY DEF Store!Calls, Store!Idle, Store!NoBlob

LEMMA CallTurns ==
  ASSUME StoreTyped, NEW c \in Savers, NEW x \in Store!Calls, fsCalls' = [fsCalls EXCEPT ![c] = x]
  PROVE  /\ fsCalls' \in [Savers -> Store!Calls] /\ fsCalls'[c] = x
         /\ \A e \in Savers \ {c} : fsCalls'[e] = fsCalls[e]
<1>1. fsCalls \in [Savers -> Store!Calls]
  BY DEF StoreTyped
<1> QED BY <1>1

LEMMA SameRows ==
  ASSUME rows' = rows
  PROVE  Store!Stored' = Store!Stored /\ AllBytes' = AllBytes /\ Store!Total' = Store!Total
BY DEF Store!Stored, AllBytes, Store!Total, Store!Bytes

LEMMA TotalIs == Store!Total = Cardinality(AllBytes)
BY StoreCardinality DEF Store!Total, AllBytes

LEMMA FitsIs ==
  ASSUME NEW d
  PROVE  Store!Fits(d) <=> Cardinality(Store!Stored) < MaxFiles /\ Cardinality(AllBytes) + Size[d] <= MaxTotal
BY StoreCardinality, TotalIs DEF Store!Fits

LEMMA SameFits ==
  ASSUME rows' = rows, NEW d, Store!Fits(d)
  PROVE  Store!Fits(d)'
<1>1. Store!Stored' = Store!Stored /\ Store!Total' = Store!Total
  BY SameRows
<1> QED BY <1>1 DEF Store!Fits

\* What makes a turn of the caller c to the call x fit, when it leaves the rows alone: a save has the
\* lock and its place, a caller alone finds its bytes, and what is written is some file's, about to
\* be, or left behind.
SavesWell(c, x) ==
  x.pc \in {"write", "insert"} =>
    /\ \E f \in Files, d \in Contents : x.file = {f} /\ x.content = {d} /\ rows[f] = {} /\ Store!Fits(d)
    /\ \A e \in Savers \ {c} : ~Saving(e)

RemovesWell(x) ==
  x.pc \in {"delete", "unlink"} => \E f \in Files, d \in Contents : x.file = {f} /\ x.content = {d}

FindsAlone(c, x) ==
  (\A a, b \in fsLoad.callers : a = b) =>
    /\ \A f \in Files : rows[f] \subseteq blobs'
    /\ \A e \in Savers \ {c} : fsCalls[e].pc = "insert" => fsCalls[e].content \subseteq blobs'
    /\ x.pc = "insert" => x.content \subseteq blobs'
    /\ x.pc = "unlink" => \A f \in Files : rows[f] # x.content

WantedStill(c, x) ==
  \A d \in blobs' : \/ \E f \in Files : rows[f] = {d}
                    \/ \E e \in Savers \ {c} : fsCalls[e].pc \in {"insert", "unlink"} /\ fsCalls[e].content = {d}
                    \/ x.pc \in {"insert", "unlink"} /\ x.content = {d}
                    \/ d \in leftBytes'

\* A turn of one caller, to the call x, that leaves the rows alone.
LEMMA StoreMoves ==
  ASSUME StoreInv, NEW c \in Savers, NEW x \in Store!Calls, fsCalls' = [fsCalls EXCEPT ![c] = x],
         UNCHANGED <<fsLoad, rows>>, blobs' \subseteq Contents, leftBytes' \subseteq Contents,
         x.pc # "idle" => c \in fsLoad.callers,
         SavesWell(c, x), RemovesWell(x), FindsAlone(c, x), WantedStill(c, x)
  PROVE  StoreInv'
<1>1. /\ fsCalls' \in [Savers -> Store!Calls] /\ fsCalls'[c] = x
      /\ \A e \in Savers \ {c} : fsCalls'[e] = fsCalls[e]
  BY CallTurns DEF StoreInv
<1>2. StoreTyped'
  BY <1>1 DEF StoreInv, StoreTyped, Store!Calls, Store!NoBlob, Store!Some
<1>3. ASSUME NEW e \in Savers PROVE CallFits(e)'
  <2>1. CASE e # c
    <3>1. CallFits(e) /\ fsCalls'[e] = fsCalls[e]
      BY <1>1, <2>1 DEF StoreInv
    <3>2. Saving(e)' => \E f \in Files, d \in Contents :
            fsCalls'[e].file = {f} /\ fsCalls'[e].content = {d} /\ rows'[f] = {} /\ Store!Fits(d)'
      BY <3>1, SameFits DEF CallFits, Saving
    <3>3. Removing(e)' => \E f \in Files, d \in Contents : fsCalls'[e].file = {f} /\ fsCalls'[e].content = {d}
      BY <3>1 DEF CallFits, Removing
    <3> QED BY <3>1, <3>2, <3>3 DEF CallFits
  <2>2. CASE e = c
    <3>1. Saving(c)' => \E f \in Files, d \in Contents :
            fsCalls'[c].file = {f} /\ fsCalls'[c].content = {d} /\ rows'[f] = {} /\ Store!Fits(d)'
      BY <1>1, SameFits DEF SavesWell, Saving
    <3>2. Removing(c)' => \E f \in Files, d \in Contents : fsCalls'[c].file = {f} /\ fsCalls'[c].content = {d}
      BY <1>1 DEF RemovesWell, Removing
    <3> QED BY <1>1, <2>2, <3>1, <3>2 DEF CallFits
  <2> QED BY <2>1, <2>2
<1>4. OneSaves'
  <2>1. ASSUME NEW a \in Savers, NEW b \in Savers, Saving(a)', Saving(b)' PROVE a = b
    BY <1>1, <2>1 DEF SavesWell, StoreInv, OneSaves, Saving
  <2> QED BY <2>1 DEF OneSaves
<1>5. StoreLimits'
  BY SameRows DEF StoreInv, StoreLimits
<1>6. AloneFinds'
  BY <1>1 DEF FindsAlone, StoreInv, AloneFinds
<1>7. BlobsWanted'
  <2> SUFFICES ASSUME NEW d \in blobs'
               PROVE  \/ \E f \in Files : rows'[f] = {d}
                      \/ \E e \in Savers : fsCalls'[e].pc \in {"insert", "unlink"} /\ fsCalls'[e].content = {d}
                      \/ d \in leftBytes'
    BY DEF BlobsWanted
  <2> QED BY <1>1 DEF WantedStill
<1> QED BY <1>2, <1>3, <1>4, <1>5, <1>6, <1>7 DEF StoreInv

LEMMA StoreSaveChecks ==
  ASSUME StoreInv, NEW c \in fsLoad.callers, c \in Savers, Store!SaveChecks(c)
  PROVE  StoreInv'
<1>1. PICK f \in Files, d \in Contents :
        /\ fsCalls[c].pc = "idle" /\ Store!LockFree /\ f \notin Store!Stored /\ Store!Fits(d)
        /\ fsCalls' = [fsCalls EXCEPT ![c] = [pc |-> IF d \in blobs THEN "insert" ELSE "write",
                                              file |-> {f}, content |-> Store!Some(d)]]
        /\ UNCHANGED <<fsLoad, rows, blobs, leftBytes>>
  BY DEF Store!SaveChecks, Store!Goes
<1>2. PICK p \in {"insert", "write"} : p = IF d \in blobs THEN "insert" ELSE "write"
  OBVIOUS
<1>3. PICK x : x = [pc |-> p, file |-> {f}, content |-> Store!Some(d)]
  OBVIOUS
<1>4. x \in Store!Calls /\ x.pc = p /\ x.file = {f} /\ x.content = {d} /\ fsCalls' = [fsCalls EXCEPT ![c] = x]
  BY <1>1, <1>2, <1>3, CallMade DEF StoreSteps
<1>5. rows[f] = {}
  BY <1>1 DEF Store!Stored, Store!NoBlob
<1>6. \A e \in Savers : ~Saving(e)
  BY <1>1 DEF Store!LockFree, Saving
<1>8. \E g \in Files, y \in Contents : x.file = {g} /\ x.content = {y} /\ rows[g] = {} /\ Store!Fits(y)
  BY <1>1, <1>4, <1>5
<1>9. x.pc = "insert" => x.content \subseteq blobs'
  BY <1>1, <1>2, <1>4
<1>10. /\ blobs' \subseteq Contents /\ leftBytes' \subseteq Contents
       /\ \A y \in blobs' : \/ \E g \in Files : rows[g] = {y}
                            \/ \E e \in Savers \ {c} : fsCalls[e].pc \in {"insert", "unlink"} /\ fsCalls[e].content = {y}
                            \/ y \in leftBytes'
  BY <1>1 DEF StoreInv, StoreTyped, BlobsWanted
<1>11. (\A a, b \in fsLoad.callers : a = b) =>
           /\ \A g \in Files : rows[g] \subseteq blobs'
           /\ \A e \in Savers \ {c} : fsCalls[e].pc = "insert" => fsCalls[e].content \subseteq blobs'
  BY <1>1 DEF StoreInv, AloneFinds
<1>12. SavesWell(c, x)
  BY <1>6, <1>8 DEF SavesWell
<1>13. RemovesWell(x)
  BY <1>2, <1>4 DEF RemovesWell
<1>14. FindsAlone(c, x)
  BY <1>2, <1>4, <1>9, <1>11 DEF FindsAlone
<1>15. WantedStill(c, x)
  BY <1>10 DEF WantedStill
<1>16. UNCHANGED <<fsLoad, rows>>
  BY <1>1
<1>17. x \in Store!Calls /\ fsCalls' = [fsCalls EXCEPT ![c] = x] /\ (x.pc # "idle" => c \in fsLoad.callers)
  BY <1>4
<1> QED BY <1>10, <1>12, <1>13, <1>14, <1>15, <1>16, <1>17, StoreMoves

LEMMA StoreSaveWrites ==
  ASSUME StoreInv, NEW c \in fsLoad.callers, c \in Savers, Store!SaveWrites(c)
  PROVE  StoreInv'
<1>1. /\ fsCalls[c].pc = "write" /\ blobs' = blobs \cup fsCalls[c].content
      /\ fsCalls' = [fsCalls EXCEPT ![c] = [fsCalls[c] EXCEPT !.pc = "insert"]]
      /\ UNCHANGED <<fsLoad, rows, leftBytes>>
  BY DEF Store!SaveWrites
<1>2. PICK x : x = [fsCalls[c] EXCEPT !.pc = "insert"]
  OBVIOUS
<1>3. fsCalls[c] \in Store!Calls
  BY DEF StoreInv, StoreTyped
<1>4. x \in Store!Calls /\ x.pc = "insert" /\ x.file = fsCalls[c].file /\ x.content = fsCalls[c].content
      /\ fsCalls' = [fsCalls EXCEPT ![c] = x]
  BY <1>1, <1>2, <1>3, CallWith DEF StoreSteps
<1>5. PICK f \in Files, d \in Contents :
        fsCalls[c].file = {f} /\ fsCalls[c].content = {d} /\ rows[f] = {} /\ Store!Fits(d)
  BY <1>1 DEF StoreInv, CallFits, Saving
<1>6. \A e \in Savers \ {c} : ~Saving(e)
  BY <1>1 DEF StoreInv, OneSaves, Saving
<1>7. blobs' \subseteq Contents /\ leftBytes' \subseteq Contents
  BY <1>1, <1>5 DEF StoreInv, StoreTyped
<1>8. \E g \in Files, y \in Contents : x.file = {g} /\ x.content = {y} /\ rows[g] = {} /\ Store!Fits(y)
  BY <1>4, <1>5
<1>9. (\A a, b \in fsLoad.callers : a = b) =>
        /\ \A g \in Files : rows[g] \subseteq blobs'
        /\ \A e \in Savers \ {c} : fsCalls[e].pc = "insert" => fsCalls[e].content \subseteq blobs'
        /\ x.content \subseteq blobs'
  BY <1>1, <1>4 DEF StoreInv, AloneFinds
<1>10. \A y \in blobs' : \/ \E g \in Files : rows[g] = {y}
                         \/ \E e \in Savers \ {c} : fsCalls[e].pc \in {"insert", "unlink"} /\ fsCalls[e].content = {y}
                         \/ x.content = {y} \/ y \in leftBytes'
  BY <1>1, <1>4, <1>5 DEF StoreInv, BlobsWanted
<1>12. SavesWell(c, x)
  BY <1>6, <1>8 DEF SavesWell
<1>13. RemovesWell(x)
  BY <1>4 DEF RemovesWell
<1>14. FindsAlone(c, x)
  BY <1>4, <1>9 DEF FindsAlone
<1>15. WantedStill(c, x)
  BY <1>4, <1>10 DEF WantedStill
<1>16. UNCHANGED <<fsLoad, rows>>
  BY <1>1
<1>17. x \in Store!Calls /\ fsCalls' = [fsCalls EXCEPT ![c] = x] /\ (x.pc # "idle" => c \in fsLoad.callers)
  BY <1>4
<1> QED BY <1>7, <1>12, <1>13, <1>14, <1>15, <1>16, <1>17, StoreMoves

\* A call that ends before its commit.
LEMMA StoreEnds ==
  ASSUME StoreInv, NEW c \in Savers, fsCalls' = [fsCalls EXCEPT ![c] = Store!Idle],
         UNCHANGED <<fsLoad, rows, blobs>>, leftBytes \subseteq leftBytes', leftBytes' \subseteq Contents,
         fsCalls[c].pc \in {"insert", "unlink"} =>
           \A d \in Contents : fsCalls[c].content = {d} => d \in leftBytes' \/ \E f \in Files : rows[f] = {d}
  PROVE  StoreInv'
<1>1. blobs' \subseteq Contents
  BY DEF StoreInv, StoreTyped
<1>2. (\A a, b \in fsLoad.callers : a = b) =>
        /\ \A g \in Files : rows[g] \subseteq blobs'
        /\ \A e \in Savers \ {c} : fsCalls[e].pc = "insert" => fsCalls[e].content \subseteq blobs'
  BY DEF StoreInv, AloneFinds
<1>3. \A y \in blobs' : \/ \E g \in Files : rows[g] = {y}
                        \/ \E e \in Savers \ {c} : fsCalls[e].pc \in {"insert", "unlink"} /\ fsCalls[e].content = {y}
                        \/ y \in leftBytes'
  BY <1>1 DEF StoreInv, BlobsWanted
<1>4. Store!Idle \in Store!Calls /\ Store!Idle.pc = "idle"
  BY CallNone
<1>5. /\ SavesWell(c, Store!Idle) /\ RemovesWell(Store!Idle) /\ FindsAlone(c, Store!Idle)
      /\ WantedStill(c, Store!Idle)
  BY <1>2, <1>3, <1>4 DEF SavesWell, RemovesWell, FindsAlone, WantedStill
<1> QED BY <1>1, <1>4, <1>5, StoreMoves

LEMMA StoreSaveFails ==
  ASSUME StoreInv, NEW c \in fsLoad.callers, c \in Savers, Store!SaveFails(c)
  PROVE  StoreInv'
<1>1. /\ fsCalls[c].pc \in {"write", "insert"} /\ fsCalls' = [fsCalls EXCEPT ![c] = Store!Idle]
      /\ leftBytes' = IF fsCalls[c].pc = "insert" THEN leftBytes \cup Store!Bare(fsCalls[c].content) ELSE leftBytes
      /\ UNCHANGED <<fsLoad, rows, blobs>>
  BY DEF Store!SaveFails
<1>2. PICK d \in Contents : fsCalls[c].content = {d}
  BY <1>1 DEF StoreInv, CallFits, Saving
<1>3. leftBytes \subseteq leftBytes' /\ leftBytes' \subseteq Contents
  BY <1>1, <1>2 DEF StoreInv, StoreTyped, Store!Bare
<1>4. fsCalls[c].pc = "insert" => d \in leftBytes' \/ \E f \in Files : rows[f] = {d}
  BY <1>1, <1>2 DEF Store!Bare, Store!References, Store!Some
<1> QED BY <1>1, <1>2, <1>3, <1>4, StoreEnds

LEMMA StoreDeleteFails ==
  ASSUME StoreInv, NEW c \in fsLoad.callers, c \in Savers, Store!DeleteFails(c)
  PROVE  StoreInv'
<1>1. /\ fsCalls[c].pc \in {"delete", "unlink"} /\ fsCalls' = [fsCalls EXCEPT ![c] = Store!Idle]
      /\ leftBytes' = IF fsCalls[c].pc = "unlink" THEN leftBytes \cup Store!Bare(fsCalls[c].content) ELSE leftBytes
      /\ UNCHANGED <<fsLoad, rows, blobs>>
  BY DEF Store!DeleteFails
<1>2. PICK d \in Contents : fsCalls[c].content = {d}
  BY <1>1 DEF StoreInv, CallFits, Removing
<1>3. leftBytes \subseteq leftBytes' /\ leftBytes' \subseteq Contents
  BY <1>1, <1>2 DEF StoreInv, StoreTyped, Store!Bare
<1>4. fsCalls[c].pc = "unlink" => d \in leftBytes' \/ \E f \in Files : rows[f] = {d}
  BY <1>1, <1>2 DEF Store!Bare, Store!References, Store!Some
<1> QED BY <1>1, <1>2, <1>3, <1>4, StoreEnds

LEMMA StoreDeleteReads ==
  ASSUME StoreInv, NEW c \in fsLoad.callers, c \in Savers, Store!DeleteReads(c)
  PROVE  StoreInv'
<1>1. PICK f \in Store!Stored :
        /\ fsCalls[c].pc = "idle" /\ UNCHANGED <<fsLoad, rows, blobs, leftBytes>>
        /\ fsCalls' = [fsCalls EXCEPT ![c] = [pc |-> "delete", file |-> {f}, content |-> rows[f]]]
  BY DEF Store!DeleteReads, Store!Goes
<1>2. f \in Files /\ rows[f] # {}
  BY DEF Store!Stored, Store!NoBlob
<1>3. PICK d \in Contents : rows[f] = {d}
  BY <1>2 DEF StoreInv, StoreTyped, Store!Some, Store!NoBlob
<1>4. PICK x : x = [pc |-> "delete", file |-> {f}, content |-> Store!Some(d)]
  OBVIOUS
<1>5. x \in Store!Calls /\ x.pc = "delete" /\ x.file = {f} /\ x.content = {d} /\ fsCalls' = [fsCalls EXCEPT ![c] = x]
  <2>1. "delete" \in StoreSteps /\ rows[f] = Store!Some(d)
    BY <1>3 DEF StoreSteps, Store!Some
  <2> QED BY <1>1, <1>2, <1>4, <2>1, CallMade
<1>6. blobs' \subseteq Contents /\ leftBytes' \subseteq Contents
  BY <1>1 DEF StoreInv, StoreTyped
<1>8. (\A a, b \in fsLoad.callers : a = b) =>
        /\ \A g \in Files : rows[g] \subseteq blobs'
        /\ \A e \in Savers \ {c} : fsCalls[e].pc = "insert" => fsCalls[e].content \subseteq blobs'
  BY <1>1 DEF StoreInv, AloneFinds
<1>9. \A y \in blobs' : \/ \E g \in Files : rows[g] = {y}
                        \/ \E e \in Savers \ {c} : fsCalls[e].pc \in {"insert", "unlink"} /\ fsCalls[e].content = {y}
                        \/ y \in leftBytes'
  BY <1>1 DEF StoreInv, BlobsWanted
<1>12. SavesWell(c, x)
  BY <1>5 DEF SavesWell
<1>13. RemovesWell(x)
  BY <1>2, <1>5 DEF RemovesWell
<1>14. FindsAlone(c, x)
  BY <1>5, <1>8 DEF FindsAlone
<1>15. WantedStill(c, x)
  BY <1>9 DEF WantedStill
<1> QED BY <1>1, <1>5, <1>6, <1>12, <1>13, <1>14, <1>15, StoreMoves

LEMMA StoreDeleteUnlinks ==
  ASSUME StoreInv, NEW c \in fsLoad.callers, c \in Savers, Store!DeleteUnlinks(c)
  PROVE  StoreInv'
<1>1. /\ fsCalls[c].pc = "unlink" /\ blobs' = blobs \ fsCalls[c].content /\ leftBytes' = leftBytes \ fsCalls[c].content
      /\ fsCalls' = [fsCalls EXCEPT ![c] = Store!Idle] /\ UNCHANGED <<fsLoad, rows>>
  BY DEF Store!DeleteUnlinks
<1>2. PICK f \in Files, d \in Contents : fsCalls[c].file = {f} /\ fsCalls[c].content = {d}
  BY <1>1 DEF StoreInv, CallFits, Removing
<1>3. blobs' \subseteq Contents /\ leftBytes' \subseteq Contents
  BY <1>1 DEF StoreInv, StoreTyped
<1>4. (\A a, b \in fsLoad.callers : a = b) =>
        /\ \A g \in Files : rows[g] \subseteq blobs'
        /\ \A e \in Savers \ {c} : fsCalls[e].pc = "insert" => fsCalls[e].content \subseteq blobs'
  <2> SUFFICES ASSUME \A a, b \in fsLoad.callers : a = b
               PROVE  /\ \A g \in Files : rows[g] \subseteq blobs'
                      /\ \A e \in Savers \ {c} : fsCalls[e].pc # "insert"
    OBVIOUS
  <2>1. \A e \in Savers \ {c} : fsCalls[e].pc = "idle"
    BY DEF StoreInv, CallFits
  <2>2. ASSUME NEW g \in Files PROVE rows[g] \subseteq blobs'
    <3>1. rows[g] \subseteq blobs /\ rows[g] # {d}
      BY <1>1, <1>2 DEF StoreInv, AloneFinds
    <3>2. rows[g] = {} \/ \E y : rows[g] = {y}
      BY DEF StoreInv, StoreTyped, Store!Some, Store!NoBlob
    <3> QED BY <1>1, <1>2, <3>1, <3>2
  <2> QED BY <2>1, <2>2
<1>5. \A y \in blobs' : \/ \E g \in Files : rows[g] = {y}
                        \/ \E e \in Savers \ {c} : fsCalls[e].pc \in {"insert", "unlink"} /\ fsCalls[e].content = {y}
                        \/ y \in leftBytes'
  BY <1>1, <1>2 DEF StoreInv, BlobsWanted
<1>6. Store!Idle \in Store!Calls /\ Store!Idle.pc = "idle"
  BY CallNone
<1>7. /\ SavesWell(c, Store!Idle) /\ RemovesWell(Store!Idle) /\ FindsAlone(c, Store!Idle)
      /\ WantedStill(c, Store!Idle)
  BY <1>4, <1>5, <1>6 DEF SavesWell, RemovesWell, FindsAlone, WantedStill
<1> QED BY <1>1, <1>3, <1>6, <1>7, StoreMoves

\* The file of a save that commits adds its bytes.
LEMMA MoreRows ==
  ASSUME StoreTyped, IsFiniteSet(AllBytes), IsFiniteSet(Store!Stored), NEW g \in Files, NEW d \in Contents,
         rows[g] = {}, rows'[g] = {d}, \A f \in Files \ {g} : rows'[f] = rows[f]
  PROVE  /\ IsFiniteSet(Store!Stored') /\ IsFiniteSet(AllBytes')
         /\ Cardinality(Store!Stored') = Cardinality(Store!Stored) + 1
         /\ Cardinality(AllBytes') <= Cardinality(AllBytes) + Size[d]
<1>1. Store!Stored' = Store!Stored \cup {g} /\ g \notin Store!Stored
  BY DEF Store!Stored, Store!NoBlob
<1>2. IsFiniteSet(Store!Stored') /\ Cardinality(Store!Stored') = Cardinality(Store!Stored) + 1
  BY <1>1, FS_AddElement
<1>3. Size[d] \in Nat
  BY StoreConstants
<1> DEFINE added == {g} \X (1..Size[d])
<1>4. UNION {1..Size[y] : y \in {d}} = 1..Size[d]
  OBVIOUS
<1>5. Store!Bytes(g)' = added
  BY <1>4 DEF Store!Bytes
<1>6. \A f \in Files \ {g} : Store!Bytes(f)' = Store!Bytes(f)
  BY DEF Store!Bytes
<1>7. AllBytes' \subseteq AllBytes \cup added
  BY <1>5, <1>6 DEF AllBytes
<1>8. IsFiniteSet(added) /\ Cardinality(added) = Size[d]
  <2>1. IsFiniteSet(1..Size[d]) /\ Cardinality(1..Size[d]) = Size[d]
    BY <1>3, FS_Interval, SMTT(60)
  <2>2. IsFiniteSet({g}) /\ Cardinality({g}) = 1
    BY FS_Singleton
  <2>3. IsFiniteSet(added) /\ Cardinality(added) = 1 * Size[d]
    <3>1. IsFiniteSet(added) /\ Cardinality(added) = Cardinality({g}) * Cardinality(1..Size[d])
      BY <2>1, <2>2, FS_Product
    <3> QED BY <2>1, <2>2, <3>1, Zenon
  <2> QED BY <1>3, <2>3
<1>9. /\ IsFiniteSet(AllBytes \cup added)
      /\ Cardinality(AllBytes \cup added) = Cardinality(AllBytes) + Size[d] - Cardinality(AllBytes \cap added)
  BY <1>8, FS_Union
<1>10. Cardinality(AllBytes \cap added) \in Nat
  BY <1>8, FS_Subset, FS_CardinalityType
<1>11. IsFiniteSet(AllBytes') /\ Cardinality(AllBytes') <= Cardinality(AllBytes \cup added)
  BY <1>7, <1>9, FS_Subset
<1>12. Cardinality(AllBytes) \in Nat /\ Cardinality(AllBytes') \in Nat /\ Cardinality(AllBytes \cup added) \in Nat
  BY <1>9, <1>11, FS_CardinalityType
<1>13. Cardinality(AllBytes') <= Cardinality(AllBytes) + Size[d]
  BY <1>3, <1>9, <1>10, <1>11, <1>12
<1> QED BY <1>2, <1>11, <1>13

LEMMA FewerRows ==
  ASSUME StoreLimits, \A f \in Files : rows'[f] \in {rows[f], {}}
  PROVE  /\ IsFiniteSet(Store!Stored') /\ IsFiniteSet(AllBytes')
         /\ Cardinality(Store!Stored') <= MaxFiles /\ Cardinality(AllBytes') <= MaxTotal
<1>1. Store!Stored' \subseteq Store!Stored
  BY DEF Store!Stored, Store!NoBlob
<1>2. AllBytes' \subseteq AllBytes
  <2>1. ASSUME NEW f \in Files PROVE Store!Bytes(f)' \subseteq Store!Bytes(f)
    <3>1. (UNION {1..Size[y] : y \in rows'[f]}) \subseteq UNION {1..Size[y] : y \in rows[f]}
      OBVIOUS
    <3> QED BY <3>1 DEF Store!Bytes
  <2> QED BY <2>1 DEF AllBytes
<1>3. /\ IsFiniteSet(Store!Stored') /\ Cardinality(Store!Stored') <= Cardinality(Store!Stored)
      /\ IsFiniteSet(AllBytes') /\ Cardinality(AllBytes') <= Cardinality(AllBytes)
  BY <1>1, <1>2, FS_Subset DEF StoreLimits
<1>4. /\ Cardinality(Store!Stored) \in Nat /\ Cardinality(Store!Stored') \in Nat
      /\ Cardinality(AllBytes) \in Nat /\ Cardinality(AllBytes') \in Nat
  BY <1>3, FS_CardinalityType DEF StoreLimits
<1> QED BY <1>3, <1>4, StoreConstants DEF StoreLimits

LEMMA StoreSaveInserts ==
  ASSUME StoreInv, NEW c \in fsLoad.callers, c \in Savers, Store!SaveInserts(c)
  PROVE  StoreInv'
<1>1. /\ fsCalls[c].pc = "insert" /\ fsCalls' = [fsCalls EXCEPT ![c] = Store!Idle]
      /\ rows' = [f \in Files |-> IF f \in fsCalls[c].file THEN fsCalls[c].content ELSE rows[f]]
      /\ leftBytes' = leftBytes \ fsCalls[c].content /\ UNCHANGED <<fsLoad, blobs>>
  BY DEF Store!SaveInserts
<1>2. PICK g \in Files, d \in Contents :
        fsCalls[c].file = {g} /\ fsCalls[c].content = {d} /\ rows[g] = {} /\ Store!Fits(d)
  BY <1>1 DEF StoreInv, CallFits, Saving
<1>3. g \in Files
  OBVIOUS
<1>4. rows'[g] = {d} /\ \A f \in Files \ {g} : rows'[f] = rows[f]
  BY <1>1, <1>2, <1>3
<1>5. /\ fsCalls' \in [Savers -> Store!Calls] /\ fsCalls'[c].pc = "idle"
      /\ \A e \in Savers \ {c} : fsCalls'[e] = fsCalls[e]
  BY <1>1, CallNone, CallTurns DEF StoreInv
<1>6. rows' \in [Files -> {Store!NoBlob} \cup {Store!Some(y) : y \in Contents}]
  <2>1. ASSUME NEW f \in Files
        PROVE  (IF f \in fsCalls[c].file THEN fsCalls[c].content ELSE rows[f]) \in {Store!NoBlob} \cup {Store!Some(y) : y \in Contents}
    <3>1. fsCalls[c].content = Store!Some(d)
      BY <1>2 DEF Store!Some
    <3>2. rows[f] \in {Store!NoBlob} \cup {Store!Some(y) : y \in Contents}
      BY DEF StoreInv, StoreTyped
    <3> QED BY <3>1, <3>2
  <2> QED BY <1>1, <2>1
<1>7. StoreTyped'
  BY <1>1, <1>5, <1>6 DEF StoreInv, StoreTyped, Store!Calls, Store!NoBlob, Store!Some
<1>8. \A e \in Savers \ {c} : ~Saving(e)
  BY <1>1 DEF StoreInv, OneSaves, Saving
<1>9. ASSUME NEW e \in Savers PROVE CallFits(e)' /\ ~Saving(e)'
  <2>1. CASE e = c
    BY <1>5, <2>1 DEF CallFits, Saving, Removing
  <2>2. CASE e # c
    <3>1. CallFits(e) /\ ~Saving(e) /\ fsCalls'[e] = fsCalls[e]
      BY <1>5, <1>8, <2>2 DEF StoreInv
    <3> QED BY <1>1, <3>1 DEF CallFits, Saving, Removing
  <2> QED BY <2>1, <2>2
<1>10. OneSaves'
  BY <1>9 DEF OneSaves
<1>11. StoreLimits'
  <2>1. /\ IsFiniteSet(Store!Stored) /\ IsFiniteSet(AllBytes)
        /\ Cardinality(Store!Stored) < MaxFiles /\ Cardinality(AllBytes) + Size[d] <= MaxTotal
    BY <1>2, FitsIs DEF StoreInv, StoreLimits
  <2>2. /\ IsFiniteSet(Store!Stored') /\ IsFiniteSet(AllBytes')
        /\ Cardinality(Store!Stored') = Cardinality(Store!Stored) + 1
        /\ Cardinality(AllBytes') <= Cardinality(AllBytes) + Size[d]
    BY <1>2, <1>3, <1>4, <2>1, MoreRows DEF StoreInv
  <2>3. /\ Cardinality(Store!Stored) \in Nat /\ Cardinality(AllBytes) \in Nat /\ Cardinality(AllBytes') \in Nat
        /\ Size[d] \in Nat
    BY <2>1, <2>2, FS_CardinalityType, StoreConstants
  <2>4. Cardinality(Store!Stored') <= MaxFiles /\ Cardinality(AllBytes') <= MaxTotal
    BY <2>1, <2>2, <2>3, StoreConstants
  <2> QED BY <2>2, <2>4 DEF StoreLimits
<1>12. AloneFinds'
  <2> SUFFICES ASSUME \A a, b \in fsLoad'.callers : a = b
               PROVE  /\ \A f \in Files : rows'[f] \subseteq blobs'
                      /\ \A e \in Savers : fsCalls'[e].pc \notin {"insert", "unlink"}
    BY DEF AloneFinds
  <2>1. \A e \in Savers : fsCalls'[e].pc = "idle"
    BY <1>1, <1>5 DEF StoreInv, CallFits
  <2>2. {d} \subseteq blobs /\ \A f \in Files : rows[f] \subseteq blobs
    BY <1>1, <1>2 DEF StoreInv, AloneFinds
  <2> QED BY <1>1, <1>4, <2>1, <2>2
<1>13. BlobsWanted'
  <2> SUFFICES ASSUME NEW y \in blobs
               PROVE  \/ \E f \in Files : rows'[f] = {y}
                      \/ \E e \in Savers : fsCalls'[e].pc \in {"insert", "unlink"} /\ fsCalls'[e].content = {y}
                      \/ y \in leftBytes'
    BY <1>1 DEF BlobsWanted
  <2>1. CASE \E f \in Files : rows[f] = {y}
    BY <1>2, <1>4, <2>1
  <2>2. CASE \E e \in Savers : fsCalls[e].pc \in {"insert", "unlink"} /\ fsCalls[e].content = {y}
    BY <1>2, <1>3, <1>4, <1>5, <2>2
  <2>3. CASE y \in leftBytes
    BY <1>1, <1>2, <1>3, <1>4, <2>3
  <2> QED BY <2>1, <2>2, <2>3 DEF StoreInv, BlobsWanted
<1> QED BY <1>7, <1>9, <1>10, <1>11, <1>12, <1>13 DEF StoreInv

LEMMA StoreDeleteCommits ==
  ASSUME StoreInv, NEW c \in fsLoad.callers, c \in Savers, Store!DeleteCommits(c)
  PROVE  StoreInv'
<1>1. /\ fsCalls[c].pc = "delete" /\ Store!LockFree
      /\ rows' = [f \in Files |-> IF f \in fsCalls[c].file THEN {} ELSE rows[f]]
      /\ leftBytes' = leftBytes \cup {d \in (UNION {rows[f] : f \in fsCalls[c].file}) \ fsCalls[c].content :
                              \A f \in Files : rows'[f] # {d}}
      /\ UNCHANGED <<fsLoad, blobs>>
  BY DEF Store!DeleteCommits, Store!NoBlob, Store!Some
<1>2. PICK g \in Files, d \in Contents : fsCalls[c].file = {g} /\ fsCalls[c].content = {d}
  BY <1>1 DEF StoreInv, CallFits, Removing
<1>3. rows'[g] = {} /\ \A f \in Files \ {g} : rows'[f] = rows[f]
  BY <1>1, <1>2
<1>4. PICK x \in Store!Calls :
        /\ fsCalls' = [fsCalls EXCEPT ![c] = x]
        /\ x.pc \in {"idle", "unlink"} /\ (x.pc = "idle" <=> \E f \in Files : rows'[f] = {d})
        /\ x.pc = "unlink" => x.file = {g} /\ x.content = {d}
  <2>1. fsCalls' = [fsCalls EXCEPT ![c] = IF \E f \in Files : rows'[f] = fsCalls[c].content THEN Store!Idle
                                          ELSE [fsCalls[c] EXCEPT !.pc = "unlink"]]
    BY DEF Store!DeleteCommits
  <2>2. CASE \E f \in Files : rows'[f] = {d}
    <3>1. fsCalls' = [fsCalls EXCEPT ![c] = Store!Idle]
      BY <1>2, <2>1, <2>2
    <3> QED BY <2>2, <3>1, CallNone
  <2>3. CASE ~\E f \in Files : rows'[f] = {d}
    <3>1. PICK x : x = [fsCalls[c] EXCEPT !.pc = "unlink"]
      OBVIOUS
    <3>2. fsCalls' = [fsCalls EXCEPT ![c] = x]
      BY <1>2, <2>1, <2>3, <3>1
    <3>3. fsCalls[c] \in Store!Calls /\ "unlink" \in StoreSteps
      BY DEF StoreInv, StoreTyped, StoreSteps
    <3>4. x \in Store!Calls /\ x.pc = "unlink" /\ x.file = {g} /\ x.content = {d}
      BY <1>2, <3>1, <3>3, CallWith
    <3> QED BY <2>3, <3>2, <3>4
  <2> QED BY <2>2, <2>3
<1>5. /\ fsCalls' \in [Savers -> Store!Calls] /\ fsCalls'[c] = x
      /\ \A e \in Savers \ {c} : fsCalls'[e] = fsCalls[e]
  BY <1>4, CallTurns DEF StoreInv
<1>6. \A e \in Savers : ~Saving(e)'
  BY <1>1, <1>4, <1>5 DEF Store!LockFree, Saving
<1>7. \A f \in Files : rows'[f] \in {rows[f], {}}
  BY <1>3
<1>8. StoreTyped'
  <2>1. \A f \in Files : (IF f \in fsCalls[c].file THEN {} ELSE rows[f]) \in {Store!NoBlob} \cup {Store!Some(y) : y \in Contents}
    BY DEF StoreInv, StoreTyped, Store!NoBlob
  <2>2. rows' \in [Files -> {Store!NoBlob} \cup {Store!Some(y) : y \in Contents}]
    BY <1>1, <2>1
  <2>3. leftBytes' \subseteq Contents
    <3>1. rows[g] \subseteq Contents /\ leftBytes \subseteq Contents
      BY DEF StoreInv, StoreTyped, Store!Some, Store!NoBlob
    <3> QED BY <1>1, <1>2, <3>1
  <2> QED BY <1>1, <1>5, <2>2, <2>3 DEF StoreInv, StoreTyped, Store!Calls, Store!NoBlob, Store!Some
<1>9. ASSUME NEW e \in Savers PROVE CallFits(e)'
  <2>1. CASE e = c
    BY <1>1, <1>2, <1>4, <1>5, <1>6, <2>1 DEF CallFits, Removing
  <2>2. CASE e # c
    <3>1. CallFits(e) /\ fsCalls'[e] = fsCalls[e]
      BY <1>5, <2>2 DEF StoreInv
    <3> QED BY <1>1, <1>6, <3>1 DEF CallFits, Removing
  <2> QED BY <2>1, <2>2
<1>10. OneSaves'
  BY <1>6 DEF OneSaves
<1>11. StoreLimits'
  <2>1. /\ IsFiniteSet(Store!Stored') /\ IsFiniteSet(AllBytes')
        /\ Cardinality(Store!Stored') <= MaxFiles /\ Cardinality(AllBytes') <= MaxTotal
    BY <1>7, FewerRows DEF StoreInv
  <2> QED BY <2>1 DEF StoreLimits
<1>12. AloneFinds'
  <2> SUFFICES ASSUME \A a, b \in fsLoad.callers : a = b PROVE AloneFinds'
    BY <1>1 DEF AloneFinds
  <2>1. \A e \in Savers \ {c} : fsCalls'[e].pc = "idle"
    BY <1>5 DEF StoreInv, CallFits
  <2>2. \A f \in Files : rows'[f] \subseteq blobs
    BY <1>7 DEF StoreInv, AloneFinds
  <2>3. x.pc = "unlink" => \A f \in Files : rows'[f] # x.content
    BY <1>4
  <2> QED BY <1>1, <1>4, <1>5, <2>1, <2>2, <2>3 DEF AloneFinds
<1>13. BlobsWanted'
  <2> SUFFICES ASSUME NEW y \in blobs
               PROVE  \/ \E f \in Files : rows'[f] = {y}
                      \/ \E e \in Savers : fsCalls'[e].pc \in {"insert", "unlink"} /\ fsCalls'[e].content = {y}
                      \/ y \in leftBytes'
    BY <1>1 DEF BlobsWanted
  <2>1. CASE \E f \in Files : rows[f] = {y}
    <3>1. PICK f \in Files : rows[f] = {y}
      BY <2>1
    <3>2. CASE f # g
      BY <1>3, <3>1, <3>2
    <3>3. CASE f = g /\ y = d
      BY <1>2, <1>4, <1>5, <3>1, <3>3
    <3>4. CASE f = g /\ y # d /\ \A h \in Files : rows'[h] # {y}
      <4>1. y \in (UNION {rows[h] : h \in fsCalls[c].file}) \ fsCalls[c].content
        BY <1>2, <3>1, <3>4
      <4> QED BY <1>1, <3>4, <4>1
    <3> QED BY <3>1, <3>2, <3>3, <3>4
  <2>2. CASE \E e \in Savers : fsCalls[e].pc \in {"insert", "unlink"} /\ fsCalls[e].content = {y}
    BY <1>1, <1>5, <2>2
  <2>3. CASE y \in leftBytes
    BY <1>1, <2>3
  <2> QED BY <2>1, <2>2, <2>3 DEF StoreInv, BlobsWanted
<1> QED BY <1>8, <1>9, <1>10, <1>11, <1>12, <1>13 DEF StoreInv

LEMMA StoreCrash == ASSUME StoreInv, Store!Crash PROVE StoreInv'
<1> DEFINE under == UNION {fsCalls[c].content : c \in {e \in Savers : fsCalls[e].pc \in {"insert", "unlink"}}}
<1>1. /\ fsCalls' = [c \in Savers |-> Store!Idle] /\ leftBytes' = leftBytes \cup Store!Bare(under)
      /\ UNCHANGED <<fsLoad, rows, blobs>>
  BY DEF Store!Crash
<1>2. fsCalls' \in [Savers -> Store!Calls] /\ \A c \in Savers : fsCalls'[c].pc = "idle"
  BY <1>1, CallNone
<1>3. StoreTyped'
  <2>1. \A c \in Savers : fsCalls[c].pc \in {"insert", "unlink"} => fsCalls[c].content \subseteq Contents
    BY DEF StoreInv, CallFits, Saving, Removing
  <2>2. leftBytes' \subseteq Contents
    BY <1>1, <2>1 DEF StoreInv, StoreTyped, Store!Bare
  <2> QED BY <1>1, <1>2, <2>2 DEF StoreInv, StoreTyped, Store!Calls, Store!NoBlob, Store!Some
<1>4. (\A c \in Savers : CallFits(c)') /\ OneSaves'
  BY <1>2 DEF CallFits, OneSaves, Saving, Removing
<1>5. StoreLimits'
  BY <1>1, SameRows DEF StoreInv, StoreLimits
<1>6. AloneFinds'
  BY <1>1, <1>2 DEF StoreInv, AloneFinds
<1>7. BlobsWanted'
  <2> SUFFICES ASSUME NEW d \in blobs PROVE (\E f \in Files : rows[f] = {d}) \/ d \in leftBytes'
    BY <1>1 DEF BlobsWanted
  <2>1. CASE \E c \in Savers : fsCalls[c].pc \in {"insert", "unlink"} /\ fsCalls[c].content = {d}
    BY <1>1, <2>1 DEF Store!Bare, Store!References, Store!Some
  <2> QED BY <1>1, <2>1 DEF StoreInv, BlobsWanted
<1> QED BY <1>3, <1>4, <1>5, <1>6, <1>7 DEF StoreInv

LEMMA StoreKeeps == StoreInv /\ Store!Next => StoreInv'
<1> SUFFICES ASSUME StoreInv, Store!Next PROVE StoreInv'
  OBVIOUS
<1>1. ASSUME NEW c \in fsLoad.callers PROVE c \in Savers
  BY StoreConstants DEF StoreInv, StoreTyped
<1> QED BY <1>1, StoreSaveChecks, StoreSaveWrites, StoreSaveFails, StoreSaveInserts, StoreDeleteReads,
           StoreDeleteCommits, StoreDeleteFails, StoreDeleteUnlinks, StoreCrash DEF Store!Next

LEMMA StoreStarts == Store!Init => StoreInv
<1> SUFFICES ASSUME Store!Init PROVE StoreInv
  OBVIOUS
<1>1. /\ fsLoad \in StoreLoads /\ rows = [f \in Files |-> {}] /\ blobs = {} /\ leftBytes = {}
      /\ fsCalls = [c \in Savers |-> Store!Idle]
  BY DEF Store!Init, Store!NoBlob
<1>2. fsCalls \in [Savers -> Store!Calls] /\ \A c \in Savers : fsCalls[c].pc = "idle"
  BY <1>1, CallNone
<1>3. StoreTyped
  BY <1>1, <1>2 DEF StoreTyped, Store!NoBlob
<1>4. (\A c \in Savers : CallFits(c)) /\ OneSaves
  BY <1>2 DEF CallFits, OneSaves, Saving, Removing
<1>5. StoreLimits
  <2>1. Store!Stored = {}
    BY <1>1 DEF Store!Stored, Store!NoBlob
  <2>2. AllBytes = {}
    <3>1. ASSUME NEW f \in Files PROVE Store!Bytes(f) = {}
      <4>1. (UNION {1..Size[y] : y \in rows[f]}) = {}
        BY <1>1
      <4> QED BY <4>1 DEF Store!Bytes
    <3> QED BY <3>1 DEF AllBytes
  <2>3. IsFiniteSet(Store!Stored) /\ IsFiniteSet(AllBytes) /\ Cardinality(Store!Stored) = 0 /\ Cardinality(AllBytes) = 0
    BY <2>1, <2>2, FS_EmptySet
  <2> QED BY <1>1, <2>3, StoreConstants DEF StoreLimits
<1>6. AloneFinds /\ BlobsWanted
  BY <1>1, <1>2 DEF AloneFinds, BlobsWanted
<1> QED BY <1>3, <1>4, <1>5, <1>6 DEF StoreInv

LEMMA StoreTurns == StoreInv /\ [AllNext]_allVars => StoreInv'
<1> SUFFICES ASSUME StoreInv, [AllNext]_allVars PROVE StoreInv'
  OBVIOUS
<1>1. CASE Store!Next
  BY <1>1, StoreKeeps
<1>2. CASE UNCHANGED filesVars
  <2>1. UNCHANGED <<fsLoad, rows, blobs, fsCalls, leftBytes>>
    BY <1>2 DEF filesVars
  <2>2. StoreTyped'
    BY <2>1 DEF StoreInv, StoreTyped, Store!Calls, Store!NoBlob, Store!Some
  <2>3. ASSUME NEW c \in Savers PROVE CallFits(c)'
    BY <2>1, SameFits DEF StoreInv, CallFits, Saving, Removing
  <2>4. OneSaves' /\ AloneFinds' /\ BlobsWanted'
    BY <2>1 DEF StoreInv, OneSaves, AloneFinds, BlobsWanted, Saving, Removing
  <2>5. StoreLimits'
    BY <2>1, SameRows DEF StoreInv, StoreLimits
  <2> QED BY <2>2, <2>3, <2>4, <2>5 DEF StoreInv
<1> QED BY <1>1, <1>2 DEF AllNext, allVars

LEMMA StoreShows ==
  ASSUME StoreInv
  PROVE  Store!TypeOK /\ Store!WithinLimits /\ Store!StoredHasBlob /\ Store!NoOrphanBlob
<1>1. Store!WithinLimits
  BY StoreCardinality, TotalIs DEF StoreInv, StoreLimits, Store!WithinLimits
<1>2. Store!StoredHasBlob
  <2> SUFFICES ASSUME Cardinality(fsLoad.callers) = 1 PROVE \A f \in Store!Stored : rows[f] \subseteq blobs
    BY StoreCardinality DEF Store!StoredHasBlob
  <2>1. IsFiniteSet(fsLoad.callers)
    BY StoreConstants, FS_Subset DEF StoreInv, StoreTyped
  <2>2. PICK a : fsLoad.callers = {a}
    BY <2>1, FS_Singleton
  <2> QED BY <2>2 DEF StoreInv, AloneFinds, Store!Stored
<1>3. Store!NoOrphanBlob
  BY DEF StoreInv, BlobsWanted, Store!NoOrphanBlob, Store!References, Store!Some
<1>4. Store!TypeOK
  <2> DEFINE S == {c \in Savers : fsCalls[c].pc \in {"write", "insert"}}
  <2>1. IsFiniteSet(S)
    BY StoreConstants, FS_Subset
  <2>2. Cardinality(S) <= 1
    <3>1. CASE S = {}
      BY <3>1, FS_EmptySet
    <3>2. CASE S # {}
      <4>1. PICK a \in S : TRUE
        BY <3>2
      <4>2. S = {a}
        BY <4>1 DEF StoreInv, OneSaves, Saving
      <4>3. Cardinality(S) = 1
        BY <4>2, FS_Singleton
      <4> QED BY <4>3
    <3> QED BY <3>1, <3>2
  <2> QED BY <2>2, StoreCardinality DEF StoreInv, StoreTyped, Store!TypeOK
<1> QED BY <1>1, <1>2, <1>3, <1>4

\* The file store keeps its two limits however many threads save at once; one caller finds the
\* bytes of every file, wherever the process died; and bytes without a file are only those that a
\* failed or killed call left behind, or a deletion that met another file under its id.  The key
\* files hold what OneKeyStays says.
THEOREM FilesHold == AllSpec => []FilesSafety
<1>1. AllInit => StoreInv /\ KeysInv
  BY StoreStarts, KeysStart DEF AllInit
<1>2. StoreInv /\ KeysInv => FilesSafety
  BY StoreShows, KeysShow DEF FilesSafety
<1> QED BY <1>1, <1>2, StoreTurns, KeysTurns, PTL DEF AllSpec
-----------------------------------------------------------------------------
(***************************************************************************)
(* The index of knowledge.                                                 *)
(***************************************************************************)

KeptRows == [at : {"kept"}, text : Texts, project : Index!Columns, on : BOOLEAN, revision : 1..MaxRevision]

\* A chunk with the vector of some text, or none.
ChunkRows == [text : Texts, part : Nat, vector : {Index!NoVector} \cup (Texts \X Nat)]

PieceRows == [item : Items, part : Nat, text : Texts]

IndexCalls ==
  {Index!Idle} \cup [at : {"select"}, item : Items, force : BOOLEAN]
    \cup [at : {"restore"}, item : Items, snapshot : Index!Savings]
    \cup [at : {"save"}, rows : SUBSET PieceRows]

IndexTyped ==
  /\ kiItem \in [Items -> {Index!NoItem} \cup KeptRows]
  /\ chunks = [i \in Items |-> chunks[i]] /\ history = [i \in Items |-> history[i]]
  /\ active \subseteq Projects /\ loaded \in BOOLEAN
  /\ kiCall \in [Threads -> IndexCalls]

\* The chunks of an item are those of its text, and a vector in one of them is right unless the
\* item was saved while vectors of it were being computed.
ChunksFit(i) ==
  /\ kiItem[i] = Index!NoItem => chunks[i] = <<>>
  /\ kiItem[i] # Index!NoItem =>
       /\ chunks[i] \in [1..Pieces[kiItem[i].text] -> ChunkRows]
       /\ \A n \in 1..Pieces[kiItem[i].text] :
            /\ chunks[i][n].text = kiItem[i].text
            /\ i \notin kiOverlapped => chunks[i][n].vector \in {Index!NoVector, <<kiItem[i].text, n>>}

\* The revisions of an id are kept in full, and the newest is what the item says.
RevisionsFit(i) ==
  /\ DOMAIN history[i] \subseteq 1..MaxRevision
  /\ \A r \in DOMAIN history[i] : history[i][r] \in Index!Savings
  /\ kiItem[i] # Index!NoItem =>
       /\ kiItem[i].revision \in DOMAIN history[i]
       /\ history[i][kiItem[i].revision].text = kiItem[i].text
       /\ history[i][kiItem[i].revision].on = kiItem[i].on

\* What an indexing has still to write is still so, unless it was overtaken.
RowsFit(c) ==
  kiCall[c].at = "save" =>
    \A r \in kiCall[c].rows :
      /\ r.part \in Nat \ {0}
      /\ r.item \notin kiOverlapped => kiItem[r.item] # Index!NoItem /\ r.text = kiItem[r.item].text

IndexInv ==
  IndexTyped /\ (\A i \in Items : ChunksFit(i) /\ RevisionsFit(i)) /\ (\A c \in Threads : RowsFit(c))

LEMMA IndexConstants ==
  /\ Pieces \in [Texts -> Nat] /\ MaxRevision \in Nat \ {0}
BY ApplicationAssumption DEF Index!IndexAssumption

LEMMA KeptRow ==
  ASSUME NEW entry \in KeptRows
  PROVE  /\ entry # Index!NoItem /\ entry.text \in Texts /\ entry.project \in Index!Columns /\ entry.on \in BOOLEAN
         /\ entry.revision \in 1..MaxRevision
<1>1. entry.at = "kept" /\ Index!NoItem.at = "none"
  BY DEF KeptRows, Index!NoItem
<1>2. entry # Index!NoItem
  BY <1>1
<1>3. entry.text \in Texts /\ entry.project \in Index!Columns /\ entry.on \in BOOLEAN /\ entry.revision \in 1..MaxRevision
  BY DEF KeptRows
<1> QED BY <1>2, <1>3

LEMMA KeptIs ==
  ASSUME IndexTyped, NEW i \in Items
  PROVE  /\ i \in Index!Kept <=> kiItem[i] # Index!NoItem
         /\ kiItem[i] # Index!NoItem => kiItem[i] \in KeptRows
BY DEF IndexTyped, Index!Kept

\* What a save does to the rows of the items, and to what the callers still hold.
RowsStillFit ==
  \A c \in Threads : kiCall[c].at = "save" =>
    \A r \in kiCall[c].rows :
      /\ r.part \in Nat \ {0}
      /\ r.item \notin kiOverlapped' => kiItem'[r.item] # Index!NoItem /\ r.text = kiItem'[r.item].text

RowsChange ==
  /\ kiItem' \in [Items -> {Index!NoItem} \cup KeptRows]
  /\ chunks' = [i \in Items |-> chunks'[i]] /\ history' = [i \in Items |-> history'[i]]
  /\ \A i \in Items : ChunksFit(i)' /\ RevisionsFit(i)'

LEMMA NewRow ==
  ASSUME NEW ask \in Index!Savings, NEW n \in 1..MaxRevision, NEW entry, entry = Index!Row(ask, n)
  PROVE  /\ entry \in KeptRows /\ entry.text = ask.text /\ entry.project = ask.project /\ entry.on = ask.on
         /\ entry.revision = n /\ [text |-> entry.text, project |-> entry.project, on |-> entry.on] \in Index!Savings
<1>1. ask.text \in Texts /\ ask.project \in Index!Columns /\ ask.on \in BOOLEAN
  BY DEF Index!Savings
<1>2. entry = [at |-> "kept", text |-> ask.text, project |-> ask.project, on |-> ask.on, revision |-> n]
  BY DEF Index!Row
<1> QED BY <1>1, <1>2 DEF KeptRows, Index!Savings

LEMMA Rebuilt ==
  ASSUME NEW i, NEW t \in Texts, NEW f, f = Index!RebuildChunks(i, t)
  PROVE  /\ f \in [1..Pieces[t] -> ChunkRows]
         /\ \A n \in 1..Pieces[t] : f[n].text = t /\ f[n].vector = Index!NoVector
<1>1. Pieces[t] \in Nat
  BY IndexConstants
<1>2. f = [n \in 1..Pieces[t] |-> [text |-> t, part |-> n, vector |-> Index!NoVector]]
  BY DEF Index!RebuildChunks
<1>3. \A n \in 1..Pieces[t] : [text |-> t, part |-> n, vector |-> Index!NoVector] \in ChunkRows
  BY <1>1 DEF ChunkRows
<1> QED BY <1>2, <1>3

LEMMA Revised ==
  ASSUME NEW i \in Items, RevisionsFit(i), NEW entry \in KeptRows,
         [text |-> entry.text, project |-> entry.project, on |-> entry.on] \in Index!Savings,
         NEW h, h = Index!SaveRevision(i, entry)
  PROVE  /\ DOMAIN h \subseteq 1..MaxRevision /\ entry.revision \in DOMAIN h
         /\ \A r \in DOMAIN h : h[r] \in Index!Savings
         /\ h[entry.revision].text = entry.text /\ h[entry.revision].on = entry.on
<1>1. /\ DOMAIN history[i] \subseteq 1..MaxRevision /\ entry.revision \in 1..MaxRevision
      /\ \A r \in DOMAIN history[i] : history[i][r] \in Index!Savings
  BY KeptRow DEF RevisionsFit
<1> DEFINE kept == [text |-> entry.text, project |-> entry.project, on |-> entry.on]
<1>2. h = [r \in (DOMAIN history[i]) \cup {entry.revision} |-> IF r = entry.revision THEN kept ELSE history[i][r]]
  BY DEF Index!SaveRevision, Index!Revisions
<1>3. DOMAIN h = (DOMAIN history[i]) \cup {entry.revision} /\ h[entry.revision] = kept
  BY <1>2
<1>4. \A r \in DOMAIN h : h[r] \in Index!Savings
  BY <1>1, <1>2
<1> QED BY <1>1, <1>3, <1>4

LEMMA IndexWrites ==
  ASSUME IndexInv, NEW i \in Items, NEW ask \in Index!Savings, NEW n \in 1..MaxRevision,
         Index!Write(i, Index!Row(ask, n))
  PROVE  RowsChange /\ RowsStillFit
<1>1. PICK entry : entry = Index!Row(ask, n)
  OBVIOUS
<1>2. /\ entry \in KeptRows /\ entry.text = ask.text /\ entry.revision = n
      /\ [text |-> entry.text, project |-> entry.project, on |-> entry.on] \in Index!Savings
  BY <1>1, NewRow
<1>3. /\ kiItem' = [kiItem EXCEPT ![i] = entry]
      /\ chunks' = [chunks EXCEPT ![i] = Index!RebuildChunks(i, entry.text)]
      /\ history' = [history EXCEPT ![i] = Index!SaveRevision(i, entry)]
      /\ kiOverlapped' = IF Index!Indexing(i) = {} THEN kiOverlapped ELSE kiOverlapped \cup {i}
  BY <1>1 DEF Index!Write
<1>4. IndexTyped /\ \A j \in Items : ChunksFit(j) /\ RevisionsFit(j)
  BY DEF IndexInv
<1>5. /\ kiItem' \in [Items -> {Index!NoItem} \cup KeptRows] /\ kiItem'[i] = entry
      /\ \A j \in Items \ {i} : kiItem'[j] = kiItem[j]
  BY <1>2, <1>3, <1>4 DEF IndexTyped
<1>6. /\ chunks' = [j \in Items |-> chunks'[j]] /\ chunks'[i] = Index!RebuildChunks(i, entry.text)
      /\ \A j \in Items \ {i} : chunks'[j] = chunks[j]
  <2>1. chunks = [j \in Items |-> chunks[j]]
    BY <1>4 DEF IndexTyped
  <2> QED BY <1>3, <2>1
<1>7. /\ history' = [j \in Items |-> history'[j]] /\ history'[i] = Index!SaveRevision(i, entry)
      /\ \A j \in Items \ {i} : history'[j] = history[j]
  <2>1. history = [j \in Items |-> history[j]]
    BY <1>4 DEF IndexTyped
  <2> QED BY <1>3, <2>1
<1>8. kiOverlapped \subseteq kiOverlapped'
  BY <1>3
<1>9. ASSUME NEW j \in Items PROVE ChunksFit(j)'
  <2>1. CASE j # i
    BY <1>4, <1>5, <1>6, <1>8, <2>1 DEF ChunksFit
  <2>2. CASE j = i
    <3>1. entry.text \in Texts /\ entry # Index!NoItem
      BY <1>2, KeptRow
    <3>2. /\ chunks'[i] \in [1..Pieces[entry.text] -> ChunkRows]
          /\ \A m \in 1..Pieces[entry.text] : chunks'[i][m].text = entry.text /\ chunks'[i][m].vector = Index!NoVector
      BY <1>6, <3>1, Rebuilt
    <3> QED BY <1>5, <2>2, <3>1, <3>2 DEF ChunksFit
  <2> QED BY <2>1, <2>2
<1>10. ASSUME NEW j \in Items PROVE RevisionsFit(j)'
  <2>1. CASE j # i
    BY <1>4, <1>5, <1>7, <2>1 DEF RevisionsFit, Index!Savings, Index!Columns
  <2>2. CASE j = i
    <3>1. /\ DOMAIN history'[i] \subseteq 1..MaxRevision /\ entry.revision \in DOMAIN history'[i]
          /\ \A r \in DOMAIN history'[i] : history'[i][r] \in Index!Savings
          /\ history'[i][entry.revision].text = entry.text /\ history'[i][entry.revision].on = entry.on
      BY <1>2, <1>4, <1>7, Revised
    <3> QED BY <1>5, <2>2, <3>1 DEF RevisionsFit, Index!Savings, Index!Columns
  <2> QED BY <2>1, <2>2
<1>11. RowsStillFit
  <2> SUFFICES ASSUME NEW c \in Threads, kiCall[c].at = "save", NEW r \in kiCall[c].rows
               PROVE  /\ r.part \in Nat \ {0}
                      /\ r.item \notin kiOverlapped' => kiItem'[r.item] # Index!NoItem /\ r.text = kiItem'[r.item].text
    BY DEF RowsStillFit
  <2>1. /\ r.part \in Nat \ {0}
        /\ r.item \notin kiOverlapped => kiItem[r.item] # Index!NoItem /\ r.text = kiItem[r.item].text
    BY DEF IndexInv, RowsFit
  <2>2. r.item = i => i \in kiOverlapped'
    <3>1. r.item = i => c \in Index!Indexing(i)
      BY DEF Index!Indexing
    <3> QED BY <1>3, <3>1
  <2>3. r.item \in Items
    <3>1. kiCall[c] \in IndexCalls
      BY <1>4 DEF IndexTyped
    <3>2. kiCall[c].rows \subseteq PieceRows
      BY <3>1 DEF IndexCalls, Index!Idle
    <3>3. r \in PieceRows
      BY <3>2
    <3> QED BY <3>3 DEF PieceRows
  <2> QED BY <1>5, <1>8, <2>1, <2>2, <2>3
<1> QED BY <1>5, <1>6, <1>7, <1>9, <1>10, <1>11 DEF RowsChange

\* Steps that leave the rows of the store as they are.
LEMMA RowsStay ==
  ASSUME IndexInv, UNCHANGED <<kiItem, chunks, history, kiOverlapped>>
  PROVE  RowsChange /\ RowsStillFit
<1>1. RowsStillFit
  BY DEF IndexInv, RowsFit, RowsStillFit
<1>2. ASSUME NEW i \in Items PROVE ChunksFit(i)' /\ RevisionsFit(i)'
  BY DEF IndexInv, ChunksFit, RevisionsFit, Index!NoItem, Index!NoVector, Index!Savings, Index!Columns, ChunkRows
<1> QED BY <1>1, <1>2 DEF IndexInv, IndexTyped, RowsChange

LEMMA IndexDeletes ==
  ASSUME IndexInv, NEW i \in Items, Index!DeleteItem(i)
  PROVE  RowsChange /\ RowsStillFit
<1>1. /\ kiItem' = [kiItem EXCEPT ![i] = Index!NoItem] /\ chunks' = [chunks EXCEPT ![i] = <<>>]
      /\ kiOverlapped' = IF Index!Indexing(i) = {} THEN kiOverlapped ELSE kiOverlapped \cup {i}
      /\ history' = history
  BY DEF Index!DeleteItem
<1>2. IndexTyped /\ \A j \in Items : ChunksFit(j) /\ RevisionsFit(j)
  BY DEF IndexInv
<1>3. /\ kiItem' \in [Items -> {Index!NoItem} \cup KeptRows] /\ kiItem'[i] = Index!NoItem
      /\ \A j \in Items \ {i} : kiItem'[j] = kiItem[j]
  BY <1>1, <1>2 DEF IndexTyped
<1>4. /\ chunks' = [j \in Items |-> chunks'[j]] /\ chunks'[i] = <<>>
      /\ \A j \in Items \ {i} : chunks'[j] = chunks[j]
  <2>1. chunks = [j \in Items |-> chunks[j]]
    BY <1>2 DEF IndexTyped
  <2> QED BY <1>1, <2>1
<1>5. kiOverlapped \subseteq kiOverlapped'
  BY <1>1
<1>6. ASSUME NEW j \in Items PROVE ChunksFit(j)'
  <2>1. CASE j # i
    BY <1>2, <1>3, <1>4, <1>5, <2>1 DEF ChunksFit
  <2>2. CASE j = i
    BY <1>3, <1>4, <2>2 DEF ChunksFit, Index!NoItem
  <2> QED BY <2>1, <2>2
<1>7. ASSUME NEW j \in Items PROVE RevisionsFit(j)'
  <2>1. CASE j # i
    BY <1>1, <1>2, <1>3, <2>1 DEF RevisionsFit, Index!Savings, Index!Columns
  <2>2. CASE j = i
    BY <1>1, <1>2, <1>3, <2>2 DEF RevisionsFit, Index!Savings, Index!Columns, Index!NoItem
  <2> QED BY <2>1, <2>2
<1>8. RowsStillFit
  <2> SUFFICES ASSUME NEW c \in Threads, kiCall[c].at = "save", NEW r \in kiCall[c].rows
               PROVE  /\ r.part \in Nat \ {0}
                      /\ r.item \notin kiOverlapped' => kiItem'[r.item] # Index!NoItem /\ r.text = kiItem'[r.item].text
    BY DEF RowsStillFit
  <2>1. /\ r.part \in Nat \ {0}
        /\ r.item \notin kiOverlapped => kiItem[r.item] # Index!NoItem /\ r.text = kiItem[r.item].text
    BY DEF IndexInv, RowsFit
  <2>2. r.item = i => i \in kiOverlapped'
    <3>1. r.item = i => c \in Index!Indexing(i)
      BY DEF Index!Indexing
    <3> QED BY <1>1, <3>1
  <2>3. r.item \in Items
    <3>1. kiCall[c] \in IndexCalls
      BY <1>2 DEF IndexTyped
    <3>2. kiCall[c].rows \subseteq PieceRows
      BY <3>1 DEF IndexCalls, Index!Idle
    <3>3. r \in PieceRows
      BY <3>2
    <3> QED BY <3>3 DEF PieceRows
  <2> QED BY <1>3, <1>5, <2>1, <2>2, <2>3
<1>9. history' = [j \in Items |-> history'[j]]
  BY <1>1, <1>2 DEF IndexTyped
<1> QED BY <1>3, <1>4, <1>6, <1>7, <1>8, <1>9 DEF RowsChange

\* The call of a caller turns to x; the other calls and the rows are as above.
LEMMA IndexTurn ==
  ASSUME IndexInv, RowsChange, RowsStillFit, active' \subseteq Projects, loaded' \in BOOLEAN,
         NEW c \in Threads, NEW x \in IndexCalls, kiCall' = [kiCall EXCEPT ![c] = x],
         x.at = "save" =>
           \A r \in x.rows :
             /\ r.part \in Nat \ {0}
             /\ r.item \notin kiOverlapped' => kiItem'[r.item] # Index!NoItem /\ r.text = kiItem'[r.item].text
  PROVE  IndexInv'
<1>1. kiCall' \in [Threads -> IndexCalls] /\ kiCall'[c] = x /\ \A e \in Threads \ {c} : kiCall'[e] = kiCall[e]
  <2>1. kiCall \in [Threads -> IndexCalls]
    BY DEF IndexInv, IndexTyped
  <2> QED BY <2>1
<1>2. IndexTyped'
  BY <1>1 DEF RowsChange, IndexTyped, IndexCalls, KeptRows, PieceRows, Index!Idle, Index!NoItem, Index!Columns, Index!Savings
<1>3. ASSUME NEW e \in Threads PROVE RowsFit(e)'
  <2>1. CASE e = c
    BY <1>1, <2>1 DEF RowsFit, Index!NoItem
  <2>2. CASE e # c
    BY <1>1, <2>2 DEF RowsFit, RowsStillFit, Index!NoItem
  <2> QED BY <2>1, <2>2
<1> QED BY <1>2, <1>3 DEF RowsChange, IndexInv

LEMMA IndexCallStays ==
  ASSUME IndexInv, RowsChange, RowsStillFit, active' \subseteq Projects, loaded' \in BOOLEAN, kiCall' = kiCall
  PROVE  IndexInv'
<1>1. IndexTyped'
  BY DEF IndexInv, RowsChange, IndexTyped, IndexCalls, KeptRows, PieceRows, Index!Idle, Index!NoItem, Index!Columns, Index!Savings
<1>2. ASSUME NEW e \in Threads PROVE RowsFit(e)'
  BY DEF RowsFit, RowsStillFit, Index!NoItem
<1> QED BY <1>1, <1>2 DEF RowsChange, IndexInv

LEMMA IndexCallKinds ==
  /\ Index!Idle \in IndexCalls /\ Index!Idle.at = "idle"
  /\ \A i \in Items, force \in BOOLEAN :
       LET x == [at |-> "select", item |-> i, force |-> force] IN x \in IndexCalls /\ x.at = "select"
  /\ \A i \in Items, s \in Index!Savings :
       LET x == [at |-> "restore", item |-> i, snapshot |-> s] IN x \in IndexCalls /\ x.at = "restore"
  /\ \A rs \in SUBSET PieceRows :
       LET x == [at |-> "save", rows |-> rs] IN x \in IndexCalls /\ x.at = "save" /\ x.rows = rs
BY DEF IndexCalls, Index!Idle

LEMMA IndexThenIndexes ==
  ASSUME IndexInv, RowsChange, RowsStillFit, active' \subseteq Projects, loaded' \in BOOLEAN,
         NEW c \in Threads, NEW i \in Items, Index!ThenIndexes(c, i)
  PROVE  IndexInv'
<1>1. PICK x : x = [at |-> "select", item |-> i, force |-> FALSE]
  OBVIOUS
<1>2. x \in IndexCalls /\ x.at = "select"
  BY <1>1, IndexCallKinds
<1>3. kiCall' = [kiCall EXCEPT ![c] = x] \/ kiCall' = [kiCall EXCEPT ![c] = Index!Idle]
  BY <1>1 DEF Index!ThenIndexes, Index!Goes
<1>4. CASE kiCall' = [kiCall EXCEPT ![c] = x]
  BY <1>2, <1>4, IndexTurn
<1>5. CASE kiCall' = [kiCall EXCEPT ![c] = Index!Idle]
  BY <1>5, IndexCallKinds, IndexTurn
<1> QED BY <1>3, <1>4, <1>5

\* A save of an item that is there, or of one that is not.
LEMMA IndexSaves ==
  ASSUME IndexInv, NEW i \in Items, NEW ask \in Index!Savings, Index!CreateItem(i, ask) \/ Index!UpdateItem(i, ask)
  PROVE  RowsChange /\ RowsStillFit
<1>1. CASE Index!CreateItem(i, ask)
  <2>1. 1 \in 1..MaxRevision
    BY IndexConstants
  <2> QED BY <1>1, <2>1, IndexWrites DEF Index!CreateItem
<1>2. CASE Index!UpdateItem(i, ask)
  <2>1. kiItem[i] \in KeptRows /\ kiItem[i].revision < MaxRevision /\ Index!Write(i, Index!Row(ask, kiItem[i].revision + 1))
    BY <1>2, KeptIs DEF Index!UpdateItem, IndexInv
  <2>2. kiItem[i].revision \in 1..MaxRevision
    BY <2>1, KeptRow
  <2>3. kiItem[i].revision + 1 \in 1..MaxRevision
    BY <2>1, <2>2, IndexConstants
  <2> QED BY <2>1, <2>3, IndexWrites
<1> QED BY <1>1, <1>2

\* What an indexing reads is what the chunks of the item hold.
LEMMA RowsOfFit ==
  ASSUME IndexInv, NEW i \in Items, NEW force \in BOOLEAN
  PROVE  /\ Index!RowsOf(i, force) \in SUBSET PieceRows
         /\ \A r \in Index!RowsOf(i, force) :
              r.part \in Nat \ {0} /\ kiItem[r.item] # Index!NoItem /\ r.text = kiItem[r.item].text
<1>1. CASE i \in Index!Kept /\ kiItem[i].on
  <2>1. kiItem[i] # Index!NoItem /\ kiItem[i].text \in Texts /\ ChunksFit(i)
    BY <1>1, KeptIs, KeptRow DEF IndexInv
  <2>2. Pieces[kiItem[i].text] \in Nat
    BY <2>1, IndexConstants
  <2>3. chunks[i] \in [1..Pieces[kiItem[i].text] -> ChunkRows]
    BY <2>1 DEF ChunksFit
  <2>4. Len(chunks[i]) = Pieces[kiItem[i].text]
    BY <2>2, <2>3
  <2>5. \A n \in 1..Len(chunks[i]) : n \in Nat \ {0} /\ chunks[i][n].text = kiItem[i].text
    BY <2>1, <2>2, <2>4 DEF ChunksFit
  <2>6. Index!RowsOf(i, force) =
          {[item |-> i, part |-> n, text |-> chunks[i][n].text] :
             n \in {m \in 1..Len(chunks[i]) : force \/ chunks[i][m].vector = Index!NoVector}}
    BY <1>1 DEF Index!RowsOf
  <2>7. ASSUME NEW r \in Index!RowsOf(i, force)
        PROVE  r \in PieceRows /\ r.part \in Nat \ {0} /\ kiItem[r.item] # Index!NoItem /\ r.text = kiItem[r.item].text
    <3>1. PICK n \in 1..Len(chunks[i]) : r = [item |-> i, part |-> n, text |-> chunks[i][n].text]
      BY <2>6
    <3>2. r = [item |-> i, part |-> n, text |-> kiItem[i].text] /\ n \in Nat \ {0}
      BY <2>5, <3>1
    <3> QED BY <2>1, <3>2 DEF PieceRows
  <2> QED BY <2>7
<1>2. CASE ~(i \in Index!Kept /\ kiItem[i].on)
  BY <1>2 DEF Index!RowsOf
<1> QED BY <1>1, <1>2

LEMMA CallKindsOf ==
  ASSUME IndexInv, NEW c \in Threads
  PROVE  /\ kiCall[c].at = "select" => kiCall[c].item \in Items /\ kiCall[c].force \in BOOLEAN
         /\ kiCall[c].at = "restore" => kiCall[c].item \in Items /\ kiCall[c].snapshot \in Index!Savings
         /\ kiCall[c].at = "save" => kiCall[c].rows \subseteq PieceRows
<1>1. kiCall[c] \in IndexCalls
  BY DEF IndexInv, IndexTyped
<1> QED BY <1>1 DEF IndexCalls, Index!Idle

LEMMA IndexSelect == ASSUME IndexInv, NEW c \in Threads, Index!Select(c) PROVE IndexInv'
<1>1. /\ kiCall[c].at = "select" /\ UNCHANGED <<kiItem, chunks, history, active, loaded, kiOverlapped, kiCount>>
  BY DEF Index!Select, Index!store
<1>2. kiCall[c].item \in Items /\ kiCall[c].force \in BOOLEAN
  BY <1>1, CallKindsOf
<1> DEFINE rs == Index!RowsOf(kiCall[c].item, kiCall[c].force)
<1>3. /\ rs \in SUBSET PieceRows
      /\ \A r \in rs : r.part \in Nat \ {0} /\ kiItem[r.item] # Index!NoItem /\ r.text = kiItem[r.item].text
  BY <1>2, RowsOfFit
<1>4. RowsChange /\ RowsStillFit /\ active' \subseteq Projects /\ loaded' \in BOOLEAN
  BY <1>1, RowsStay DEF IndexInv, IndexTyped
<1>5. CASE rs = {}
  <2>1. kiCall' = [kiCall EXCEPT ![c] = Index!Idle]
    BY <1>5 DEF Index!Select, Index!Goes
  <2> QED BY <1>4, <2>1, IndexCallKinds, IndexTurn
<1>6. CASE rs # {}
  <2>1. PICK x : x = [at |-> "save", rows |-> rs]
    OBVIOUS
  <2>2. kiCall' = [kiCall EXCEPT ![c] = x]
    BY <1>6, <2>1 DEF Index!Select, Index!Goes
  <2>3. x \in IndexCalls /\ x.at = "save" /\ x.rows = rs
    BY <1>3, <2>1, IndexCallKinds
  <2>4. \A r \in x.rows :
          /\ r.part \in Nat \ {0}
          /\ r.item \notin kiOverlapped' => kiItem'[r.item] # Index!NoItem /\ r.text = kiItem'[r.item].text
    BY <1>1, <1>3, <2>3
  <2> QED BY <1>4, <2>2, <2>3, <2>4, IndexTurn
<1> QED BY <1>5, <1>6

LEMMA IndexSaveEmbedding == ASSUME IndexInv, NEW c \in Threads, Index!SaveEmbedding(c) PROVE IndexInv'
<1>1. /\ kiCall[c].at = "save" /\ UNCHANGED <<kiItem, history, active, loaded, kiOverlapped, kiCount>>
  BY DEF Index!SaveEmbedding
<1>2. PICK r \in kiCall[c].rows :
        IF r.part <= Len(chunks[r.item])
        THEN /\ chunks' = [chunks EXCEPT ![r.item][r.part].vector = <<r.text, r.part>>]
             /\ Index!Goes(c, IF kiCall[c].rows = {r} THEN Index!Idle
                              ELSE [at |-> "save", rows |-> kiCall[c].rows \ {r}])
        ELSE Index!Goes(c, Index!Idle) /\ UNCHANGED chunks
  BY DEF Index!SaveEmbedding
<1>3. kiCall[c].rows \subseteq PieceRows
  BY <1>1, CallKindsOf
<1>4. /\ r.part \in Nat \ {0}
      /\ r.item \notin kiOverlapped => kiItem[r.item] # Index!NoItem /\ r.text = kiItem[r.item].text
  BY <1>1 DEF IndexInv, RowsFit
<1>5. r.item \in Items /\ r.text \in Texts
  <2>1. r \in PieceRows
    BY <1>3
  <2> QED BY <2>1 DEF PieceRows
<1>6. active' \subseteq Projects /\ loaded' \in BOOLEAN
  BY <1>1 DEF IndexInv, IndexTyped
<1>7. CASE ~(r.part <= Len(chunks[r.item]))
  <2>1. kiCall' = [kiCall EXCEPT ![c] = Index!Idle] /\ UNCHANGED chunks
    BY <1>2, <1>7 DEF Index!Goes
  <2>2. RowsChange /\ RowsStillFit
    BY <1>1, <2>1, RowsStay
  <2> QED BY <1>6, <2>1, <2>2, IndexCallKinds, IndexTurn
<1>8. CASE r.part <= Len(chunks[r.item])
  <2>1. kiItem[r.item] # Index!NoItem
    <3>1. SUFFICES ASSUME kiItem[r.item] = Index!NoItem PROVE FALSE
      OBVIOUS
    <3>2. chunks[r.item] = <<>>
      BY <1>5, <3>1 DEF IndexInv, ChunksFit
    <3>3. Len(chunks[r.item]) = 0
      BY <3>2
    <3> QED BY <1>4, <1>8, <3>3
  <2>2. kiItem[r.item].text \in Texts
    BY <1>5, <2>1, KeptIs, KeptRow DEF IndexInv
  <2>3. Pieces[kiItem[r.item].text] \in Nat
    BY <2>2, IndexConstants
  <2>4. PICK old : old = chunks[r.item]
    OBVIOUS
  <2>5. PICK k \in Nat : k = Pieces[kiItem[r.item].text]
    BY <2>3
  <2>6. /\ old \in [1..k -> ChunkRows]
        /\ \A n \in 1..k : /\ old[n].text = kiItem[r.item].text
                           /\ r.item \notin kiOverlapped =>
                                old[n].vector \in {Index!NoVector, <<kiItem[r.item].text, n>>}
    BY <1>5, <2>1, <2>4, <2>5 DEF IndexInv, ChunksFit
  <2>7. r.part \in 1..k
    BY <1>4, <1>8, <2>4, <2>6
  <2>8. PICK part : part = r.part
    OBVIOUS
  <2>9. PICK v : v = <<r.text, r.part>>
    OBVIOUS
  <2>10. /\ chunks' = [chunks EXCEPT ![r.item] = [old EXCEPT ![part] = [old[part] EXCEPT !.vector = v]]]
         /\ chunks = [i \in Items |-> chunks[i]]
    BY <1>2, <1>8, <2>4, <2>8, <2>9 DEF IndexInv, IndexTyped
  <2>11. /\ chunks'[r.item] = [old EXCEPT ![part] = [old[part] EXCEPT !.vector = v]]
         /\ \A i \in Items \ {r.item} : chunks'[i] = chunks[i]
         /\ chunks' = [i \in Items |-> chunks'[i]]
    BY <1>5, <2>10
  <2>12. PICK q : q = [old[part] EXCEPT !.vector = v]
    OBVIOUS
  <2>13. q \in ChunkRows /\ q.text = old[part].text /\ q.vector = v
    <3>1. v \in Texts \X Nat
      BY <1>4, <1>5, <2>9
    <3>2. old[part] \in ChunkRows
      BY <2>6, <2>7, <2>8
    <3> QED BY <2>12, <3>1, <3>2 DEF ChunkRows
  <2>14. /\ chunks'[r.item] \in [1..k -> ChunkRows] /\ chunks'[r.item][part] = q
         /\ \A n \in 1..k : n # part => chunks'[r.item][n] = old[n]
    BY <2>6, <2>7, <2>8, <2>11, <2>12, <2>13
  <2>15. ASSUME NEW i \in Items PROVE ChunksFit(i)'
    <3>1. CASE i # r.item
      BY <1>1, <2>11, <3>1 DEF IndexInv, ChunksFit, ChunkRows, Index!NoItem, Index!NoVector
    <3>2. CASE i = r.item
      <4>1. \A n \in 1..k : /\ chunks'[i][n].text = kiItem[i].text
                            /\ i \notin kiOverlapped =>
                                 chunks'[i][n].vector \in {Index!NoVector, <<kiItem[i].text, n>>}
        BY <1>4, <2>6, <2>7, <2>8, <2>9, <2>13, <2>14, <3>2
      <4>2. chunks'[i] \in [1..k -> ChunkRows]
        BY <2>14, <3>2
      <4> QED BY <1>1, <2>1, <2>5, <3>2, <4>1, <4>2 DEF ChunksFit, Index!NoItem, Index!NoVector, ChunkRows
    <3> QED BY <3>1, <3>2
  <2>16. RowsChange /\ RowsStillFit
    <3>1. \A i \in Items : RevisionsFit(i)'
      BY <1>1 DEF IndexInv, RevisionsFit, Index!Savings, Index!Columns, Index!NoItem
    <3>2. RowsStillFit
      BY <1>1 DEF IndexInv, RowsFit, RowsStillFit
    <3> QED BY <1>1, <2>11, <2>15, <3>1, <3>2 DEF IndexInv, IndexTyped, RowsChange
  <2>17. CASE kiCall[c].rows = {r}
    <3>1. kiCall' = [kiCall EXCEPT ![c] = Index!Idle]
      BY <1>2, <1>8, <2>17 DEF Index!Goes
    <3> QED BY <1>6, <2>16, <3>1, IndexCallKinds, IndexTurn
  <2>18. CASE kiCall[c].rows # {r}
    <3>1. PICK x : x = [at |-> "save", rows |-> kiCall[c].rows \ {r}]
      OBVIOUS
    <3>2. kiCall' = [kiCall EXCEPT ![c] = x]
      BY <1>2, <1>8, <2>18, <3>1 DEF Index!Goes
    <3>3. kiCall[c].rows \ {r} \in SUBSET PieceRows
      BY <1>3
    <3>4. x \in IndexCalls /\ x.at = "save" /\ x.rows = kiCall[c].rows \ {r}
      BY <3>1, <3>3, IndexCallKinds
    <3>5. \A s \in x.rows :
            /\ s.part \in Nat \ {0}
            /\ s.item \notin kiOverlapped' => kiItem'[s.item] # Index!NoItem /\ s.text = kiItem'[s.item].text
      BY <1>1, <2>16, <3>4 DEF RowsStillFit
    <3> QED BY <1>6, <2>16, <3>2, <3>4, <3>5, IndexTurn
  <2> QED BY <2>17, <2>18
<1> QED BY <1>7, <1>8

LEMMA IndexRestoreReads ==
  ASSUME IndexInv, NEW c \in Threads, NEW i \in Items, NEW r \in Index!Revisions(i), Index!RestoreReads(c, i, r)
  PROVE  IndexInv'
<1>1. PICK x : x = [at |-> "restore", item |-> i, snapshot |-> history[i][r]]
  OBVIOUS
<1>2. /\ kiCall' = [kiCall EXCEPT ![c] = x]
      /\ UNCHANGED <<kiItem, chunks, history, active, loaded, kiOverlapped>>
  BY <1>1 DEF Index!RestoreReads, Index!Goes, Index!store
<1>3. history[i][r] \in Index!Savings
  BY DEF IndexInv, RevisionsFit, Index!Revisions
<1>4. x \in IndexCalls /\ x.at = "restore"
  BY <1>1, <1>3, IndexCallKinds
<1>5. RowsChange /\ RowsStillFit /\ active' \subseteq Projects /\ loaded' \in BOOLEAN
  BY <1>2, RowsStay DEF IndexInv, IndexTyped
<1> QED BY <1>2, <1>4, <1>5, IndexTurn

LEMMA IndexRestoreWrites == ASSUME IndexInv, NEW c \in Threads, Index!RestoreWrites(c) PROVE IndexInv'
<1>1. kiCall[c].at = "restore" /\ UNCHANGED <<active, loaded, kiCount>>
  BY DEF Index!RestoreWrites
<1>2. PICK i \in Items : i = kiCall[c].item
  BY <1>1, CallKindsOf
<1>3. PICK ask \in Index!Savings : ask = kiCall[c].snapshot
  BY <1>1, CallKindsOf
<1>4. active' \subseteq Projects /\ loaded' \in BOOLEAN
  BY <1>1 DEF IndexInv, IndexTyped
<1>5. CASE i \in Index!Kept
  <2>1. Index!UpdateItem(i, ask)
    BY <1>2, <1>3, <1>5 DEF Index!RestoreWrites
  <2>2. RowsChange /\ RowsStillFit
    BY <2>1, IndexSaves
  <2>3. Index!ThenIndexes(c, i) \/ kiCall' = [kiCall EXCEPT ![c] = Index!Idle]
    BY <1>2, <1>5 DEF Index!RestoreWrites, Index!Goes
  <2> QED BY <1>4, <2>2, <2>3, IndexThenIndexes, IndexCallKinds, IndexTurn
<1>6. CASE i \notin Index!Kept
  <2>1. /\ kiCall' = [kiCall EXCEPT ![c] = Index!Idle]
        /\ UNCHANGED <<kiItem, chunks, history, kiOverlapped>>
    BY <1>2, <1>6 DEF Index!RestoreWrites, Index!Goes, Index!store
  <2>2. RowsChange /\ RowsStillFit
    BY <2>1, RowsStay
  <2> QED BY <1>4, <2>1, <2>2, IndexCallKinds, IndexTurn
<1> QED BY <1>5, <1>6

LEMMA IndexReindex ==
  ASSUME IndexInv, NEW c \in Threads, NEW i \in Items, NEW force \in BOOLEAN, Index!Reindex(c, i, force)
  PROVE  IndexInv'
<1>1. PICK x : x = [at |-> "select", item |-> i, force |-> force]
  OBVIOUS
<1>2. /\ kiCall' = [kiCall EXCEPT ![c] = x] /\ loaded' = TRUE
      /\ UNCHANGED <<kiItem, chunks, history, active, kiOverlapped>>
  BY <1>1 DEF Index!Reindex, Index!Goes, Index!store
<1>3. x \in IndexCalls /\ x.at = "select"
  BY <1>1, IndexCallKinds
<1>4. RowsChange /\ RowsStillFit /\ active' \subseteq Projects /\ loaded' \in BOOLEAN
  BY <1>2, RowsStay DEF IndexInv, IndexTyped
<1> QED BY <1>2, <1>3, <1>4, IndexTurn

LEMMA IndexDeleteProject == ASSUME IndexInv, NEW p \in Projects, Index!DeleteProject(p) PROVE IndexInv'
<1>1. /\ active' = active \ {p} /\ UNCHANGED <<chunks, history, loaded, kiCall, kiOverlapped>>
      /\ kiItem' = [i \in Items |-> IF i \in Index!Kept /\ kiItem[i].project = p
                                    THEN [kiItem[i] EXCEPT !.project = Global] ELSE kiItem[i]]
  BY DEF Index!DeleteProject
<1>2. IndexTyped /\ \A i \in Items : ChunksFit(i) /\ RevisionsFit(i)
  BY DEF IndexInv
<1>3. ASSUME NEW k \in KeptRows, NEW m, m = [k EXCEPT !.project = Global]
      PROVE  m \in KeptRows /\ m.text = k.text /\ m.on = k.on /\ m.revision = k.revision
  <2>1. Global \in Index!Columns
    BY DEF Index!Columns
  <2> QED BY <1>3, <2>1 DEF KeptRows
<1>4. ASSUME NEW i \in Items
      PROVE  \/ kiItem[i] = Index!NoItem /\ kiItem'[i] = Index!NoItem
             \/ /\ kiItem[i] \in KeptRows /\ kiItem'[i] \in KeptRows
                /\ kiItem'[i].text = kiItem[i].text /\ kiItem'[i].on = kiItem[i].on
                /\ kiItem'[i].revision = kiItem[i].revision
  <2>1. CASE kiItem[i] = Index!NoItem
    BY <1>1, <1>2, <2>1, KeptIs
  <2>2. CASE kiItem[i] # Index!NoItem
    <3>1. kiItem[i] \in KeptRows
      BY <1>2, <2>2, KeptIs
    <3>2. kiItem'[i] = kiItem[i] \/ kiItem'[i] = [kiItem[i] EXCEPT !.project = Global]
      BY <1>1
    <3> QED BY <1>3, <3>1, <3>2
  <2> QED BY <2>1, <2>2
<1>5. \A i \in Items : (kiItem[i] = Index!NoItem <=> kiItem'[i] = Index!NoItem)
  BY <1>4, KeptRow
<1>6. kiItem' \in [Items -> {Index!NoItem} \cup KeptRows]
  <2>1. kiItem' = [i \in Items |-> kiItem'[i]]
    BY <1>1
  <2> QED BY <1>4, <2>1
<1>7. \A i \in Items : kiItem[i] # Index!NoItem =>
        /\ kiItem'[i].text = kiItem[i].text /\ kiItem'[i].on = kiItem[i].on
        /\ kiItem'[i].revision = kiItem[i].revision
  BY <1>4
<1>8. ASSUME NEW i \in Items PROVE ChunksFit(i)' /\ RevisionsFit(i)'
  <2>1. ChunksFit(i)'
    BY <1>1, <1>2, <1>5, <1>7 DEF ChunksFit, Index!NoItem, Index!NoVector, ChunkRows
  <2>2. RevisionsFit(i)'
    BY <1>1, <1>2, <1>5, <1>7 DEF RevisionsFit, Index!NoItem, Index!Savings, Index!Columns
  <2> QED BY <2>1, <2>2
<1>9. RowsStillFit
  <2> SUFFICES ASSUME NEW c \in Threads, kiCall[c].at = "save", NEW r \in kiCall[c].rows
               PROVE  /\ r.part \in Nat \ {0}
                      /\ r.item \notin kiOverlapped' => kiItem'[r.item] # Index!NoItem /\ r.text = kiItem'[r.item].text
    BY DEF RowsStillFit
  <2>1. /\ r.part \in Nat \ {0}
        /\ r.item \notin kiOverlapped => kiItem[r.item] # Index!NoItem /\ r.text = kiItem[r.item].text
    BY DEF IndexInv, RowsFit
  <2>2. r \in PieceRows
    BY CallKindsOf
  <2>3. r.item \in Items
    BY <2>2 DEF PieceRows
  <2> QED BY <1>1, <1>5, <1>7, <2>1, <2>3
<1>10. RowsChange
  BY <1>1, <1>2, <1>6, <1>8 DEF RowsChange, IndexTyped
<1>11. active' \subseteq Projects /\ loaded' \in BOOLEAN /\ kiCall' = kiCall
  BY <1>1, <1>2 DEF IndexTyped
<1> QED BY <1>9, <1>10, <1>11, IndexCallStays

LEMMA IndexRestart == ASSUME IndexInv, Index!Restart PROVE IndexInv'
<1>1. /\ kiCall' = [c \in Threads |-> Index!Idle] /\ loaded' = FALSE
      /\ UNCHANGED <<kiItem, chunks, history, active, kiOverlapped>>
  BY DEF Index!Restart, Index!store
<1>2. kiCall' \in [Threads -> IndexCalls] /\ \A c \in Threads : kiCall'[c].at = "idle"
  BY <1>1, IndexCallKinds
<1>3. RowsChange
  BY <1>1, RowsStay
<1>4. IndexTyped'
  BY <1>1, <1>2, <1>3 DEF IndexInv, RowsChange, IndexTyped, IndexCalls, KeptRows, PieceRows, Index!Idle, Index!NoItem,
                         Index!Columns, Index!Savings
<1>5. \A c \in Threads : RowsFit(c)'
  BY <1>2 DEF RowsFit
<1> QED BY <1>3, <1>4, <1>5 DEF RowsChange, IndexInv

LEMMA IndexKeeps == IndexInv /\ Index!Next => IndexInv'
<1> SUFFICES ASSUME IndexInv, Index!Next PROVE IndexInv'
  OBVIOUS
<1>1. active \subseteq Projects /\ loaded \in BOOLEAN
  BY DEF IndexInv, IndexTyped
<1>2. ASSUME NEW c \in Threads, NEW i \in Items, NEW ask \in Index!Savings,
             Index!Create(c, i, ask) \/ Index!Update(c, i, ask) \/ Index!Import(c, i, ask)
      PROVE  IndexInv'
  <2>1. /\ Index!CreateItem(i, ask) \/ Index!UpdateItem(i, ask)
        /\ UNCHANGED <<active, loaded>>
        /\ Index!ThenIndexes(c, i) \/ UNCHANGED kiCall
    BY <1>2 DEF Index!Create, Index!Update, Index!Import
  <2>2. RowsChange /\ RowsStillFit
    BY <2>1, IndexSaves
  <2> QED BY <1>1, <2>1, <2>2, IndexThenIndexes, IndexCallStays
<1>3. ASSUME NEW c \in Threads, NEW i \in Items, Index!Delete(c, i) PROVE IndexInv'
  <2>1. Index!DeleteItem(i) /\ UNCHANGED <<active, loaded, kiCall>>
    BY <1>3 DEF Index!Delete
  <2>2. RowsChange /\ RowsStillFit
    BY <2>1, IndexDeletes
  <2> QED BY <1>1, <2>1, <2>2, IndexCallStays
<1> QED BY <1>2, <1>3, IndexRestoreWrites, IndexSelect, IndexSaveEmbedding, IndexRestoreReads, IndexReindex,
           IndexDeleteProject, IndexRestart DEF Index!Next

LEMMA IndexStarts == Index!Init => IndexInv
<1> SUFFICES ASSUME Index!Init PROVE IndexInv
  OBVIOUS
<1>1. /\ kiItem = [i \in Items |-> Index!NoItem] /\ chunks = [i \in Items |-> <<>>]
      /\ history = [i \in Items |-> <<>>] /\ active = Projects /\ loaded = FALSE
      /\ kiCall = [c \in Threads |-> Index!Idle]
  BY DEF Index!Init
<1>2. kiCall \in [Threads -> IndexCalls] /\ \A c \in Threads : kiCall[c].at = "idle"
  BY <1>1, IndexCallKinds
<1>3. IndexTyped
  BY <1>1, <1>2 DEF IndexTyped
<1>4. \A c \in Threads : RowsFit(c)
  BY <1>2 DEF RowsFit
<1>5. ASSUME NEW i \in Items PROVE ChunksFit(i) /\ RevisionsFit(i)
  <2>1. kiItem[i] = Index!NoItem /\ chunks[i] = <<>> /\ DOMAIN history[i] = {}
    BY <1>1
  <2> QED BY <2>1 DEF ChunksFit, RevisionsFit
<1> QED BY <1>3, <1>4, <1>5 DEF IndexInv

LEMMA IndexTurns == IndexInv /\ [AllNext]_allVars => IndexInv'
<1> SUFFICES ASSUME IndexInv, [AllNext]_allVars PROVE IndexInv'
  OBVIOUS
<1>1. CASE Index!Next
  BY <1>1, IndexKeeps
<1>2. CASE UNCHANGED indexVars
  <2>1. UNCHANGED <<kiItem, chunks, history, active, loaded, kiCall, kiOverlapped>>
    BY <1>2 DEF indexVars
  <2>2. RowsChange /\ RowsStillFit /\ active' \subseteq Projects /\ loaded' \in BOOLEAN
    BY <2>1, RowsStay DEF IndexInv, IndexTyped
  <2> QED BY <2>1, <2>2, IndexCallStays
<1> QED BY <1>1, <1>2 DEF AllNext, allVars

LEMMA IndexShows == IndexInv => IndexSafety
<1> SUFFICES ASSUME IndexInv PROVE Index!TypeOK /\ Index!CurrentIsKept /\ Index!VectorOfItsText
  BY DEF IndexSafety
<1>1. ASSUME NEW i \in Items
      PROVE  /\ kiItem[i] # Index!NoItem =>
                  /\ kiItem[i].text \in Texts /\ kiItem[i].project \in Index!Columns
                  /\ kiItem[i].revision \in 1..MaxRevision
                  /\ Len(chunks[i]) = Pieces[kiItem[i].text] /\ Pieces[kiItem[i].text] \in Nat
             /\ kiItem[i] = Index!NoItem => chunks[i] = <<>>
  <2>1. CASE kiItem[i] # Index!NoItem
    <3>1. kiItem[i] \in KeptRows
      BY <2>1, KeptIs DEF IndexInv
    <3>2. /\ kiItem[i].text \in Texts /\ kiItem[i].project \in Index!Columns
          /\ kiItem[i].revision \in 1..MaxRevision
      BY <3>1, KeptRow
    <3>3. Pieces[kiItem[i].text] \in Nat
      BY <3>2, IndexConstants
    <3>4. chunks[i] \in [1..Pieces[kiItem[i].text] -> ChunkRows]
      BY <2>1 DEF IndexInv, ChunksFit
    <3>5. Len(chunks[i]) = Pieces[kiItem[i].text]
      BY <3>3, <3>4
    <3> QED BY <2>1, <3>2, <3>3, <3>5
  <2>2. CASE kiItem[i] = Index!NoItem
    BY <2>2 DEF IndexInv, ChunksFit
  <2> QED BY <2>1, <2>2
<1>2. Index!TypeOK
  <2>1. \A i \in Items : Index!Revisions(i) \subseteq 1..MaxRevision
    BY DEF IndexInv, RevisionsFit, Index!Revisions
  <2>2. active \subseteq Projects /\ loaded \in BOOLEAN
    BY DEF IndexInv, IndexTyped
  <2> QED BY <1>1, <2>1, <2>2 DEF Index!TypeOK, Index!Kept
<1>3. Index!CurrentIsKept
  BY DEF IndexInv, RevisionsFit, Index!CurrentIsKept, Index!Kept, Index!Revisions
<1>4. Index!VectorOfItsText
  <2> SUFFICES ASSUME NEW i \in Items \ kiOverlapped, NEW n \in 1..Len(chunks[i])
               PROVE  chunks[i][n].vector \in {Index!NoVector, <<chunks[i][n].text, n>>}
    BY DEF Index!VectorOfItsText
  <2>1. kiItem[i] # Index!NoItem
    <3> SUFFICES ASSUME kiItem[i] = Index!NoItem PROVE FALSE
      OBVIOUS
    <3>1. Len(chunks[i]) = 0
      BY <1>1
    <3> QED BY <3>1
  <2>2. n \in 1..Pieces[kiItem[i].text]
    BY <1>1, <2>1
  <2> QED BY <2>1, <2>2 DEF IndexInv, ChunksFit
<1> QED BY <1>2, <1>3, <1>4

\* The newest revision tells what an item says, through deletions, imports over old revisions and
\* restorations that overlap; and unless a save falls between the reading and the writing of an
\* indexing, a search compares vectors of the texts that are there.
THEOREM IndexHolds == AllSpec => []IndexSafety
<1>1. AllInit => IndexInv
  BY IndexStarts DEF AllInit
<1> QED BY <1>1, IndexShows, IndexTurns, PTL DEF AllSpec
-----------------------------------------------------------------------------
(***************************************************************************)
(* Version changes and the bootstrap.                                      *)
(***************************************************************************)

WriterSteps == {"idle", "open", "write", "replace", "restart"}

BootSteps ==
  {"read", "resolve", "fetch", "remove", "move", "unlink", "link", "clear", "start", "failed", "up"}

WriterCalls == [pc : WriterSteps, ino : Runtime!Inodes \cup {0}, payload : Runtime!Payloads]

Boots == [pc : BootSteps, sel : Runtime!Releases, once : Runtime!Releases, check : BOOLEAN, ref : Runtime!Releases]

RuntimeTyped ==
  /\ rcLoad \in ControlLoads
  /\ control \in Runtime!Inodes \cup {0} /\ tmp \in Runtime!Inodes \cup {0}
  /\ control # 0 => control # tmp
  /\ content \in [Runtime!Inodes -> Runtime!Payloads \cup {Runtime!Unreadable}]
  /\ writers \in [Writers -> WriterCalls]
  /\ boot \in Boots
  /\ installed \subseteq Runtime!Versions
  /\ current \in Runtime!Releases /\ running \in Runtime!Releases
  /\ approved \in Runtime!Releases /\ uncleared \in Runtime!Releases
  /\ newest \in Runtime!Versions /\ crashes \in Nat

\* Between the reading of the control file and its clearing nobody writes it.
NobodyWrites ==
  /\ \A w \in Writers : writers[w].pc # "idle" => boot.pc = "up" /\ w \in rcLoad.writers
  /\ boot.pc \in {"resolve", "fetch", "remove", "move", "unlink", "link", "clear"} =>
       /\ boot.sel = Runtime!Control.sel /\ boot.once = Runtime!Control.once
       /\ boot.check = Runtime!Control.check

\* The release that is fetched is the one-shot release, when there is one, and the one the symlink
\* then names; a fallback is another one.
FetchesRight ==
  /\ boot.pc \in {"fetch", "remove", "move", "unlink", "link", "clear"} =>
       boot.ref # 0 /\ (boot.once # 0 => boot.ref = boot.once)
  /\ boot.pc = "clear" => current = boot.ref
  /\ boot.pc = "start" =>
       current # 0 /\ Runtime!Control.once \in {0, uncleared} \cup (Runtime!Releases \ {current})
  /\ boot.pc = "up" => current = running

\* A writer alone has its temporary file to itself, and what it has written is in it.
OwnFile(w) ==
  /\ writers[w].pc = "write" =>
       tmp # 0 /\ writers[w].ino = tmp /\ content[tmp] = Runtime!Unreadable
  /\ writers[w].pc = "replace" => tmp # 0 /\ content[tmp] = writers[w].payload

\* The control file names no other one-shot release than the approved one, or the one that was not
\* cleared; the approved one is not given up before it is started.
KeepsApproval ==
  /\ Runtime!Control.once \in {0, approved, uncleared}
  /\ ~rcLoad.startFails /\ approved # 0 =>
       /\ Runtime!Control.once = approved \/ (boot.pc = "start" /\ current = approved)
       /\ current \in {0, approved, running}

WriterAlone == \A v, w \in rcLoad.writers : v = w

AloneWrites == WriterAlone => (\A w \in Writers : OwnFile(w)) /\ KeepsApproval

\* Without a killed container the release that works is there whenever a lookup or a download
\* may fail.
NeverStranded ==
  rcLoad.crashes = 0 =>
    /\ running # 0 /\ boot.pc \in {"read", "resolve", "fetch", "remove", "failed", "up"} => Runtime!CurrentUsable
    /\ boot.pc \in {"unlink", "link", "clear"} => boot.ref \in installed
    /\ boot.pc = "start" => Runtime!CurrentUsable
    /\ boot.pc = "failed" => running = 0

RuntimeInv == RuntimeTyped /\ NobodyWrites /\ FetchesRight /\ AloneWrites /\ NeverStranded

LEMMA RuntimeCardinality ==
  ASSUME NEW S
  PROVE  Runtime!Cardinality(S) = Cardinality(S)
BY DEF Runtime!Cardinality, Cardinality

LEMMA RuntimeFinite ==
  ASSUME NEW S, Runtime!IsFiniteSet(S)
  PROVE  IsFiniteSet(S)
BY DEF Runtime!IsFiniteSet, IsFiniteSet

LEMMA RuntimeConstants ==
  /\ MaxVersion \in Nat \ {0} /\ IsFiniteSet(Writers)
  /\ \A l \in ControlLoads :
       /\ l.writers \subseteq Writers /\ l.faults \in Nat /\ l.crashes \in Nat
       /\ l.check \in BOOLEAN /\ l.refresh \in BOOLEAN /\ l.startFails \in BOOLEAN
BY ApplicationAssumption, RuntimeFinite DEF Runtime!ConstantsAssumption

LEMMA InodesAre == Runtime!Inodes = 1..(Cardinality(Writers) + 2) /\ Cardinality(Writers) \in Nat
BY RuntimeConstants, RuntimeCardinality, FS_CardinalityType DEF Runtime!Inodes

LEMMA InodeIsNotNone == 0 \notin Runtime!Inodes
BY InodesAre

LEMMA PayloadsAre ==
  /\ Runtime!Latest \in Runtime!Payloads /\ Runtime!Latest.once = 0
  /\ \A p \in Runtime!Payloads :
       /\ p.sel \in Runtime!Releases /\ p.once \in Runtime!Releases /\ p.check \in BOOLEAN
       /\ Runtime!Readable(p) /\ p # Runtime!Unreadable
  /\ ~Runtime!Readable(Runtime!Unreadable)
<1>1. 0 \in Runtime!Releases
  BY RuntimeConstants DEF Runtime!Releases
<1>2. Runtime!Latest \in Runtime!Payloads /\ Runtime!Latest.once = 0
  BY <1>1 DEF Runtime!Latest, Runtime!Payloads
<1>3. ~Runtime!Readable(Runtime!Unreadable)
  BY DEF Runtime!Readable, Runtime!Unreadable
<1>4. ASSUME NEW p \in Runtime!Payloads PROVE Runtime!Readable(p)
  <2>1. DOMAIN p = {"sel", "once", "check"}
    BY DEF Runtime!Payloads
  <2> QED BY <2>1 DEF Runtime!Readable
<1>5. \A p \in Runtime!Payloads : p.sel \in Runtime!Releases /\ p.once \in Runtime!Releases /\ p.check \in BOOLEAN
  BY DEF Runtime!Payloads
<1> QED BY <1>2, <1>3, <1>4, <1>5

LEMMA ControlTyped == ASSUME RuntimeTyped PROVE Runtime!Control \in Runtime!Payloads
<1>1. CASE control # 0 /\ Runtime!Readable(content[control])
  <2>1. content[control] \in Runtime!Payloads \cup {Runtime!Unreadable}
    BY <1>1 DEF RuntimeTyped
  <2>2. content[control] \in Runtime!Payloads
    BY <1>1, <2>1, PayloadsAre
  <2> QED BY <1>1, <2>2 DEF Runtime!Control
<1>2. CASE ~(control # 0 /\ Runtime!Readable(content[control]))
  BY <1>2, PayloadsAre DEF Runtime!Control
<1> QED BY <1>1, <1>2

\* The control file that is read is the one under its name.
LEMMA ControlStays ==
  ASSUME control' = control, control # 0 => content'[control] = content[control]
  PROVE  Runtime!Control' = Runtime!Control
<1>1. CASE control = 0
  BY <1>1 DEF Runtime!Control, Runtime!Latest
<1>2. CASE control # 0
  BY <1>2 DEF Runtime!Control, Runtime!Latest, Runtime!Readable
<1> QED BY <1>1, <1>2

\* There is an inode beside the two names and those that the writers hold.
LEMMA FreeIsFree ==
  ASSUME RuntimeTyped, tmp = 0
  PROVE  Runtime!FreeInode \in Runtime!Inodes /\ Runtime!FreeInode # control
<1> DEFINE inos == [w \in Writers |-> writers[w].ino]
           named == {inos[w] : w \in Writers}
<1>1. inos \in Surjection(Writers, named)
  BY DEF Surjection
<1>2. IsFiniteSet(named) /\ Cardinality(named) <= Cardinality(Writers)
  BY <1>1, RuntimeConstants, FS_Surjection
<1>3. IsFiniteSet(named \cup {control}) /\ Cardinality(named \cup {control}) <= Cardinality(Writers) + 1
  <2>1. Cardinality(named) \in Nat /\ Cardinality(Writers) \in Nat
    BY <1>2, RuntimeConstants, FS_CardinalityType
  <2>2. IsFiniteSet(named \cup {control}) /\ Cardinality(named \cup {control}) <= Cardinality(named) + 1
    <3>1. /\ IsFiniteSet(named \cup {control})
          /\ Cardinality(named \cup {control}) =
               IF control \in named THEN Cardinality(named) ELSE Cardinality(named) + 1
      BY <1>2, FS_AddElement
    <3> QED BY <2>1, <3>1
  <2>3. Cardinality(named \cup {control}) \in Nat
    BY <2>2, FS_CardinalityType
  <2> QED BY <1>2, <2>1, <2>2, <2>3
<1>4. ~(Runtime!Inodes \subseteq named \cup {control})
  <2> SUFFICES ASSUME Runtime!Inodes \subseteq named \cup {control} PROVE FALSE
    OBVIOUS
  <2>1. Cardinality(Runtime!Inodes) <= Cardinality(named \cup {control})
    BY <1>3, FS_Subset
  <2>2. Cardinality(Runtime!Inodes) = Cardinality(Writers) + 2
    <3>1. 1 \in Int /\ Cardinality(Writers) + 2 \in Int /\ Cardinality(Writers) \in Nat
      BY InodesAre
    <3>2. Cardinality(1..(Cardinality(Writers) + 2)) =
            IF 1 > Cardinality(Writers) + 2 THEN 0 ELSE (Cardinality(Writers) + 2) - 1 + 1
      BY <3>1, FS_Interval
    <3> QED BY <3>1, <3>2, InodesAre
  <2>3. Cardinality(named \cup {control}) \in Nat /\ Cardinality(Writers) \in Nat
    BY <1>3, InodesAre, FS_CardinalityType
  <2> QED BY <1>3, <2>1, <2>2, <2>3
<1>5. PICK i \in Runtime!Inodes : i \notin named /\ i # control
  BY <1>4
<1>6. i \notin {control, tmp} \cup {writers[w].ino : w \in Writers}
  BY <1>5, InodeIsNotNone
<1>7. Runtime!FreeInode \in Runtime!Inodes /\ Runtime!FreeInode \notin {control, tmp} \cup {writers[w].ino : w \in Writers}
  BY <1>6 DEF Runtime!FreeInode
<1> QED BY <1>7

\* What a caller may ask for.
LEMMA AskedTyped ==
  ASSUME RuntimeTyped
  PROVE  Runtime!Asked \subseteq Runtime!Payloads
<1> SUFFICES ASSUME NEW p \in Runtime!Asked PROVE p \in Runtime!Payloads
  OBVIOUS
<1>1. 1..newest \subseteq Runtime!Releases /\ running \in Runtime!Releases /\ 0 \in Runtime!Releases
  BY RuntimeConstants DEF RuntimeTyped, Runtime!Releases, Runtime!Versions
<1>2. Runtime!Control.sel \in Runtime!Releases
  BY ControlTyped, PayloadsAre
<1>3. Runtime!Latest = [sel |-> 0, once |-> 0, check |-> FALSE]
  BY DEF Runtime!Latest
<1>4. ASSUME NEW v \in Runtime!Releases, NEW s \in Runtime!Releases, NEW b \in BOOLEAN
      PROVE  [sel |-> s, once |-> v, check |-> b] \in Runtime!Payloads
  BY DEF Runtime!Payloads
<1>5. CASE p \in {[Runtime!Latest EXCEPT !.once = v] : v \in 1..newest}
  <2>1. PICK v \in 1..newest : p = [sel |-> 0, once |-> v, check |-> FALSE]
    BY <1>3, <1>5
  <2> QED BY <1>1, <1>4, <2>1
<1>6. CASE p \in {[Runtime!Latest EXCEPT !.sel = v] : v \in 1..newest}
  <2>1. PICK v \in 1..newest : p = [sel |-> v, once |-> 0, check |-> FALSE]
    BY <1>3, <1>6
  <2> QED BY <1>1, <1>4, <2>1
<1>7. CASE p = [Runtime!Latest EXCEPT !.check = TRUE]
  <2>1. p = [sel |-> 0, once |-> 0, check |-> TRUE]
    BY <1>3, <1>7
  <2> QED BY <1>1, <1>4, <2>1
<1>8. CASE p = [Runtime!Latest EXCEPT !.sel = Runtime!Control.sel, !.once = running]
  <2>1. p = [sel |-> Runtime!Control.sel, once |-> running, check |-> FALSE]
    BY <1>3, <1>8
  <2> QED BY <1>1, <1>2, <1>4, <2>1
<1> QED BY <1>5, <1>6, <1>7, <1>8 DEF Runtime!Asked

LEMMA BootWith ==
  ASSUME NEW b \in Boots, NEW p \in BootSteps, NEW m, m = [b EXCEPT !.pc = p]
  PROVE  /\ m \in Boots /\ m.pc = p /\ m.sel = b.sel /\ m.once = b.once /\ m.check = b.check /\ m.ref = b.ref
BY DEF Boots, BootSteps

LEMMA BootingIs ==
  /\ Runtime!Booting \in Boots /\ Runtime!Booting.pc = "read"
  /\ \A m : m = [Runtime!Booting EXCEPT !.pc = "up"] => m \in Boots /\ m.pc = "up"
<1>1. 0 \in Runtime!Releases
  BY RuntimeConstants DEF Runtime!Releases
<1> QED BY <1>1 DEF Boots, BootSteps, Runtime!Booting

LEMMA WriterMade ==
  ASSUME NEW p \in WriterSteps, NEW i \in Runtime!Inodes \cup {0}, NEW y \in Runtime!Payloads, NEW x,
         x = [pc |-> p, ino |-> i, payload |-> y]
  PROVE  x \in WriterCalls /\ x.pc = p /\ x.ino = i /\ x.payload = y
BY DEF WriterCalls, WriterSteps

LEMMA WriterWith ==
  ASSUME NEW k \in WriterCalls, NEW p \in WriterSteps, NEW x, x = [k EXCEPT !.pc = p]
  PROVE  x \in WriterCalls /\ x.pc = p /\ x.ino = k.ino /\ x.payload = k.payload
BY DEF WriterCalls, WriterSteps

LEMMA WriterOf ==
  ASSUME RuntimeTyped, NEW w \in Writers
  PROVE  /\ writers[w] \in WriterCalls /\ writers[w].ino \in Runtime!Inodes \cup {0}
         /\ writers[w].payload \in Runtime!Payloads /\ writers[w].pc \in WriterSteps
<1>1. writers[w] \in WriterCalls
  BY DEF RuntimeTyped
<1> QED BY <1>1 DEF WriterCalls

LEMMA IdleWriterIs == Runtime!IdleWriter \in WriterCalls /\ Runtime!IdleWriter.pc = "idle"
BY PayloadsAre DEF Runtime!IdleWriter, WriterCalls, WriterSteps

LEMMA WritersTurn ==
  ASSUME RuntimeTyped, NEW w \in Writers, NEW x \in WriterCalls, writers' = [writers EXCEPT ![w] = x]
  PROVE  writers' \in [Writers -> WriterCalls] /\ writers'[w] = x /\ \A v \in Writers \ {w} : writers'[v] = writers[v]
<1>1. writers \in [Writers -> WriterCalls]
  BY DEF RuntimeTyped
<1> QED BY <1>1

\* The types, when they hold one by one.
LEMMA RuntimeTypes ==
  ASSUME RuntimeTyped, rcLoad' = rcLoad,
         control' \in Runtime!Inodes \cup {0}, tmp' \in Runtime!Inodes \cup {0}, control' # 0 => control' # tmp',
         content' \in [Runtime!Inodes -> Runtime!Payloads \cup {Runtime!Unreadable}],
         writers' \in [Writers -> WriterCalls], boot' \in Boots, installed' \subseteq Runtime!Versions,
         current' \in Runtime!Releases, running' \in Runtime!Releases, approved' \in Runtime!Releases,
         uncleared' \in Runtime!Releases,
         newest' \in Runtime!Versions, crashes' \in Nat
  PROVE  RuntimeTyped'
BY DEF RuntimeTyped, WriterCalls, Boots, Runtime!Inodes, Runtime!Payloads, Runtime!Releases, Runtime!Versions,
       Runtime!Unreadable

\* A step of one writer while the application runs.
LEMMA WriterMoves ==
  ASSUME RuntimeInv, boot.pc = "up", NEW w \in rcLoad.writers, w \in Writers, NEW x \in WriterCalls,
         writers' = [writers EXCEPT ![w] = x],
         UNCHANGED <<rcLoad, boot, installed, current, running, newest, crashes>>,
         control' \in Runtime!Inodes \cup {0}, tmp' \in Runtime!Inodes \cup {0}, control' # 0 => control' # tmp',
         content' \in [Runtime!Inodes -> Runtime!Payloads \cup {Runtime!Unreadable}],
         approved' \in Runtime!Releases, uncleared' \in Runtime!Releases,
         WriterAlone => /\ x.pc = "write" => tmp' # 0 /\ x.ino = tmp' /\ content'[tmp'] = Runtime!Unreadable
                        /\ x.pc = "replace" => tmp' # 0 /\ content'[tmp'] = x.payload
                        /\ Runtime!Control'.once \in {0, approved', uncleared'}
                        /\ ~rcLoad.startFails /\ approved' # 0 => Runtime!Control'.once = approved'
  PROVE  RuntimeInv'
<1>1. RuntimeTyped /\ NobodyWrites /\ FetchesRight /\ AloneWrites /\ NeverStranded
  BY DEF RuntimeInv
<1>2. writers' \in [Writers -> WriterCalls] /\ writers'[w] = x /\ \A v \in Writers \ {w} : writers'[v] = writers[v]
  BY <1>1, WritersTurn
<1>3. RuntimeTyped'
  <2>1. boot' \in Boots /\ installed' \subseteq Runtime!Versions /\ current' \in Runtime!Releases
        /\ running' \in Runtime!Releases /\ newest' \in Runtime!Versions /\ crashes' \in Nat
    BY <1>1 DEF RuntimeTyped
  <2> QED BY <1>1, <1>2, <2>1, RuntimeTypes
<1>4. NobodyWrites'
  BY <1>1, <1>2 DEF NobodyWrites
<1>5. FetchesRight'
  BY <1>1 DEF FetchesRight
<1>6. NeverStranded'
  BY <1>1 DEF NeverStranded, Runtime!CurrentUsable
<1>7. AloneWrites'
  <2> SUFFICES ASSUME WriterAlone PROVE (\A v \in Writers : OwnFile(v)') /\ KeepsApproval'
    BY DEF AloneWrites, WriterAlone
  <2>1. ASSUME NEW v \in Writers PROVE OwnFile(v)'
    <3>1. CASE v = w
      BY <1>2, <3>1 DEF OwnFile, Runtime!Unreadable
    <3>2. CASE v # w
      <4>1. writers'[v].pc = "idle"
        BY <1>1, <1>2, <3>2 DEF NobodyWrites, WriterAlone
      <4> QED BY <4>1 DEF OwnFile
    <3> QED BY <3>1, <3>2
  <2>2. current = running
    BY <1>1 DEF FetchesRight
  <2> QED BY <2>1, <2>2 DEF KeepsApproval
<1> QED BY <1>3, <1>4, <1>5, <1>6, <1>7 DEF RuntimeInv

\* While the application runs the approved release is named by the control file.
LEMMA UpNames ==
  ASSUME RuntimeInv, boot.pc = "up", WriterAlone, ~rcLoad.startFails, approved # 0
  PROVE  Runtime!Control.once = approved
BY DEF RuntimeInv, AloneWrites, KeepsApproval

LEMMA WriterUp ==
  ASSUME RuntimeInv, NEW w \in Writers, writers[w].pc # "idle"
  PROVE  boot.pc = "up"
BY DEF RuntimeInv, NobodyWrites

\* What a writer that leaves the control file and the approval alone has to show.
LEMMA ApprovalStays ==
  ASSUME RuntimeInv, boot.pc = "up", approved' = approved, uncleared' = uncleared,
         Runtime!Control' = Runtime!Control, WriterAlone
  PROVE  /\ Runtime!Control'.once \in {0, approved', uncleared'}
         /\ ~rcLoad.startFails /\ approved' # 0 => Runtime!Control'.once = approved'
BY UpNames DEF RuntimeInv, AloneWrites, KeepsApproval

LEMMA RuntimeAsk == ASSUME RuntimeInv, NEW w \in rcLoad.writers, w \in Writers, Runtime!Ask(w) PROVE RuntimeInv'
<1>1. PICK p \in Runtime!Asked : writers' = [writers EXCEPT ![w] = [pc |-> "open", ino |-> 0, payload |-> p]]
  BY DEF Runtime!Ask
<1>2. boot.pc = "up" /\ UNCHANGED <<rcLoad, boot, installed, current, running, newest, crashes, control, tmp, content, approved, uncleared>>
  BY DEF Runtime!Ask, Runtime!Up, Runtime!files, Runtime!disk
<1>3. PICK x : x = [pc |-> "open", ino |-> 0, payload |-> p]
  OBVIOUS
<1>4. p \in Runtime!Payloads /\ "open" \in WriterSteps
  BY AskedTyped DEF RuntimeInv, WriterSteps
<1>5. x \in WriterCalls /\ x.pc = "open" /\ writers' = [writers EXCEPT ![w] = x]
  BY <1>1, <1>3, <1>4, WriterMade
<1>6. Runtime!Control' = Runtime!Control
  BY <1>2, ControlStays
<1>7. control' \in Runtime!Inodes \cup {0} /\ tmp' \in Runtime!Inodes \cup {0} /\ (control' # 0 => control' # tmp')
      /\ content' \in [Runtime!Inodes -> Runtime!Payloads \cup {Runtime!Unreadable}] /\ approved' \in Runtime!Releases /\ uncleared' \in Runtime!Releases
  BY <1>2 DEF RuntimeInv, RuntimeTyped
<1> QED BY <1>2, <1>5, <1>6, <1>7, ApprovalStays, WriterMoves

LEMMA RuntimeOpen == ASSUME RuntimeInv, NEW w \in rcLoad.writers, w \in Writers, Runtime!Open(w) PROVE RuntimeInv'
<1>1. PICK i : i = IF tmp = 0 THEN Runtime!FreeInode ELSE tmp
  OBVIOUS
<1>2. /\ writers[w].pc = "open" /\ tmp' = i /\ content' = [content EXCEPT ![i] = Runtime!Unreadable]
      /\ writers' = [writers EXCEPT ![w].pc = "write", ![w].ino = i]
      /\ UNCHANGED <<rcLoad, boot, installed, current, running, newest, crashes, control, approved, uncleared>>
  BY <1>1 DEF Runtime!Open, Runtime!disk, Runtime!bounds
<1>3. boot.pc = "up" /\ RuntimeTyped
  BY <1>2, WriterUp DEF RuntimeInv
<1>4. i \in Runtime!Inodes /\ (control # 0 => control # i)
  BY <1>1, <1>3, FreeIsFree DEF RuntimeTyped
<1>5. PICK x : x = [writers[w] EXCEPT !.pc = "write", !.ino = i]
  OBVIOUS
<1>6. writers' = [writers EXCEPT ![w] = x]
  BY <1>2, <1>3, <1>5 DEF RuntimeTyped
<1>7. x \in WriterCalls /\ x.pc = "write" /\ x.ino = i
  <2>1. PICK k \in WriterCalls : k = writers[w]
    BY <1>3, WriterOf
  <2>2. x = [k EXCEPT !.pc = "write", !.ino = i]
    BY <1>5, <2>1
  <2> QED BY <1>4, <2>2 DEF WriterCalls, WriterSteps
<1>8. /\ content' \in [Runtime!Inodes -> Runtime!Payloads \cup {Runtime!Unreadable}]
      /\ content'[i] = Runtime!Unreadable /\ \A k \in Runtime!Inodes \ {i} : content'[k] = content[k]
  BY <1>2, <1>3, <1>4 DEF RuntimeTyped
<1>9. Runtime!Control' = Runtime!Control
  BY <1>2, <1>3, <1>4, <1>8, ControlStays DEF RuntimeTyped
<1>10. control' \in Runtime!Inodes \cup {0} /\ tmp' \in Runtime!Inodes \cup {0} /\ (control' # 0 => control' # tmp')
       /\ approved' \in Runtime!Releases /\ uncleared' \in Runtime!Releases /\ tmp' # 0
  BY <1>2, <1>3, <1>4, InodeIsNotNone DEF RuntimeTyped
<1> QED BY <1>2, <1>3, <1>6, <1>7, <1>8, <1>9, <1>10, ApprovalStays, WriterMoves

LEMMA RuntimeWrite == ASSUME RuntimeInv, NEW w \in rcLoad.writers, w \in Writers, Runtime!Write(w) PROVE RuntimeInv'
<1>1. PICK i : i = writers[w].ino
  OBVIOUS
<1>2. PICK y \in {writers[w].payload} \cup (IF Runtime!Readable(content[i]) THEN {Runtime!Unreadable} ELSE {}) :
        content' = [content EXCEPT ![i] = y]
  BY <1>1 DEF Runtime!Write
<1>3. /\ writers[w].pc = "write"
      /\ writers' = [writers EXCEPT ![w] = [writers[w] EXCEPT !.pc = "replace"]]
      /\ UNCHANGED <<rcLoad, boot, installed, current, running, newest, crashes, control, tmp, approved, uncleared>>
  BY DEF Runtime!Write, Runtime!disk, Runtime!bounds
<1>4. boot.pc = "up" /\ RuntimeTyped
  BY <1>3, WriterUp DEF RuntimeInv
<1>5. PICK x : x = [writers[w] EXCEPT !.pc = "replace"]
  OBVIOUS
<1>6. /\ x \in WriterCalls /\ x.pc = "replace" /\ x.payload = writers[w].payload
      /\ writers' = [writers EXCEPT ![w] = x]
  <2>1. writers[w] \in WriterCalls /\ "replace" \in WriterSteps
    BY <1>4, WriterOf DEF WriterSteps
  <2> QED BY <1>3, <1>5, <2>1, WriterWith
<1>7. y \in Runtime!Payloads \cup {Runtime!Unreadable}
  BY <1>4, WriterOf
<1>8. /\ content' \in [Runtime!Inodes -> Runtime!Payloads \cup {Runtime!Unreadable}]
      /\ i \in Runtime!Inodes => content'[i] = y
      /\ \A k \in Runtime!Inodes \ {i} : content'[k] = content[k]
  BY <1>2, <1>4, <1>7 DEF RuntimeTyped
<1>9. WriterAlone => /\ tmp # 0 /\ i = tmp /\ content'[tmp] = writers[w].payload
                     /\ Runtime!Control' = Runtime!Control
  <2> SUFFICES ASSUME WriterAlone
               PROVE  tmp # 0 /\ i = tmp /\ content'[tmp] = writers[w].payload /\ Runtime!Control' = Runtime!Control
    OBVIOUS
  <2>1. tmp # 0 /\ i = tmp /\ content[tmp] = Runtime!Unreadable
    BY <1>1, <1>3 DEF RuntimeInv, AloneWrites, OwnFile
  <2>2. tmp \in Runtime!Inodes /\ (control # 0 => control \in Runtime!Inodes \ {tmp})
    BY <1>4, <2>1 DEF RuntimeTyped
  <2>3. y = writers[w].payload
    BY <1>2, <2>1, PayloadsAre
  <2>4. Runtime!Control' = Runtime!Control
    BY <1>3, <1>8, <2>1, <2>2, ControlStays
  <2> QED BY <1>8, <2>1, <2>2, <2>3, <2>4
<1>10. control' \in Runtime!Inodes \cup {0} /\ tmp' \in Runtime!Inodes \cup {0} /\ (control' # 0 => control' # tmp')
       /\ approved' \in Runtime!Releases /\ uncleared' \in Runtime!Releases
  BY <1>3, <1>4 DEF RuntimeTyped
<1> QED BY <1>3, <1>4, <1>6, <1>8, <1>9, <1>10, ApprovalStays, WriterMoves

LEMMA RuntimeReplace == ASSUME RuntimeInv, NEW w \in rcLoad.writers, w \in Writers, Runtime!Replace(w) PROVE RuntimeInv'
<1>1. /\ writers[w].pc = "replace" /\ tmp # 0 /\ control' = tmp /\ tmp' = 0 /\ approved' = writers[w].payload.once /\ uncleared' = 0
      /\ writers' = [writers EXCEPT ![w] = [writers[w] EXCEPT !.pc = "restart"]]
      /\ UNCHANGED <<rcLoad, boot, installed, current, running, newest, crashes, content>>
  BY DEF Runtime!Replace, Runtime!disk, Runtime!bounds
<1>2. boot.pc = "up" /\ RuntimeTyped
  BY <1>1, WriterUp DEF RuntimeInv
<1>3. PICK x : x = [writers[w] EXCEPT !.pc = "restart"]
  OBVIOUS
<1>4. x \in WriterCalls /\ x.pc = "restart" /\ writers' = [writers EXCEPT ![w] = x]
  <2>1. writers[w] \in WriterCalls /\ "restart" \in WriterSteps
    BY <1>2, WriterOf DEF WriterSteps
  <2> QED BY <1>1, <1>3, <2>1, WriterWith
<1>5. approved' \in Runtime!Releases /\ uncleared' \in Runtime!Releases
  BY <1>1, <1>2, WriterOf, PayloadsAre, RuntimeConstants DEF Runtime!Releases
<1>6. WriterAlone => Runtime!Control'.once = approved'
  <2> SUFFICES ASSUME WriterAlone PROVE Runtime!Control'.once = approved'
    OBVIOUS
  <2>1. content[tmp] = writers[w].payload
    BY <1>1 DEF RuntimeInv, AloneWrites, OwnFile
  <2>2. Runtime!Readable(writers[w].payload)
    BY <1>2, WriterOf, PayloadsAre
  <2>3. control' # 0 /\ content'[control'] = writers[w].payload
    BY <1>1, <2>1
  <2>4. Runtime!Control' = writers[w].payload
    BY <2>2, <2>3 DEF Runtime!Control, Runtime!Readable
  <2> QED BY <1>1, <2>4
<1>7. control' \in Runtime!Inodes \cup {0} /\ tmp' \in Runtime!Inodes \cup {0} /\ (control' # 0 => control' # tmp')
      /\ content' \in [Runtime!Inodes -> Runtime!Payloads \cup {Runtime!Unreadable}]
  BY <1>1, <1>2 DEF RuntimeTyped
<1> QED BY <1>1, <1>2, <1>4, <1>5, <1>6, <1>7, WriterMoves

LEMMA RuntimeReplaceFails ==
  ASSUME RuntimeInv, NEW w \in rcLoad.writers, w \in Writers, Runtime!ReplaceFails(w)
  PROVE  RuntimeInv'
<1>1. /\ writers[w].pc = "replace" /\ writers' = [writers EXCEPT ![w] = Runtime!IdleWriter]
      /\ UNCHANGED <<rcLoad, boot, installed, current, running, newest, crashes, control, tmp, content, approved, uncleared>>
  BY DEF Runtime!ReplaceFails, Runtime!files, Runtime!disk, Runtime!bounds
<1>2. boot.pc = "up"
  BY <1>1, WriterUp
<1>3. Runtime!Control' = Runtime!Control
  BY <1>1, ControlStays
<1>4. control' \in Runtime!Inodes \cup {0} /\ tmp' \in Runtime!Inodes \cup {0} /\ (control' # 0 => control' # tmp')
      /\ content' \in [Runtime!Inodes -> Runtime!Payloads \cup {Runtime!Unreadable}] /\ approved' \in Runtime!Releases /\ uncleared' \in Runtime!Releases
  BY <1>1 DEF RuntimeInv, RuntimeTyped
<1> QED BY <1>1, <1>2, <1>3, <1>4, IdleWriterIs, ApprovalStays, WriterMoves

\* The container starts again; what the writers did before does not go on.
LEMMA RuntimeReboots ==
  ASSUME RuntimeInv, boot' = Runtime!Booting, writers' \in [Writers -> WriterCalls],
         \A w \in Writers : writers'[w].pc = "idle", crashes' \in Nat,
         UNCHANGED <<rcLoad, control, tmp, content, installed, current, running, newest, approved, uncleared>>,
         rcLoad.crashes = 0 => boot.pc \in {"up", "failed"},
         boot.pc = "start" => rcLoad.startFails
  PROVE  RuntimeInv'
<1>1. RuntimeTyped /\ NobodyWrites /\ FetchesRight /\ AloneWrites /\ NeverStranded
  BY DEF RuntimeInv
<1>2. boot' \in Boots /\ boot'.pc = "read"
  BY BootingIs
<1>3. RuntimeTyped'
  BY <1>1, <1>2, RuntimeTypes DEF RuntimeTyped
<1>4. Runtime!Control' = Runtime!Control
  BY ControlStays
<1>5. NobodyWrites' /\ FetchesRight'
  BY <1>2 DEF NobodyWrites, FetchesRight
<1>6. AloneWrites'
  BY <1>1, <1>2, <1>4 DEF AloneWrites, WriterAlone, OwnFile, KeepsApproval
<1>7. NeverStranded'
  BY <1>1, <1>2 DEF NeverStranded, Runtime!CurrentUsable
<1> QED BY <1>3, <1>5, <1>6, <1>7 DEF RuntimeInv

\* A step of the bootstrap that leaves the control file alone.
LEMMA BootMoves ==
  ASSUME RuntimeInv, boot.pc # "up", boot'.pc # "up", boot' \in Boots,
         UNCHANGED <<rcLoad, control, tmp, content, writers, running, approved, uncleared>>,
         installed' \subseteq Runtime!Versions, current' \in Runtime!Releases, newest' \in Runtime!Versions,
         crashes' \in Nat,
         boot'.pc \in {"resolve", "fetch", "remove", "move", "unlink", "link", "clear"} =>
           /\ boot'.sel = Runtime!Control.sel /\ boot'.once = Runtime!Control.once
           /\ boot'.check = Runtime!Control.check,
         FetchesRight', NeverStranded',
         WriterAlone /\ ~rcLoad.startFails /\ approved # 0 =>
           /\ Runtime!Control.once = approved \/ (boot'.pc = "start" /\ current' = approved)
           /\ current' \in {0, approved, running}
  PROVE  RuntimeInv'
<1>1. RuntimeTyped /\ NobodyWrites /\ AloneWrites
  BY DEF RuntimeInv
<1>2. Runtime!Control' = Runtime!Control
  BY ControlStays
<1>3. RuntimeTyped'
  BY <1>1, RuntimeTypes DEF RuntimeTyped
<1>4. NobodyWrites'
  BY <1>1, <1>2 DEF NobodyWrites
<1>5. AloneWrites'
  <2>1. \A w \in Writers : writers[w].pc = "idle"
    BY <1>1 DEF NobodyWrites
  <2> QED BY <1>1, <1>2, <2>1 DEF AloneWrites, WriterAlone, OwnFile, KeepsApproval
<1> QED BY <1>3, <1>4, <1>5 DEF RuntimeInv

LEMMA RuntimeTerminate ==
  ASSUME RuntimeInv, Runtime!Stop \/ \E w \in Writers : Runtime!Terminate(w)
  PROVE  RuntimeInv'
<1>1. /\ boot.pc = "up" /\ writers' = [v \in Writers |-> Runtime!IdleWriter] /\ boot' = Runtime!Booting
      /\ UNCHANGED <<rcLoad, control, tmp, content, installed, current, running, newest, approved, uncleared>>
      /\ crashes' = crashes \/ crashes' = crashes + 1
  BY DEF Runtime!Terminate, Runtime!Stop, Runtime!Up, Runtime!files, Runtime!disk, Runtime!bounds
<1>2. writers' \in [Writers -> WriterCalls] /\ \A v \in Writers : writers'[v].pc = "idle"
  BY <1>1, IdleWriterIs
<1>3. crashes' \in Nat
  BY <1>1 DEF RuntimeInv, RuntimeTyped
<1> QED BY <1>1, <1>2, <1>3, RuntimeReboots

LEMMA RuntimeCrash == ASSUME RuntimeInv, Runtime!Crash \/ Runtime!RetryBoot PROVE RuntimeInv'
<1>1. /\ boot.pc \notin {"read", "up"} /\ boot' = Runtime!Booting
      /\ UNCHANGED <<rcLoad, control, tmp, content, installed, current, running, newest, approved, uncleared, writers>>
      /\ boot.pc = "start" => rcLoad.startFails
      /\ boot.pc # "failed" => crashes < rcLoad.crashes
      /\ crashes' = crashes \/ crashes' = crashes + 1
  BY DEF Runtime!Crash, Runtime!RetryBoot, Runtime!files, Runtime!disk, Runtime!bounds
<1>2. writers' \in [Writers -> WriterCalls] /\ \A v \in Writers : writers'[v].pc = "idle"
  BY <1>1 DEF RuntimeInv, RuntimeTyped, NobodyWrites
<1>3. crashes \in Nat /\ crashes' \in Nat
  BY <1>1 DEF RuntimeInv, RuntimeTyped
<1>4. rcLoad.crashes = 0 => boot.pc \in {"up", "failed"}
  BY <1>1, <1>3
<1> QED BY <1>1, <1>2, <1>3, <1>4, RuntimeReboots

LEMMA RuntimePublish == ASSUME RuntimeInv, Runtime!Publish PROVE RuntimeInv'
<1>1. /\ newest < MaxVersion /\ newest' = newest + 1
      /\ UNCHANGED <<rcLoad, control, tmp, content, writers, boot, installed, current, running, approved, uncleared, crashes>>
  BY DEF Runtime!Publish, Runtime!files, Runtime!disk, Runtime!bounds
<1>2. newest' \in Runtime!Versions
  BY <1>1, RuntimeConstants DEF RuntimeInv, RuntimeTyped, Runtime!Versions
<1>3. RuntimeTyped'
  BY <1>1, <1>2, RuntimeTypes DEF RuntimeInv, RuntimeTyped
<1>4. Runtime!Control' = Runtime!Control
  BY <1>1, ControlStays
<1>5. NobodyWrites' /\ FetchesRight' /\ AloneWrites' /\ NeverStranded'
  BY <1>1, <1>4 DEF RuntimeInv, NobodyWrites, FetchesRight, AloneWrites, WriterAlone, OwnFile, KeepsApproval,
                   NeverStranded, Runtime!CurrentUsable, Runtime!Unreadable, Runtime!Releases
<1> QED BY <1>3, <1>5 DEF RuntimeInv

\* What holds of the approved release until it is started.
LEMMA ApprovedIsNamed ==
  ASSUME RuntimeInv, boot.pc # "start", WriterAlone, ~rcLoad.startFails, approved # 0
  PROVE  Runtime!Control.once = approved /\ current \in {0, approved, running}
BY DEF RuntimeInv, AloneWrites, KeepsApproval

\* The bootstrap between its steps.
LEMMA BootIs ==
  ASSUME RuntimeInv
  PROVE  /\ boot \in Boots /\ boot.ref \in Runtime!Releases /\ boot.once \in Runtime!Releases
         /\ boot.sel \in Runtime!Releases /\ installed \subseteq Runtime!Versions
         /\ current \in Runtime!Releases /\ newest \in Runtime!Versions /\ crashes \in Nat
         /\ newest \in Runtime!Releases /\ newest # 0
         /\ \A v \in Runtime!Releases : v # 0 => v \in Runtime!Versions
<1>1. boot \in Boots /\ installed \subseteq Runtime!Versions /\ current \in Runtime!Releases
      /\ newest \in Runtime!Versions /\ crashes \in Nat
  BY DEF RuntimeInv, RuntimeTyped
<1>2. boot.ref \in Runtime!Releases /\ boot.once \in Runtime!Releases /\ boot.sel \in Runtime!Releases
  BY <1>1 DEF Boots
<1>3. newest \in Runtime!Releases /\ newest # 0 /\ \A v \in Runtime!Releases : v # 0 => v \in Runtime!Versions
  BY <1>1, RuntimeConstants DEF Runtime!Releases, Runtime!Versions
<1> QED BY <1>1, <1>2, <1>3

LEMMA RuntimeReadControl == ASSUME RuntimeInv, Runtime!ReadControl PROVE RuntimeInv'
<1>1. PICK c : c = Runtime!Control
  OBVIOUS
<1>2. /\ boot.pc = "read" /\ boot' = [pc |-> "resolve", sel |-> c.sel, once |-> c.once, check |-> c.check, ref |-> 0]
      /\ UNCHANGED <<rcLoad, control, tmp, content, writers, running, approved, uncleared, installed, current, newest, crashes>>
  BY <1>1 DEF Runtime!ReadControl, Runtime!files, Runtime!disk, Runtime!bounds
<1>3. c.sel \in Runtime!Releases /\ c.once \in Runtime!Releases /\ c.check \in BOOLEAN /\ 0 \in Runtime!Releases
  BY <1>1, ControlTyped, PayloadsAre, RuntimeConstants DEF RuntimeInv, Runtime!Releases
<1>4. boot' \in Boots /\ boot'.pc = "resolve"
  BY <1>2, <1>3 DEF Boots, BootSteps
<1>5. boot'.sel = Runtime!Control.sel /\ boot'.once = Runtime!Control.once /\ boot'.check = Runtime!Control.check
  BY <1>1, <1>2
<1>6. FetchesRight'
  BY <1>4 DEF FetchesRight
<1>7. NeverStranded'
  BY <1>2, <1>4 DEF RuntimeInv, NeverStranded, Runtime!CurrentUsable
<1>8. installed' \subseteq Runtime!Versions /\ current' \in Runtime!Releases /\ newest' \in Runtime!Versions /\ crashes' \in Nat
  BY <1>2, BootIs
<1>9. WriterAlone /\ ~rcLoad.startFails /\ approved # 0 =>
        Runtime!Control.once = approved /\ current' \in {0, approved, running}
  BY <1>2, ApprovedIsNamed
<1> QED BY <1>2, <1>4, <1>5, <1>6, <1>7, <1>8, <1>9, BootMoves

\* The release to fetch is settled.
LEMMA BootSettles ==
  ASSUME RuntimeInv, boot.pc = "resolve", NEW v \in Runtime!Releases, v # 0, boot.once # 0 => v = boot.once,
         boot' = [boot EXCEPT !.pc = "fetch", !.ref = v],
         UNCHANGED <<rcLoad, control, tmp, content, writers, running, approved, uncleared, installed, current, newest, crashes>>
  PROVE  RuntimeInv'
<1>1. boot' \in Boots /\ boot'.pc = "fetch" /\ boot'.sel = boot.sel /\ boot'.once = boot.once
      /\ boot'.check = boot.check /\ boot'.ref = v
  <2>1. PICK b \in Boots : b = boot
    BY BootIs
  <2>2. PICK m : m = [b EXCEPT !.pc = "fetch", !.ref = v]
    OBVIOUS
  <2>3. boot' = m
    BY <2>1, <2>2
  <2>4. m \in Boots /\ m.pc = "fetch" /\ m.sel = b.sel /\ m.once = b.once /\ m.check = b.check /\ m.ref = v
    BY <2>2 DEF Boots, BootSteps
  <2> QED BY <2>1, <2>3, <2>4
<1>2. boot'.sel = Runtime!Control.sel /\ boot'.once = Runtime!Control.once /\ boot'.check = Runtime!Control.check
  BY <1>1 DEF RuntimeInv, NobodyWrites
<1>3. FetchesRight'
  BY <1>1 DEF FetchesRight
<1>4. NeverStranded'
  BY <1>1 DEF RuntimeInv, NeverStranded, Runtime!CurrentUsable
<1>5. installed' \subseteq Runtime!Versions /\ current' \in Runtime!Releases /\ newest' \in Runtime!Versions /\ crashes' \in Nat
  BY BootIs
<1>6. WriterAlone /\ ~rcLoad.startFails /\ approved # 0 =>
        Runtime!Control.once = approved /\ current' \in {0, approved, running}
  BY ApprovedIsNamed
<1> QED BY <1>1, <1>2, <1>3, <1>4, <1>5, <1>6, BootMoves

LEMMA RuntimeResolve == ASSUME RuntimeInv, Runtime!Resolve PROVE RuntimeInv'
<1>1. PICK v : v = CASE boot.once # 0 -> boot.once
                     [] boot.once = 0 /\ boot.sel # 0 -> boot.sel
                     [] OTHER -> current
  OBVIOUS
<1>2. /\ boot.pc = "resolve" /\ ~Runtime!MustLookUp /\ boot' = [boot EXCEPT !.pc = "fetch", !.ref = v]
      /\ UNCHANGED <<rcLoad, control, tmp, content, writers, running, approved, uncleared, installed, current, newest, crashes>>
  BY <1>1 DEF Runtime!Resolve, Runtime!Fetches, Runtime!files, Runtime!disk, Runtime!bounds
<1>3. v \in Runtime!Releases /\ v # 0 /\ (boot.once # 0 => v = boot.once)
  <2>1. CASE boot.once # 0
    BY <1>1, <2>1, BootIs
  <2>2. CASE boot.once = 0 /\ boot.sel # 0
    BY <1>1, <2>2, BootIs
  <2>3. CASE boot.once = 0 /\ boot.sel = 0
    BY <1>1, <1>2, <2>3, BootIs DEF Runtime!MustLookUp, Runtime!CurrentUsable
  <2> QED BY <2>1, <2>2, <2>3
<1> QED BY <1>2, <1>3, BootSettles

LEMMA RuntimeLookUp == ASSUME RuntimeInv, Runtime!LookUp PROVE RuntimeInv'
<1>1. /\ boot.pc = "resolve" /\ boot.once = 0 /\ boot' = [boot EXCEPT !.pc = "fetch", !.ref = newest]
      /\ UNCHANGED <<rcLoad, control, tmp, content, writers, running, approved, uncleared, installed, current, newest, crashes>>
  BY DEF Runtime!LookUp, Runtime!MustLookUp, Runtime!Fetches, Runtime!files, Runtime!disk, Runtime!bounds
<1>2. newest \in Runtime!Releases /\ newest # 0
  BY BootIs
<1> QED BY <1>1, <1>2, BootSettles

\* The cached release is started, when there is one, or the bootstrap gives up.
LEMMA BootFallsBack ==
  ASSUME RuntimeInv, boot.pc \in {"resolve", "fetch"}, Runtime!FallsBack,
         current # 0 /\ current \in installed => Runtime!Control.once # current,
         UNCHANGED <<rcLoad, control, tmp, content, writers, running, approved, uncleared, installed, current, newest, crashes>>
  PROVE  RuntimeInv'
<1>1. PICK p : p = IF Runtime!CurrentUsable THEN "start" ELSE "failed"
  OBVIOUS
<1>2. boot' = [boot EXCEPT !.pc = p] /\ p \in BootSteps
  BY <1>1 DEF Runtime!FallsBack, BootSteps
<1>3. boot' \in Boots /\ boot'.pc = p
  BY <1>2, BootIs, BootWith
<1>4. FetchesRight'
  <2>1. boot'.pc = "start" => Runtime!CurrentUsable
    BY <1>1, <1>3
  <2>2. Runtime!Control' = Runtime!Control
    BY ControlStays
  <2>3. Runtime!Control.once \in Runtime!Releases
    BY ControlTyped, PayloadsAre DEF RuntimeInv
  <2>4. boot'.pc \in {"start", "failed"}
    BY <1>1, <1>3
  <2>5. boot'.pc = "start" => current' # 0 /\ Runtime!Control'.once \in {0} \cup (Runtime!Releases \ {current'})
    BY <2>1, <2>2, <2>3 DEF Runtime!CurrentUsable
  <2> QED BY <2>4, <2>5 DEF FetchesRight, Runtime!Releases
<1>5. NeverStranded'
  BY <1>1, <1>3 DEF RuntimeInv, NeverStranded, Runtime!CurrentUsable
<1>6. installed' \subseteq Runtime!Versions /\ current' \in Runtime!Releases /\ newest' \in Runtime!Versions /\ crashes' \in Nat
  BY BootIs
<1>7. WriterAlone /\ ~rcLoad.startFails /\ approved # 0 =>
        Runtime!Control.once = approved /\ current' \in {0, approved, running}
  BY ApprovedIsNamed
<1>8. boot'.pc \in {"start", "failed"} /\ boot.pc # "up"
  BY <1>1, <1>3
<1> QED BY <1>3, <1>4, <1>5, <1>6, <1>7, <1>8, BootMoves

LEMMA RuntimeLookUpFails == ASSUME RuntimeInv, Runtime!LookUpFails PROVE RuntimeInv'
<1>1. /\ boot.pc = "resolve" /\ boot.once = 0 /\ Runtime!FallsBack
      /\ UNCHANGED <<rcLoad, control, tmp, content, writers, running, approved, uncleared, installed, current, newest, crashes>>
  BY DEF Runtime!LookUpFails, Runtime!MustLookUp, Runtime!files, Runtime!disk
<1>2. Runtime!Control.once = 0
  BY <1>1 DEF RuntimeInv, NobodyWrites
<1> QED BY <1>1, <1>2, BootFallsBack

\* A step on the way from the fetched release to the symlink.
LEMMA BootAdvances ==
  ASSUME RuntimeInv, boot.pc \in {"fetch", "remove", "move", "unlink", "link"},
         NEW p \in {"remove", "move", "unlink", "link", "clear"}, boot' = [boot EXCEPT !.pc = p],
         UNCHANGED <<rcLoad, control, tmp, content, writers, running, approved, uncleared, newest, crashes>>,
         installed' \subseteq Runtime!Versions, current' \in {current, 0, boot.ref},
         p = "clear" => current' = boot.ref,
         rcLoad.crashes = 0 /\ p \in {"unlink", "link", "clear"} => boot.ref \in installed',
         p = "remove" => boot.pc = "fetch" /\ current' = current /\ installed' = installed
  PROVE  RuntimeInv'
<1>1. boot' \in Boots /\ boot'.pc = p /\ boot'.sel = boot.sel /\ boot'.once = boot.once
      /\ boot'.check = boot.check /\ boot'.ref = boot.ref
  BY BootIs, BootWith DEF BootSteps
<1>2. boot'.sel = Runtime!Control.sel /\ boot'.once = Runtime!Control.once /\ boot'.check = Runtime!Control.check
  BY <1>1 DEF RuntimeInv, NobodyWrites
<1>3. FetchesRight'
  BY <1>1 DEF RuntimeInv, FetchesRight
<1>4. NeverStranded'
  BY <1>1 DEF RuntimeInv, NeverStranded, Runtime!CurrentUsable
<1>5. current' \in Runtime!Releases /\ newest' \in Runtime!Versions /\ crashes' \in Nat
  <2>1. 0 \in Runtime!Releases
    BY RuntimeConstants DEF Runtime!Releases
  <2> QED BY <2>1, BootIs
<1>6. WriterAlone /\ ~rcLoad.startFails /\ approved # 0 =>
        Runtime!Control.once = approved /\ current' \in {0, approved, running}
  <2> SUFFICES ASSUME WriterAlone, ~rcLoad.startFails, approved # 0
               PROVE  Runtime!Control.once = approved /\ current' \in {0, approved, running}
    OBVIOUS
  <2>1. Runtime!Control.once = approved /\ current \in {0, approved, running}
    BY ApprovedIsNamed
  <2>2. boot.ref = approved
    BY <1>1, <1>2, <2>1 DEF RuntimeInv, FetchesRight
  <2> QED BY <2>1, <2>2
<1> QED BY <1>1, <1>2, <1>3, <1>4, <1>5, <1>6, BootMoves

LEMMA RuntimeUseCached == ASSUME RuntimeInv, Runtime!UseCached PROVE RuntimeInv'
<1>1. /\ boot.pc = "fetch" /\ boot.ref \in installed /\ boot' = [boot EXCEPT !.pc = "unlink"]
      /\ UNCHANGED <<rcLoad, control, tmp, content, writers, running, approved, uncleared, installed, current, newest, crashes>>
  BY DEF Runtime!UseCached, Runtime!Cached, Runtime!files, Runtime!disk, Runtime!bounds
<1>2. installed' \subseteq Runtime!Versions
  BY <1>1, BootIs
<1> QED BY <1>1, <1>2, BootAdvances

LEMMA RuntimeDownload == ASSUME RuntimeInv, Runtime!Download PROVE RuntimeInv'
<1>1. /\ boot.pc = "fetch" /\ boot' = [boot EXCEPT !.pc = "remove"]
      /\ UNCHANGED <<rcLoad, control, tmp, content, writers, running, approved, uncleared, installed, current, newest, crashes>>
  BY DEF Runtime!Download, Runtime!files, Runtime!disk, Runtime!bounds
<1>2. installed' \subseteq Runtime!Versions
  BY <1>1, BootIs
<1> QED BY <1>1, <1>2, BootAdvances

LEMMA RuntimeDownloadFails == ASSUME RuntimeInv, Runtime!DownloadFails PROVE RuntimeInv'
<1>1. /\ boot.pc = "fetch"
      /\ boot.ref \in installed => boot' = [boot EXCEPT !.pc = "unlink"]
      /\ boot.ref \notin installed => Runtime!FallsBack
      /\ UNCHANGED <<rcLoad, control, tmp, content, writers, running, approved, uncleared, installed, current, newest, crashes>>
  BY DEF Runtime!DownloadFails, Runtime!files, Runtime!disk
<1>2. CASE boot.ref \in installed
  <2>1. installed' \subseteq Runtime!Versions
    BY <1>1, BootIs
  <2> QED BY <1>1, <1>2, <2>1, BootAdvances
<1>3. CASE boot.ref \notin installed
  <2>1. boot.once = Runtime!Control.once /\ (boot.once # 0 => boot.ref = boot.once)
    BY <1>1 DEF RuntimeInv, NobodyWrites, FetchesRight
  <2>2. current # 0 /\ current \in installed => Runtime!Control.once # current
    BY <1>3, <2>1
  <2> QED BY <1>1, <1>3, <2>2, BootFallsBack
<1> QED BY <1>2, <1>3

LEMMA RuntimeRemoveTarget == ASSUME RuntimeInv, Runtime!RemoveTarget PROVE RuntimeInv'
<1>1. /\ boot.pc = "remove" /\ boot' = [boot EXCEPT !.pc = "move"] /\ installed' = installed \ {boot.ref}
      /\ UNCHANGED <<rcLoad, control, tmp, content, writers, running, approved, uncleared, current, newest, crashes>>
  BY DEF Runtime!RemoveTarget, Runtime!files, Runtime!bounds
<1>2. installed' \subseteq Runtime!Versions
  BY <1>1, BootIs
<1> QED BY <1>1, <1>2, BootAdvances

LEMMA RuntimeMoveStaging == ASSUME RuntimeInv, Runtime!MoveStaging PROVE RuntimeInv'
<1>1. /\ boot.pc = "move" /\ boot' = [boot EXCEPT !.pc = "unlink"] /\ installed' = installed \cup {boot.ref}
      /\ UNCHANGED <<rcLoad, control, tmp, content, writers, running, approved, uncleared, current, newest, crashes>>
  BY DEF Runtime!MoveStaging, Runtime!files, Runtime!bounds
<1>2. boot.ref # 0
  BY <1>1 DEF RuntimeInv, FetchesRight
<1>3. installed' \subseteq Runtime!Versions /\ boot.ref \in installed'
  BY <1>1, <1>2, BootIs
<1> QED BY <1>1, <1>3, BootAdvances

LEMMA RuntimeUnlink == ASSUME RuntimeInv, Runtime!Unlink PROVE RuntimeInv'
<1>1. /\ boot.pc = "unlink" /\ boot' = [boot EXCEPT !.pc = "link"] /\ current' = 0
      /\ UNCHANGED <<rcLoad, control, tmp, content, writers, running, approved, uncleared, installed, newest, crashes>>
  BY DEF Runtime!Unlink, Runtime!files, Runtime!bounds
<1>2. installed' \subseteq Runtime!Versions /\ (rcLoad.crashes = 0 => boot.ref \in installed')
  BY <1>1, BootIs DEF RuntimeInv, NeverStranded
<1> QED BY <1>1, <1>2, BootAdvances

LEMMA RuntimeLink == ASSUME RuntimeInv, Runtime!Link PROVE RuntimeInv'
<1>1. /\ boot.pc = "link" /\ boot' = [boot EXCEPT !.pc = "clear"] /\ current' = boot.ref
      /\ UNCHANGED <<rcLoad, control, tmp, content, writers, running, approved, uncleared, installed, newest, crashes>>
  BY DEF Runtime!Link, Runtime!files, Runtime!bounds
<1>2. installed' \subseteq Runtime!Versions /\ (rcLoad.crashes = 0 => boot.ref \in installed')
  BY <1>1, BootIs DEF RuntimeInv, NeverStranded
<1> QED BY <1>1, <1>2, BootAdvances

\* What is in the control file once its one-shot fields are dropped.
LEMMA Cleared ==
  ASSUME RuntimeInv, boot.pc = "clear", Runtime!OneShot, control' = control,
         content' = [content EXCEPT ![control].once = 0, ![control].check = FALSE]
  PROVE  /\ content' \in [Runtime!Inodes -> Runtime!Payloads \cup {Runtime!Unreadable}]
         /\ Runtime!Control'.once = 0
<1>1. PICK c : c = Runtime!Control
  OBVIOUS
<1>2. c.once = boot.once /\ c.check = boot.check /\ c \in Runtime!Payloads
  BY <1>1, ControlTyped DEF RuntimeInv, NobodyWrites
<1>3. c # Runtime!Latest
  BY <1>2 DEF Runtime!OneShot, Runtime!Latest
<1>4. control # 0 /\ content[control] = c
  BY <1>1, <1>3 DEF Runtime!Control
<1>5. PICK m : m = [c EXCEPT !.once = 0, !.check = FALSE]
  OBVIOUS
<1>6. m \in Runtime!Payloads /\ m.once = 0
  <2>1. 0 \in Runtime!Releases
    BY RuntimeConstants DEF Runtime!Releases
  <2> QED BY <1>2, <1>5, <2>1 DEF Runtime!Payloads
<1>7. content' = [content EXCEPT ![control] = m]
  BY <1>4, <1>5
<1>8. control \in Runtime!Inodes /\ content \in [Runtime!Inodes -> Runtime!Payloads \cup {Runtime!Unreadable}]
  BY <1>4 DEF RuntimeInv, RuntimeTyped
<1>9. content' \in [Runtime!Inodes -> Runtime!Payloads \cup {Runtime!Unreadable}] /\ content'[control] = m
  BY <1>6, <1>7, <1>8
<1>10. Runtime!Readable(m)
  BY <1>6, PayloadsAre
<1>11. Runtime!Control' = m
  BY <1>4, <1>9, <1>10 DEF Runtime!Control, Runtime!Readable
<1> QED BY <1>6, <1>9, <1>11

LEMMA RuntimeClear == ASSUME RuntimeInv, Runtime!Clear PROVE RuntimeInv'
<1>1. /\ boot.pc = "clear" /\ boot' = [boot EXCEPT !.pc = "start"]
      /\ Runtime!OneShot =>
           content' = [content EXCEPT ![control].once = 0, ![control].check = FALSE] /\ tmp' = 0 /\ uncleared' = 0
      /\ ~Runtime!OneShot => content' = content /\ tmp' = tmp /\ uncleared' = uncleared
      /\ UNCHANGED <<rcLoad, control, writers, running, approved, installed, current, newest, crashes>>
  BY DEF Runtime!Clear, Runtime!disk, Runtime!bounds
<1>2. RuntimeTyped /\ NobodyWrites /\ FetchesRight /\ AloneWrites /\ NeverStranded
  BY DEF RuntimeInv
<1>3. boot' \in Boots /\ boot'.pc = "start"
  BY <1>1, BootIs, BootWith DEF BootSteps
<1>4. content' \in [Runtime!Inodes -> Runtime!Payloads \cup {Runtime!Unreadable}] /\ Runtime!Control'.once = 0
  <2>1. CASE Runtime!OneShot
    BY <1>1, <2>1, Cleared
  <2>2. CASE ~Runtime!OneShot
    <3>1. Runtime!Control' = Runtime!Control
      BY <1>1, <2>2, ControlStays
    <3>2. Runtime!Control.once = 0
      BY <1>1, <1>2, <2>2 DEF NobodyWrites, Runtime!OneShot
    <3>3. content \in [Runtime!Inodes -> Runtime!Payloads \cup {Runtime!Unreadable}]
      BY <1>2 DEF RuntimeTyped
    <3> QED BY <1>1, <2>2, <3>1, <3>2, <3>3
  <2> QED BY <2>1, <2>2
<1>5. RuntimeTyped'
  <2>1. tmp' \in {0, tmp} /\ uncleared' \in {0, uncleared}
    BY <1>1
  <2>2. control' \in Runtime!Inodes \cup {0} /\ tmp' \in Runtime!Inodes \cup {0} /\ (control' # 0 => control' # tmp')
        /\ writers' \in [Writers -> WriterCalls] /\ installed' \subseteq Runtime!Versions
        /\ current' \in Runtime!Releases /\ running' \in Runtime!Releases /\ approved' \in Runtime!Releases
        /\ newest' \in Runtime!Versions /\ crashes' \in Nat /\ uncleared' \in Runtime!Releases
    BY <1>1, <1>2, <2>1, RuntimeConstants DEF RuntimeTyped, Runtime!Releases
  <2> QED BY <1>1, <1>2, <1>3, <1>4, <2>2, RuntimeTypes
<1>6. \A w \in Writers : writers'[w].pc = "idle"
  BY <1>1, <1>2 DEF NobodyWrites
<1>7. NobodyWrites'
  BY <1>3, <1>6 DEF NobodyWrites
<1>8. current = boot.ref /\ boot.ref # 0 /\ (boot.once # 0 => boot.ref = boot.once) /\ boot.once = Runtime!Control.once
  BY <1>1, <1>2 DEF FetchesRight, NobodyWrites
<1>9. FetchesRight'
  BY <1>1, <1>3, <1>4, <1>8 DEF FetchesRight
<1>10. KeepsApproval' \/ ~WriterAlone
  <2> SUFFICES ASSUME WriterAlone PROVE KeepsApproval'
    OBVIOUS
  <2>1. ~rcLoad.startFails /\ approved # 0 => current = approved
    BY <1>1, <1>8, ApprovedIsNamed
  <2> QED BY <1>1, <1>3, <1>4, <2>1 DEF KeepsApproval
<1>11. AloneWrites'
  BY <1>1, <1>6, <1>10 DEF AloneWrites, WriterAlone, OwnFile
<1>12. NeverStranded'
  BY <1>1, <1>2, <1>3, <1>8 DEF NeverStranded, Runtime!CurrentUsable
<1> QED BY <1>5, <1>7, <1>9, <1>11, <1>12 DEF RuntimeInv

\* The files when the clearing failed: the control file is the one that was read.
LEMMA Uncleared ==
  ASSUME RuntimeInv, boot.pc = "clear", Runtime!OneShot, Runtime!ClearFails
  PROVE  /\ control' # 0 => control' # tmp'
         /\ tmp' \in Runtime!Inodes \cup {0}
         /\ content' \in [Runtime!Inodes -> Runtime!Payloads \cup {Runtime!Unreadable}]
         /\ Runtime!Control' = Runtime!Control
<1>1. RuntimeTyped /\ control' = control
  BY DEF RuntimeInv, Runtime!ClearFails
<1>2. control \in Runtime!Inodes \cup {0} /\ tmp \in Runtime!Inodes \cup {0} /\ (control # 0 => control # tmp)
      /\ content \in [Runtime!Inodes -> Runtime!Payloads \cup {Runtime!Unreadable}]
  BY <1>1 DEF RuntimeTyped
<1>3. CASE UNCHANGED <<content, tmp>>
  <2>1. content' = content /\ tmp' = tmp
    BY <1>3
  <2>2. Runtime!Control' = Runtime!Control
    BY <1>1, <2>1, ControlStays
  <2> QED BY <1>1, <1>2, <2>1, <2>2
<1>4. CASE ~UNCHANGED <<content, tmp>>
  <2>1. PICK i : i = IF tmp = 0 THEN Runtime!FreeInode ELSE tmp
    OBVIOUS
  <2>2. i \in Runtime!Inodes /\ (control # 0 => control # i)
    BY <1>1, <1>2, <2>1, FreeIsFree
  <2>3. PICK c : c = Runtime!Control
    OBVIOUS
  <2>4. c \in Runtime!Payloads /\ c # Runtime!Latest
    <3>1. c \in Runtime!Payloads /\ c.once = boot.once /\ c.check = boot.check
      BY <1>1, <2>3, ControlTyped DEF RuntimeInv, NobodyWrites
    <3> QED BY <3>1 DEF Runtime!OneShot, Runtime!Latest
  <2>5. content[control] = c
    BY <2>3, <2>4 DEF Runtime!Control
  <2>6. PICK x \in {Runtime!Unreadable, [content[control] EXCEPT !.once = 0, !.check = FALSE]} :
          tmp' = i /\ content' = [content EXCEPT ![i] = x]
    BY <1>4, <2>1 DEF Runtime!ClearFails
  <2>7. PICK m : m = [c EXCEPT !.once = 0, !.check = FALSE]
    OBVIOUS
  <2>8. m \in Runtime!Payloads
    <3>1. 0 \in Runtime!Releases
      BY RuntimeConstants DEF Runtime!Releases
    <3> QED BY <2>4, <2>7, <3>1 DEF Runtime!Payloads
  <2>9. x \in Runtime!Payloads \cup {Runtime!Unreadable}
    BY <2>5, <2>6, <2>7, <2>8
  <2>10. content' \in [Runtime!Inodes -> Runtime!Payloads \cup {Runtime!Unreadable}]
         /\ \A k \in Runtime!Inodes \ {i} : content'[k] = content[k]
    BY <1>2, <2>2, <2>6, <2>9
  <2>11. control # 0 => content'[control] = content[control]
    BY <1>2, <2>2, <2>10
  <2>12. Runtime!Control' = Runtime!Control
    BY <1>1, <2>11, ControlStays
  <2> QED BY <1>1, <2>2, <2>6, <2>10, <2>12
<1> QED BY <1>3, <1>4

LEMMA RuntimeClearFails == ASSUME RuntimeInv, Runtime!ClearFails PROVE RuntimeInv'
<1>1. /\ boot.pc = "clear" /\ Runtime!OneShot /\ boot' = [boot EXCEPT !.pc = "start"] /\ uncleared' = boot.once
      /\ UNCHANGED <<rcLoad, control, writers, running, approved, installed, current, newest, crashes>>
  BY DEF Runtime!ClearFails, Runtime!disk
<1>2. RuntimeTyped /\ NobodyWrites /\ FetchesRight /\ AloneWrites /\ NeverStranded
  BY DEF RuntimeInv
<1>3. boot' \in Boots /\ boot'.pc = "start"
  BY <1>1, BootIs, BootWith DEF BootSteps
<1>4. /\ control' # 0 => control' # tmp'
      /\ tmp' \in Runtime!Inodes \cup {0}
      /\ content' \in [Runtime!Inodes -> Runtime!Payloads \cup {Runtime!Unreadable}]
      /\ Runtime!Control' = Runtime!Control
  BY <1>1, Uncleared
<1>5. RuntimeTyped'
  <2>1. control' \in Runtime!Inodes \cup {0} /\ writers' \in [Writers -> WriterCalls]
        /\ installed' \subseteq Runtime!Versions /\ current' \in Runtime!Releases /\ running' \in Runtime!Releases
        /\ approved' \in Runtime!Releases /\ newest' \in Runtime!Versions /\ crashes' \in Nat
    BY <1>1, <1>2 DEF RuntimeTyped
  <2>2. uncleared' \in Runtime!Releases
    BY <1>1, BootIs
  <2> QED BY <1>1, <1>2, <1>3, <1>4, <2>1, <2>2, RuntimeTypes
<1>6. \A w \in Writers : writers'[w].pc = "idle"
  BY <1>1, <1>2 DEF NobodyWrites
<1>7. NobodyWrites'
  BY <1>3, <1>6 DEF NobodyWrites
<1>8. /\ current = boot.ref /\ boot.ref # 0 /\ (boot.once # 0 => boot.ref = boot.once)
      /\ Runtime!Control'.once = uncleared'
  BY <1>1, <1>2, <1>4 DEF FetchesRight, NobodyWrites
<1>9. FetchesRight'
  BY <1>1, <1>3, <1>8 DEF FetchesRight
<1>10. KeepsApproval' \/ ~WriterAlone
  <2> SUFFICES ASSUME WriterAlone PROVE KeepsApproval'
    OBVIOUS
  <2>1. ~rcLoad.startFails /\ approved # 0 => Runtime!Control.once = approved /\ current \in {0, approved, running}
    BY <1>1, ApprovedIsNamed
  <2> QED BY <1>1, <1>4, <1>8, <2>1 DEF KeepsApproval
<1>11. AloneWrites'
  BY <1>1, <1>6, <1>10 DEF AloneWrites, WriterAlone, OwnFile
<1>12. NeverStranded'
  BY <1>1, <1>2, <1>3, <1>8 DEF NeverStranded, Runtime!CurrentUsable
<1> QED BY <1>5, <1>7, <1>9, <1>11, <1>12 DEF RuntimeInv

LEMMA RuntimeStart == ASSUME RuntimeInv, Runtime!Start PROVE RuntimeInv'
<1>1. /\ boot.pc = "start" /\ boot' = [Runtime!Booting EXCEPT !.pc = "up"] /\ running' = current
      /\ approved' = IF approved = current THEN 0 ELSE approved
      /\ UNCHANGED <<uncleared, rcLoad, control, tmp, content, writers, installed, current, newest, crashes>>
  BY DEF Runtime!Start, Runtime!files, Runtime!disk, Runtime!bounds
<1>2. RuntimeTyped /\ NobodyWrites /\ FetchesRight /\ AloneWrites /\ NeverStranded
  BY DEF RuntimeInv
<1>3. boot' \in Boots /\ boot'.pc = "up"
  BY <1>1, BootingIs
<1>4. Runtime!Control' = Runtime!Control
  BY <1>1, ControlStays
<1>5. current # 0 /\ (Runtime!Control.once = current /\ current # 0 => uncleared = current)
  BY <1>1, <1>2 DEF FetchesRight
<1>6. RuntimeTyped'
  <2>1. running' \in Runtime!Releases /\ approved' \in Runtime!Releases
    BY <1>1, <1>2, RuntimeConstants DEF RuntimeTyped, Runtime!Releases
  <2>2. control' \in Runtime!Inodes \cup {0} /\ tmp' \in Runtime!Inodes \cup {0} /\ (control' # 0 => control' # tmp')
        /\ content' \in [Runtime!Inodes -> Runtime!Payloads \cup {Runtime!Unreadable}]
        /\ writers' \in [Writers -> WriterCalls] /\ installed' \subseteq Runtime!Versions
        /\ current' \in Runtime!Releases /\ newest' \in Runtime!Versions /\ crashes' \in Nat
        /\ uncleared' \in Runtime!Releases
    BY <1>1, <1>2 DEF RuntimeTyped
  <2> QED BY <1>1, <1>2, <1>3, <2>1, <2>2, RuntimeTypes
<1>7. \A w \in Writers : writers'[w].pc = "idle"
  BY <1>1, <1>2 DEF NobodyWrites
<1>8. NobodyWrites' /\ FetchesRight'
  BY <1>1, <1>3, <1>7 DEF NobodyWrites, FetchesRight
<1>9. AloneWrites'
  <2> SUFFICES ASSUME WriterAlone PROVE KeepsApproval'
    BY <1>1, <1>7 DEF AloneWrites, WriterAlone, OwnFile
  <2>1. KeepsApproval
    BY <1>2 DEF AloneWrites
  <2> QED BY <1>1, <1>4, <1>5, <2>1 DEF KeepsApproval
<1>10. NeverStranded'
  BY <1>1, <1>2, <1>3 DEF NeverStranded, Runtime!CurrentUsable
<1> QED BY <1>6, <1>8, <1>9, <1>10 DEF RuntimeInv

LEMMA RuntimeKeeps == RuntimeInv /\ Runtime!Next => RuntimeInv'
<1> SUFFICES ASSUME RuntimeInv, Runtime!Next PROVE RuntimeInv'
  OBVIOUS
<1>1. CASE \E w \in rcLoad.writers : Runtime!Ask(w) \/ Runtime!Open(w) \/ Runtime!Write(w) \/ Runtime!Replace(w)
             \/ Runtime!ReplaceFails(w) \/ Runtime!Terminate(w)
  <2>1. PICK w \in rcLoad.writers : Runtime!Ask(w) \/ Runtime!Open(w) \/ Runtime!Write(w) \/ Runtime!Replace(w)
             \/ Runtime!ReplaceFails(w) \/ Runtime!Terminate(w)
    BY <1>1
  <2>2. w \in Writers
    BY RuntimeConstants DEF RuntimeInv, RuntimeTyped
  <2> QED BY <2>1, <2>2, RuntimeAsk, RuntimeOpen, RuntimeWrite, RuntimeReplace, RuntimeReplaceFails, RuntimeTerminate
<1> QED BY <1>1, RuntimeTerminate, RuntimeReadControl, RuntimeResolve, RuntimeLookUp, RuntimeLookUpFails, RuntimeUseCached,
           RuntimeDownload, RuntimeDownloadFails, RuntimeRemoveTarget, RuntimeMoveStaging, RuntimeUnlink, RuntimeLink,
           RuntimeClear, RuntimeClearFails, RuntimeStart, RuntimeCrash, RuntimePublish DEF Runtime!Next

LEMMA RuntimeStartsWell == Runtime!Init => RuntimeInv
<1> SUFFICES ASSUME Runtime!Init PROVE RuntimeInv
  OBVIOUS
<1>1. /\ rcLoad \in ControlLoads /\ control = 0 /\ tmp = 0
      /\ content = [i \in Runtime!Inodes |-> Runtime!Unreadable]
      /\ writers = [w \in Writers |-> Runtime!IdleWriter] /\ boot = Runtime!Booting
      /\ installed = {} /\ current = 0 /\ running = 0 /\ newest = 1 /\ approved = 0 /\ uncleared = 0 /\ crashes = 0
  BY DEF Runtime!Init
<1>2. boot \in Boots /\ boot.pc = "read"
  BY <1>1, BootingIs
<1>3. writers \in [Writers -> WriterCalls] /\ \A w \in Writers : writers[w].pc = "idle"
  BY <1>1, IdleWriterIs
<1>4. RuntimeTyped
  <2>1. 0 \in Runtime!Releases /\ 1 \in Runtime!Versions
    BY RuntimeConstants DEF Runtime!Releases, Runtime!Versions
  <2>2. content \in [Runtime!Inodes -> Runtime!Payloads \cup {Runtime!Unreadable}]
    BY <1>1
  <2> QED BY <1>1, <1>2, <1>3, <2>1, <2>2 DEF RuntimeTyped
<1>5. Runtime!Control.once = 0
  BY <1>1, PayloadsAre DEF Runtime!Control
<1> QED BY <1>1, <1>2, <1>3, <1>4, <1>5 DEF RuntimeInv, NobodyWrites, FetchesRight, AloneWrites, OwnFile, KeepsApproval,
                                          NeverStranded

LEMMA RuntimeRests == RuntimeInv /\ UNCHANGED runtimeVars => RuntimeInv'
<1> SUFFICES ASSUME RuntimeInv, UNCHANGED runtimeVars PROVE RuntimeInv'
  OBVIOUS
<1>1. UNCHANGED <<rcLoad, control, tmp, content, writers, boot, installed, current, running, newest, approved, uncleared, crashes>>
  BY DEF runtimeVars
<1>2. RuntimeTyped'
  BY <1>1, RuntimeTypes DEF RuntimeInv, RuntimeTyped
<1>3. Runtime!Control' = Runtime!Control
  BY <1>1, ControlStays
<1>4. NobodyWrites' /\ FetchesRight' /\ AloneWrites' /\ NeverStranded'
  BY <1>1, <1>3 DEF RuntimeInv, NobodyWrites, FetchesRight, AloneWrites, WriterAlone, OwnFile, KeepsApproval,
                   NeverStranded, Runtime!CurrentUsable, Runtime!Unreadable, Runtime!Releases
<1> QED BY <1>2, <1>4 DEF RuntimeInv

LEMMA RuntimeTurns == RuntimeInv /\ [AllNext]_allVars => RuntimeInv'
<1> SUFFICES ASSUME RuntimeInv, [AllNext]_allVars PROVE RuntimeInv'
  OBVIOUS
<1>1. Runtime!Next \/ UNCHANGED runtimeVars
  BY DEF AllNext, allVars
<1> QED BY <1>1, RuntimeKeeps, RuntimeRests

LEMMA AloneIs == ASSUME RuntimeInv, Runtime!Alone PROVE WriterAlone
<1>1. rcLoad.writers \subseteq Writers /\ IsFiniteSet(Writers)
  BY RuntimeConstants DEF RuntimeInv, RuntimeTyped
<1>2. IsFiniteSet(rcLoad.writers) /\ Cardinality(rcLoad.writers) = 1
  BY <1>1, FS_Subset, RuntimeCardinality DEF Runtime!Alone
<1>3. \E w : rcLoad.writers = {w}
  BY <1>2, FS_Singleton
<1> QED BY <1>3 DEF WriterAlone

LEMMA RuntimeShows == RuntimeInv => Runtime!TypeOK /\ Runtime!OneShotServedOnce /\ Runtime!KeepsWorkingRelease
<1> SUFFICES ASSUME RuntimeInv PROVE Runtime!TypeOK /\ Runtime!OneShotServedOnce /\ Runtime!KeepsWorkingRelease
  OBVIOUS
<1>1. Runtime!TypeOK
  BY BootIs, WriterOf DEF RuntimeInv, RuntimeTyped, Runtime!TypeOK
<1>2. Runtime!OneShotServedOnce
  BY AloneIs DEF RuntimeInv, AloneWrites, KeepsApproval, Runtime!OneShotServedOnce
<1>3. Runtime!KeepsWorkingRelease
  BY DEF RuntimeInv, NeverStranded, Runtime!KeepsWorkingRelease
<1> QED BY <1>1, <1>2, <1>3

\* A one-shot release is started once, unless the bootstrap failed to clear its name; and unless the
\* container is killed, a release that worked is started again when no other can be had, whatever
\* lookups, downloads and forced refreshes fail.
\* The lookup of releases tells nobody that there is none when there was one.
THEOREM RuntimeHolds == AllSpec => []RuntimeSafety
<1>1. AllInit => RuntimeInv
  BY RuntimeStartsWell DEF AllInit
<1>2. RuntimeInv /\ Lookup!NoFalseNegative /\ Lookup!AttemptsSpaced => RuntimeSafety
  BY RuntimeShows DEF RuntimeSafety
<1> QED BY <1>1, <1>2, LookupsHold, RuntimeTurns, PTL DEF AllSpec

\* A writer alone that finds its file under the temporary name renames that file.
LEMMA AcceptedStep ==
  ASSUME RuntimeInv, Runtime!Next, WriterAlone, NEW w \in Writers, writers[w].pc = "replace",
         writers'[w].pc = "restart"
  PROVE  content'[control'] = writers[w].payload
<1>2. writers # writers' /\ writers'[w] # Runtime!IdleWriter
  BY IdleWriterIs
<1>3. writers' # [v \in Writers |-> Runtime!IdleWriter]
  BY <1>2
<1>4. PICK v \in rcLoad.writers : Runtime!Ask(v) \/ Runtime!Open(v) \/ Runtime!Write(v) \/ Runtime!Replace(v)
                                  \/ Runtime!ReplaceFails(v)
  BY <1>2, <1>3 DEF Runtime!Next, Runtime!Terminate, Runtime!Stop, Runtime!ReadControl, Runtime!Resolve, Runtime!LookUp,
    Runtime!LookUpFails, Runtime!UseCached, Runtime!Download, Runtime!DownloadFails, Runtime!RemoveTarget,
    Runtime!MoveStaging, Runtime!Unlink, Runtime!Link, Runtime!Clear, Runtime!ClearFails, Runtime!Start,
    Runtime!RetryBoot, Runtime!Crash, Runtime!Publish
<1>5. w \in rcLoad.writers
  BY DEF RuntimeInv, NobodyWrites
<1>6. v = w
  BY <1>4, <1>5 DEF WriterAlone
<1>7. ~Runtime!Ask(w) /\ ~Runtime!Open(w) /\ ~Runtime!Write(w)
  <2>1. writers[w].pc \notin {"idle", "open", "write"}
    OBVIOUS
  <2> QED BY <2>1 DEF Runtime!Ask, Runtime!Open, Runtime!Write
<1>8. ~Runtime!ReplaceFails(w)
  <2>1. writers \in [Writers -> WriterCalls]
    BY DEF RuntimeInv, RuntimeTyped
  <2> QED BY <1>2, <2>1 DEF Runtime!ReplaceFails
<1>9. Runtime!Replace(w)
  BY <1>4, <1>6, <1>7, <1>8
<1>10. content[tmp] = writers[w].payload
  BY DEF RuntimeInv, AloneWrites, OwnFile
<1> QED BY <1>9, <1>10 DEF Runtime!Replace

\* Only a start makes the application run; it runs what the symlink names.
LEMMA FirstStart ==
  ASSUME RuntimeInv, Runtime!Next, WriterAlone, ~rcLoad.startFails, boot.pc # "up", boot'.pc = "up", approved # 0
  PROVE  running' \in {approved, running}
<1>1. boot' # boot /\ boot' # Runtime!Booting
  BY BootingIs
<1>2. \A p \in BootSteps \ {"up"} : boot' # [boot EXCEPT !.pc = p]
  BY BootIs, BootWith
<1>3. ASSUME NEW w, Runtime!Ask(w) \/ Runtime!Open(w) \/ Runtime!Write(w) \/ Runtime!Replace(w)
             \/ Runtime!ReplaceFails(w) \/ Runtime!Terminate(w)
      PROVE  FALSE
  BY <1>1, <1>3 DEF Runtime!Ask, Runtime!Open, Runtime!Write, Runtime!Replace, Runtime!ReplaceFails, Runtime!Terminate
<1>4. ASSUME Runtime!Stop \/ Runtime!RetryBoot \/ Runtime!Crash \/ Runtime!Publish PROVE FALSE
  BY <1>1, <1>4 DEF Runtime!Stop, Runtime!RetryBoot, Runtime!Crash, Runtime!Publish
<1>5. ~Runtime!ReadControl
  BY DEF Runtime!ReadControl
<1>6. ASSUME NEW v, boot' = [boot EXCEPT !.pc = "fetch", !.ref = v] PROVE FALSE
  <2>1. PICK b \in Boots : b = boot
    BY BootIs
  <2>2. boot'.pc = [b EXCEPT !.pc = "fetch", !.ref = v].pc
    BY <1>6, <2>1
  <2>3. [b EXCEPT !.pc = "fetch", !.ref = v].pc = "fetch"
    BY DEF Boots
  <2> QED BY <2>2, <2>3
<1>7. ~Runtime!Resolve /\ ~Runtime!LookUp
  BY <1>6 DEF Runtime!Resolve, Runtime!LookUp, Runtime!Fetches
<1>8. ~Runtime!FallsBack
  <2> SUFFICES ASSUME Runtime!FallsBack PROVE FALSE
    OBVIOUS
  <2>1. PICK p : p = IF Runtime!CurrentUsable THEN "start" ELSE "failed"
    OBVIOUS
  <2> QED BY <1>2, <2>1 DEF Runtime!FallsBack, BootSteps
<1>9. ~Runtime!LookUpFails /\ ~Runtime!DownloadFails
  BY <1>2, <1>8 DEF Runtime!LookUpFails, Runtime!DownloadFails, BootSteps
<1>10. /\ ~Runtime!UseCached /\ ~Runtime!Download /\ ~Runtime!RemoveTarget /\ ~Runtime!MoveStaging
       /\ ~Runtime!Unlink /\ ~Runtime!Link /\ ~Runtime!Clear /\ ~Runtime!ClearFails
  BY <1>2 DEF Runtime!UseCached, Runtime!Download, Runtime!RemoveTarget, Runtime!MoveStaging, Runtime!Unlink,
    Runtime!Link, Runtime!Clear, Runtime!ClearFails, BootSteps
<1>11. Runtime!Start
  BY <1>3, <1>4, <1>5, <1>7, <1>9, <1>10 DEF Runtime!Next
<1>12. boot.pc = "start" /\ running' = current
  BY <1>11 DEF Runtime!Start
<1>13. current # 0 /\ current \in {0, approved, running}
  BY <1>12 DEF RuntimeInv, FetchesRight, AloneWrites, KeepsApproval
<1> QED BY <1>12, <1>13

\* What was answered as accepted is what the control file holds, and what the first start after it
\* runs: however often the container is killed on the way, and whatever was published since.
THEOREM RuntimeStepsHold == AllSpec => RuntimeSteps
<1>1. AllInit => RuntimeInv
  BY RuntimeStartsWell DEF AllInit
<1>2. RuntimeInv /\ [AllNext]_allVars =>
        [\A w \in Writers :
           (Runtime!Alone /\ writers[w].pc = "replace" /\ writers'[w].pc = "restart")
             => content'[control'] = writers[w].payload]_(Runtime!vars)
  <2> SUFFICES ASSUME RuntimeInv, [AllNext]_allVars, ~UNCHANGED Runtime!vars, NEW w \in Writers, Runtime!Alone,
                      writers[w].pc = "replace", writers'[w].pc = "restart"
               PROVE  content'[control'] = writers[w].payload
    OBVIOUS
  <2>1. Runtime!Next \/ UNCHANGED runtimeVars
    BY DEF AllNext, allVars
  <2>2. ~UNCHANGED runtimeVars
    BY DEF runtimeVars
  <2> QED BY <2>1, <2>2, AloneIs, AcceptedStep
<1>3. RuntimeInv /\ [AllNext]_allVars =>
        [(Runtime!Alone /\ ~rcLoad.startFails /\ boot.pc # "up" /\ boot'.pc = "up" /\ approved # 0)
           => running' \in {approved, running}]_(Runtime!vars)
  <2> SUFFICES ASSUME RuntimeInv, [AllNext]_allVars, ~UNCHANGED Runtime!vars, Runtime!Alone, ~rcLoad.startFails,
                      boot.pc # "up", boot'.pc = "up", approved # 0
               PROVE  running' \in {approved, running}
    OBVIOUS
  <2>1. Runtime!Next \/ UNCHANGED runtimeVars
    BY DEF AllNext, allVars
  <2>2. ~UNCHANGED runtimeVars
    BY DEF runtimeVars
  <2> QED BY <2>1, <2>2, AloneIs, FirstStart
<1> QED BY <1>1, <1>2, <1>3, RuntimeTurns, PTL
        DEF AllSpec, RuntimeSteps, Runtime!InstalledAsAccepted, Runtime!FirstRestart

-----------------------------------------------------------------------------
(***************************************************************************)
(* Links to stored files.                                                  *)
(***************************************************************************)

LinkKinds == {"page", "file", "signed", "public", "mail", "generic"}

LinkUrls == [kind : LinkKinds, n : Nat \cup Pages \cup LinkedFiles]

Incarnations == [file : LinkedFiles, content : LinkedContents \cup {NoContent}, born : Nat]

CapRows ==
  [form : {"public", "signed", "private"}, file : LinkedFiles, content : LinkedContents \cup {NoContent}, born : Nat,
   until : Nat]

LinkRows == [to : LinkUrls, cap : Nat, made : Nat]

GenericRows ==
  [target : {"url", "file"}, n : Pages \cup LinkedFiles, label : Labels, key : LinkKeys, active : BOOLEAN,
   content : LinkedContents \cup {NoContent}, born : Nat]

Followings ==
  [at : {"resolve", "read"}, url : LinkUrls, want : Incarnations \cup CapRows,
   check : {"exact", "signature", "date"}, made : Nat, since : Nat]

Detrackings == [at : {"detrack"}, anchor : LinkUrls, url : LinkUrls, left : Nat]

Instrumentings == [at : {"instrument"}, to : LinkUrls]

LinkCalls == {Shared!Idle} \cup [at : {"insert"}, row : GenericRows] \cup Followings \cup Detrackings \cup Instrumentings

LinksTyped ==
  /\ flFile \in [LinkedFiles -> [content : LinkedContents \cup {NoContent}, born : Nat]]
  /\ flNow \in Nat
  /\ caps \in Seq(CapRows) /\ links \in Seq(LinkRows) /\ generic \in Seq(GenericRows)
  /\ flCall \in [Threads -> LinkCalls]

\* Where a URL leads there is something.
UrlFits(u) ==
  /\ u.kind = "file" => u.n \in LinkedFiles
  /\ u.kind \in {"public", "signed"} => u.n \in DOMAIN caps
  /\ u.kind = "mail" => u.n \in DOMAIN links

\* A link of mail leads to a page, a file or an older signed URL; one of an earlier release also to
\* another link, and none to a public or a generic one.
LinkFits(n) ==
  /\ UrlFits(links[n].to) /\ links[n].to.kind \in {"page", "file", "signed", "mail"}
  /\ links[n].cap \in 0..Len(caps)
  /\ n > Len(Historic) => links[n].to.kind # "mail"

GenericFits(r) == r.target = "file" => r.n \in LinkedFiles

\* One link holds a key; what was told of a key is that link, with the intent it still has.
KeysFit ==
  /\ \A n, m \in DOMAIN generic : generic[n].key = generic[m].key /\ generic[n].key # NoKey => n = m
  /\ \A t \in flTold : /\ t.intent.key # NoKey /\ t.link \in DOMAIN generic
                       /\ t = [intent |-> Shared!Intent(generic[t.link]), link |-> t.link]

\* The file that was resolved is there still, or gone, or another one saved since; a URL that
\* expires had not done so.
ResolvedStill(q) ==
  /\ q.since <= flNow
  /\ q.check = "signature" /\ q.want.until # 0 => q.since < q.want.until
  /\ flFile[q.want.file] # Shared!Gone =>
       /\ q.check = "signature" /\ q.want.until = 0 =>
            flFile[q.want.file].born = q.want.born \/ flFile[q.want.file].born > q.since
       /\ q.check = "date" => flFile[q.want.file].born <= q.made \/ flFile[q.want.file].born > q.since

CallFitsIn(x) ==
  /\ x.at = "insert" => GenericFits(x.row) /\ x.row.active
  /\ x.at = "read" => ResolvedStill(x)
  /\ x.at = "detrack" => UrlFits(x.url)
  /\ x.at = "instrument" => UrlFits(x.to) /\ x.to.kind \in {"page", "file", "signed"}

LinksFit == \A n \in DOMAIN links : LinkFits(n)

GenericsFit == \A n \in DOMAIN generic : GenericFits(generic[n])

LinksInv ==
  /\ LinksTyped /\ LinksFit /\ GenericsFit /\ KeysFit
  /\ \A c \in Threads : CallFitsIn(flCall[c])
  /\ Shared!ServedExactly

LEMMA LinkConstants ==
  /\ MaxChain \in Nat \ {0} /\ NoContent \notin LinkedContents
  /\ Historic \in Seq(LinkRows)
  /\ \A n \in DOMAIN Historic :
       /\ Historic[n].cap = 0 /\ Historic[n].to.kind \in {"mail", "page", "file"}
       /\ Historic[n].to.kind = "mail" => Historic[n].to.n \in 1..Len(Historic)
       /\ Historic[n].to.kind = "file" => Historic[n].to.n \in LinkedFiles
<1> DEFINE tos == [kind : {"mail"}, n : 1..Len(Historic)] \cup [kind : {"page"}, n : Pages]
                    \cup [kind : {"file"}, n : LinkedFiles]
           old == [to : tos, cap : {0}, made : Nat]
<1>1. MaxChain \in Nat \ {0} /\ NoContent \notin LinkedContents /\ Historic \in Seq(old)
  BY ApplicationAssumption DEF Shared!LinksAssumption
<1>2. ASSUME NEW n \in DOMAIN Historic
      PROVE  /\ Historic[n] \in LinkRows /\ Historic[n].cap = 0 /\ Historic[n].to.kind \in {"mail", "page", "file"}
             /\ Historic[n].to.kind = "mail" => Historic[n].to.n \in 1..Len(Historic)
             /\ Historic[n].to.kind = "file" => Historic[n].to.n \in LinkedFiles
  <2>1. Historic[n] \in old
    <3>1. PICK S : S = old
      OBVIOUS
    <3>2. Historic \in Seq(S)
      BY <1>1, <3>1
    <3>3. Historic[n] \in S
      BY <1>2, <3>2
    <3> QED BY <3>1, <3>3
  <2>2. PICK t \in tos, m \in Nat : Historic[n] = [to |-> t, cap |-> 0, made |-> m]
    BY <2>1
  <2>3. /\ t.kind \in {"mail", "page", "file"} /\ t.kind = "mail" => t.n \in 1..Len(Historic)
        /\ t.kind = "file" => t.n \in LinkedFiles
    OBVIOUS
  <2>4. Len(Historic) \in Nat
    BY <1>1
  <2>5. t \in LinkUrls
    BY <2>4 DEF LinkUrls, LinkKinds
  <2>6. Historic[n] \in LinkRows
    BY <2>2, <2>5 DEF LinkRows
  <2> QED BY <2>2, <2>3, <2>6
<1>3. Historic \in Seq(LinkRows)
  <2>1. Historic \in [1..Len(Historic) -> LinkRows] /\ Len(Historic) \in Nat
    BY <1>1, <1>2
  <2> QED BY <2>1
<1> QED BY <1>1, <1>2, <1>3

LEMMA CapIs ==
  ASSUME LinksTyped, NEW n \in DOMAIN caps
  PROVE  /\ n \in Nat \ {0} /\ n <= Len(caps) /\ caps[n] \in CapRows
         /\ caps[n].file \in LinkedFiles /\ caps[n].form \in {"public", "signed", "private"}
<1>1. n \in 1..Len(caps) /\ caps[n] \in CapRows /\ Len(caps) \in Nat
  BY DEF LinksTyped
<1> QED BY <1>1 DEF CapRows

LEMMA UrlIs ==
  ASSUME NEW u \in LinkUrls
  PROVE  u.kind \in LinkKinds /\ u.n \in Nat \cup Pages \cup LinkedFiles
BY DEF LinkUrls

LEMMA UrlMade ==
  ASSUME NEW k \in LinkKinds, NEW n \in Nat \cup Pages \cup LinkedFiles
  PROVE  Shared!Url(k, n) \in LinkUrls /\ Shared!Url(k, n).kind = k /\ Shared!Url(k, n).n = n
BY DEF LinkUrls, Shared!Url

LEMMA LinkIs ==
  ASSUME LinksTyped, NEW n \in DOMAIN links
  PROVE  /\ n \in Nat \ {0} /\ n <= Len(links) /\ links[n] \in LinkRows
         /\ links[n].to \in LinkUrls /\ links[n].cap \in Nat /\ links[n].made \in Nat
<1>1. n \in 1..Len(links) /\ links[n] \in LinkRows /\ Len(links) \in Nat
  BY DEF LinksTyped
<1> QED BY <1>1 DEF LinkRows

LEMMA GenericIs ==
  ASSUME LinksTyped, NEW n \in DOMAIN generic
  PROVE  n \in Nat \ {0} /\ n <= Len(generic) /\ generic[n] \in GenericRows
BY DEF LinksTyped

LEMMA GenericRowIs ==
  ASSUME NEW r \in GenericRows
  PROVE  /\ Shared!Intent(r) \in GenericRows /\ Shared!Intent(r).key = r.key /\ Shared!Intent(r).active
         /\ Shared!Intent(Shared!Intent(r)) = Shared!Intent(r) /\ Shared!Intent(r).target = r.target
         /\ Shared!Intent(r).n = r.n
         /\ r.active => Shared!Intent(r) = r
         /\ r.n \in Pages \cup LinkedFiles /\ r.born \in Nat /\ r.content \in LinkedContents \cup {NoContent}
BY DEF GenericRows, Shared!Intent

LEMMA LinkCallIs ==
  ASSUME NEW x \in LinkCalls
  PROVE  /\ x.at \in {"idle", "insert", "resolve", "read", "detrack", "instrument"}
         /\ x.at = "insert" => x.row \in GenericRows
         /\ x.at \in {"resolve", "read"} => x \in Followings
         /\ x.at = "detrack" => x.anchor \in LinkUrls /\ x.url \in LinkUrls /\ x.left \in Nat
         /\ x.at = "instrument" => x.to \in LinkUrls
<1>1. CASE x = Shared!Idle
  BY <1>1 DEF Shared!Idle
<1>2. CASE x \in [at : {"insert"}, row : GenericRows]
  BY <1>2
<1>3. CASE x \in Followings
  <2>1. x.at \in {"resolve", "read"}
    BY <1>3 DEF Followings
  <2> QED BY <1>3, <2>1
<1>4. CASE x \in Detrackings
  BY <1>4 DEF Detrackings
<1>5. CASE x \in Instrumentings
  BY <1>5 DEF Instrumentings
<1> QED BY <1>1, <1>2, <1>3, <1>4, <1>5 DEF LinkCalls

LEMMA FollowingIs ==
  ASSUME NEW x \in Followings
  PROVE  /\ x.at \in {"resolve", "read"} /\ x.want \in Incarnations \cup CapRows /\ x.want.file \in LinkedFiles
         /\ x.check \in {"exact", "signature", "date"} /\ x.made \in Nat /\ x.since \in Nat /\ x.url \in LinkUrls
<1>1. /\ x.at \in {"resolve", "read"} /\ x.want \in Incarnations \cup CapRows
      /\ x.check \in {"exact", "signature", "date"} /\ x.made \in Nat /\ x.since \in Nat /\ x.url \in LinkUrls
  BY DEF Followings
<1>2. x.want.file \in LinkedFiles
  BY <1>1 DEF Incarnations, CapRows
<1> QED BY <1>1, <1>2

LEMMA LinkCallOf ==
  ASSUME LinksInv, NEW c \in Threads
  PROVE  flCall[c] \in LinkCalls /\ CallFitsIn(flCall[c])
BY DEF LinksInv, LinksTyped

LEMMA IdleLinkIs == Shared!Idle \in LinkCalls /\ Shared!Idle.at = "idle"
BY DEF LinkCalls, Shared!Idle

LEMMA FileIs ==
  ASSUME LinksTyped, NEW f \in LinkedFiles
  PROVE  flFile[f].content \in LinkedContents \cup {NoContent} /\ flFile[f].born \in Nat
BY DEF LinksTyped

\* A turn of one thread to the call x, that leaves the files, the capabilities and the links of mail
\* alone.
LEMMA LinksMove ==
  ASSUME LinksInv, NEW c \in Threads, NEW x \in LinkCalls, Shared!Goes(c, x),
         UNCHANGED <<flFile, flNow, caps, links>>, CallFitsIn(x),
         generic' \in Seq(GenericRows), GenericsFit', KeysFit', Shared!ServedExactly'
  PROVE  LinksInv'
<1>1. /\ flCall' \in [Threads -> LinkCalls] /\ flCall'[c] = x /\ \A e \in Threads \ {c} : flCall'[e] = flCall[e]
  BY DEF LinksInv, LinksTyped, Shared!Goes
<1>2. LinksTyped'
  BY <1>1 DEF LinksInv, LinksTyped, LinkCalls, CapRows, LinkRows, GenericRows, Followings, Detrackings, Instrumentings,
             Incarnations, LinkUrls, LinkKinds, Shared!Idle
<1>3. LinksFit'
  BY DEF LinksInv, LinksFit, LinkFits, UrlFits
<1>4. ASSUME NEW e \in Threads PROVE CallFitsIn(flCall[e])'
  <2>1. CASE e = c
    BY <1>1, <2>1 DEF CallFitsIn, ResolvedStill, UrlFits, GenericFits, Shared!Gone
  <2>2. CASE e # c
    <3>1. CallFitsIn(flCall[e]) /\ flCall'[e] = flCall[e]
      BY <1>1, <2>2 DEF LinksInv
    <3> QED BY <3>1 DEF CallFitsIn, ResolvedStill, UrlFits, GenericFits, Shared!Gone
  <2> QED BY <2>1, <2>2
<1> QED BY <1>2, <1>3, <1>4 DEF LinksInv

\* The generic links and what was told and served, when nobody changes them.
LEMMA GenericsStay ==
  ASSUME LinksInv, UNCHANGED <<generic, flTold>>
  PROVE  generic' \in Seq(GenericRows) /\ GenericsFit' /\ KeysFit'
<1>1. generic' \in Seq(GenericRows)
  BY DEF LinksInv, LinksTyped
<1>2. GenericsFit'
  BY DEF LinksInv, GenericsFit, GenericFits
<1>3. KeysFit'
  BY DEF LinksInv, KeysFit, Shared!Intent
<1> QED BY <1>1, <1>2, <1>3

LEMMA ServedStays ==
  ASSUME LinksInv, flServed' = flServed
  PROVE  Shared!ServedExactly'
BY DEF LinksInv, Shared!ServedExactly

\* What is told under a key is the link that holds it.
LEMMA ToldFits ==
  ASSUME LinksInv, NEW r \in GenericRows, r.active, generic' \in Seq(GenericRows),
         NEW n \in DOMAIN generic', Shared!Intent(generic'[n]) = r,
         DOMAIN generic \subseteq DOMAIN generic',
         \A m \in DOMAIN generic : generic'[m] = generic[m],
         \A m, k \in DOMAIN generic' : generic'[m].key = generic'[k].key /\ generic'[m].key # NoKey => m = k,
         Shared!Answer(r, n)
  PROVE  KeysFit'
<1>1. Shared!Intent(r) = r
  BY GenericRowIs
<1>2. flTold' = flTold \/ (r.key # NoKey /\ flTold' = flTold \cup {[intent |-> r, link |-> n]})
  BY <1>1 DEF Shared!Answer
<1>3. ASSUME NEW t \in flTold
      PROVE  /\ t.intent.key # NoKey /\ t.link \in DOMAIN generic'
             /\ t = [intent |-> Shared!Intent(generic'[t.link]), link |-> t.link]
  BY DEF LinksInv, KeysFit
<1>4. ASSUME NEW t, t = [intent |-> r, link |-> n], r.key # NoKey
      PROVE  /\ t.intent.key # NoKey /\ t.link \in DOMAIN generic'
             /\ t = [intent |-> Shared!Intent(generic'[t.link]), link |-> t.link]
  BY <1>4
<1>5. \A t \in flTold' : /\ t.intent.key # NoKey /\ t.link \in DOMAIN generic'
                         /\ t = [intent |-> Shared!Intent(generic'[t.link]), link |-> t.link]
  BY <1>2, <1>3, <1>4
<1> QED BY <1>5 DEF KeysFit, Shared!Intent

\* An existing link answers the request for it, and nothing changes.
LEMMA LinksReplay ==
  ASSUME LinksInv, NEW c \in Threads, NEW r \in GenericRows, r.active, Shared!Replay(c, r),
         UNCHANGED <<flFile, flNow, caps, links, flServed>>
  PROVE  LinksInv'
<1>1. Shared!Goes(c, Shared!Idle) /\ generic' = generic
  BY DEF Shared!Replay
<1>2. PICK n \in Shared!Held(r.key) : IF Shared!Intent(generic[n]) = r THEN Shared!Answer(r, n) ELSE flTold' = flTold
  BY DEF Shared!Replay
<1>3. n \in DOMAIN generic
  BY <1>2 DEF Shared!Held
<1>4. generic' \in Seq(GenericRows) /\ GenericsFit'
  BY <1>1 DEF LinksInv, LinksTyped, GenericsFit, GenericFits
<1>5. KeysFit'
  <2>1. CASE Shared!Intent(generic[n]) = r
    <3>1. \A m, k \in DOMAIN generic' : generic'[m].key = generic'[k].key /\ generic'[m].key # NoKey => m = k
      BY <1>1 DEF LinksInv, KeysFit
    <3>2. Shared!Answer(r, n)
      BY <1>2, <2>1
    <3>3. Shared!Intent(generic'[n]) = r
      BY <1>1, <2>1
    <3> QED BY <1>1, <1>3, <1>4, <3>1, <3>2, <3>3, ToldFits
  <2>2. CASE Shared!Intent(generic[n]) # r
    <3>1. flTold' = flTold
      BY <1>2, <2>2
    <3> QED BY <1>1, <3>1, GenericsStay
  <2> QED BY <2>1, <2>2
<1>6. Shared!ServedExactly'
  BY ServedStays
<1>7. CallFitsIn(Shared!Idle)
  BY IdleLinkIs DEF CallFitsIn
<1> QED BY <1>1, <1>4, <1>5, <1>6, <1>7, IdleLinkIs, LinksMove

LEMMA WantedIs ==
  ASSUME LinksInv, NEW target \in {"url", "file"}, NEW n \in Pages \cup LinkedFiles, target = "file" => n \in LinkedFiles,
         NEW label \in Labels, NEW key \in LinkKeys
  PROVE  LET r == Shared!Wanted(target, n, label, key)
         IN r \in GenericRows /\ r.active /\ GenericFits(r) /\ r.key = key
<1>1. PICK x : x = IF target = "file" THEN flFile[n].content ELSE NoContent
  OBVIOUS
<1>2. PICK b : b = IF target = "file" THEN flFile[n].born ELSE 0
  OBVIOUS
<1>3. x \in LinkedContents \cup {NoContent} /\ b \in Nat
  BY <1>1, <1>2, FileIs DEF LinksInv
<1>4. Shared!Wanted(target, n, label, key) =
        [target |-> target, n |-> n, label |-> label, key |-> key, active |-> TRUE, content |-> x, born |-> b]
  BY <1>1, <1>2 DEF Shared!Wanted
<1> QED BY <1>3, <1>4 DEF GenericRows, GenericFits

LEMMA LinksCreate ==
  ASSUME LinksInv, NEW c \in Threads, NEW target \in {"url", "file"}, NEW n \in Pages \cup LinkedFiles,
         target = "file" => n \in LinkedFiles, NEW label \in Labels, NEW key \in LinkKeys,
         Shared!Create(c, target, n, label, key)
  PROVE  LinksInv'
<1>1. PICK r : r = Shared!Wanted(target, n, label, key)
  OBVIOUS
<1>2. r \in GenericRows /\ r.active /\ GenericFits(r) /\ r.key = key
  BY <1>1, WantedIs
<1>3. UNCHANGED <<flFile, flNow, caps, links, flServed>>
  BY DEF Shared!Create
<1>4. \/ Shared!Replay(c, r)
      \/ Shared!Goes(c, [at |-> "insert", row |-> r]) /\ UNCHANGED <<generic, flTold>>
  BY <1>1 DEF Shared!Create
<1>5. CASE Shared!Replay(c, r)
  BY <1>2, <1>3, <1>5, LinksReplay
<1>6. CASE Shared!Goes(c, [at |-> "insert", row |-> r]) /\ UNCHANGED <<generic, flTold>>
  <2>1. PICK x : x = [at |-> "insert", row |-> r]
    OBVIOUS
  <2>2. x \in LinkCalls /\ x.at = "insert" /\ x.row = r
    BY <1>2, <2>1 DEF LinkCalls
  <2>3. CallFitsIn(x)
    BY <1>2, <2>2 DEF CallFitsIn
  <2>4. Shared!Goes(c, x)
    BY <1>6, <2>1
  <2>5. generic' \in Seq(GenericRows) /\ GenericsFit' /\ KeysFit'
    BY <1>6, GenericsStay
  <2>6. Shared!ServedExactly'
    BY <1>3, ServedStays
  <2> QED BY <1>3, <2>2, <2>3, <2>4, <2>5, <2>6, LinksMove
<1> QED BY <1>4, <1>5, <1>6

LEMMA LinksInsert == ASSUME LinksInv, NEW c \in Threads, Shared!Insert(c) PROVE LinksInv'
<1>1. PICK r : r = flCall[c].row
  OBVIOUS
<1>2. flCall[c].at = "insert" /\ UNCHANGED <<flFile, flNow, caps, links, flServed>>
  BY DEF Shared!Insert
<1>3. r \in GenericRows /\ GenericFits(r) /\ r.active
  BY <1>1, <1>2, LinkCallOf, LinkCallIs DEF CallFitsIn
<1>4. \/ Shared!Replay(c, r)
      \/ /\ Shared!Held(r.key) = {} /\ generic' = Append(generic, r) /\ Shared!Answer(r, Len(generic) + 1)
         /\ Shared!Goes(c, Shared!Idle)
  BY <1>1 DEF Shared!Insert
<1>5. CASE Shared!Replay(c, r)
  BY <1>2, <1>3, <1>5, LinksReplay
<1>6. CASE /\ Shared!Held(r.key) = {} /\ generic' = Append(generic, r) /\ Shared!Answer(r, Len(generic) + 1)
           /\ Shared!Goes(c, Shared!Idle)
  <2>1. PICK n : n = Len(generic) + 1
    OBVIOUS
  <2>2. generic \in Seq(GenericRows)
    BY DEF LinksInv, LinksTyped
  <2>3. /\ generic' \in Seq(GenericRows) /\ DOMAIN generic' = DOMAIN generic \cup {n} /\ n \notin DOMAIN generic
        /\ generic'[n] = r /\ \A m \in DOMAIN generic : generic'[m] = generic[m]
    BY <1>3, <1>6, <2>1, <2>2
  <2>4. GenericsFit'
    BY <1>3, <2>3 DEF LinksInv, GenericsFit, GenericFits
  <2>5. \A m \in DOMAIN generic : r.key # NoKey => generic[m].key # r.key
    BY <1>6 DEF Shared!Held
  <2>6. \A m, k \in DOMAIN generic' : generic'[m].key = generic'[k].key /\ generic'[m].key # NoKey => m = k
    BY <2>3, <2>5 DEF LinksInv, KeysFit
  <2>7. Shared!Intent(generic'[n]) = r
    BY <1>3, <2>3, GenericRowIs
  <2>8. Shared!Answer(r, n)
    BY <1>6, <2>1
  <2>9. KeysFit'
    BY <1>3, <2>3, <2>6, <2>7, <2>8, ToldFits
  <2>10. Shared!ServedExactly'
    BY <1>2, ServedStays
  <2>11. CallFitsIn(Shared!Idle)
    BY IdleLinkIs DEF CallFitsIn
  <2> QED BY <1>2, <1>6, <2>3, <2>4, <2>9, <2>10, <2>11, IdleLinkIs, LinksMove
<1> QED BY <1>4, <1>5, <1>6

LEMMA LinksRevoke == ASSUME LinksInv, NEW n \in DOMAIN generic, Shared!Revoke(n) PROVE LinksInv'
<1>1. /\ generic' = [generic EXCEPT ![n] = [generic[n] EXCEPT !.active = FALSE]]
      /\ UNCHANGED <<flFile, flNow, caps, links, flCall, flServed, flTold>>
  BY DEF Shared!Revoke, Shared!history
<1>2. PICK g \in GenericRows : g = generic[n]
  BY GenericIs DEF LinksInv
<1>3. PICK h : h = [g EXCEPT !.active = FALSE]
  OBVIOUS
<1>4. /\ h \in GenericRows /\ h.key = g.key /\ h.target = g.target /\ h.n = g.n
      /\ Shared!Intent(h) = Shared!Intent(g)
  BY <1>3 DEF GenericRows, Shared!Intent
<1>5. generic \in Seq(GenericRows)
  BY DEF LinksInv, LinksTyped
<1>6. generic' = [generic EXCEPT ![n] = h]
  BY <1>1, <1>2, <1>3
<1>7. /\ generic' \in Seq(GenericRows) /\ DOMAIN generic' = DOMAIN generic /\ generic'[n] = h
      /\ \A m \in DOMAIN generic \ {n} : generic'[m] = generic[m]
  BY <1>4, <1>5, <1>6
<1>8. \A m \in DOMAIN generic :
        /\ generic'[m].key = generic[m].key /\ generic'[m].target = generic[m].target /\ generic'[m].n = generic[m].n
        /\ Shared!Intent(generic'[m]) = Shared!Intent(generic[m])
  BY <1>2, <1>4, <1>7
<1>9. GenericsFit'
  BY <1>7, <1>8 DEF LinksInv, GenericsFit, GenericFits
<1>10. KeysFit'
  <2>1. \A t \in flTold' : /\ t.intent.key # NoKey /\ t.link \in DOMAIN generic'
                           /\ t = [intent |-> Shared!Intent(generic'[t.link]), link |-> t.link]
    BY <1>1, <1>7, <1>8 DEF LinksInv, KeysFit
  <2>2. \A m, k \in DOMAIN generic' : generic'[m].key = generic'[k].key /\ generic'[m].key # NoKey => m = k
    BY <1>7, <1>8 DEF LinksInv, KeysFit
  <2> QED BY <2>1, <2>2 DEF KeysFit, Shared!Intent
<1>11. LinksTyped'
  BY <1>1, <1>7 DEF LinksInv, LinksTyped, LinkCalls, CapRows, LinkRows, GenericRows, Followings, Detrackings,
             Instrumentings, Incarnations, LinkUrls, LinkKinds, Shared!Idle
<1>12. LinksFit'
  BY <1>1 DEF LinksInv, LinksFit, LinkFits, UrlFits
<1>13. ASSUME NEW e \in Threads PROVE CallFitsIn(flCall[e])'
  BY <1>1 DEF LinksInv, CallFitsIn, ResolvedStill, UrlFits, GenericFits, Shared!Gone
<1>14. Shared!ServedExactly'
  BY <1>1, ServedStays
<1> QED BY <1>9, <1>10, <1>11, <1>12, <1>13, <1>14 DEF LinksInv

\* A change of the files alone: each is as it was, or gone, or younger than every request so far.
LEMMA LinksFiles ==
  ASSUME LinksInv, UNCHANGED <<caps, links, generic, flCall, flServed, flTold>>,
         flFile' \in [LinkedFiles -> [content : LinkedContents \cup {NoContent}, born : Nat]],
         flNow' \in Nat, flNow <= flNow',
         \A f \in LinkedFiles : flFile'[f] = flFile[f] \/ flFile'[f] = Shared!Gone \/ flFile'[f].born > flNow
  PROVE  LinksInv'
<1>1. LinksTyped'
  BY DEF LinksInv, LinksTyped, LinkCalls, CapRows, LinkRows, GenericRows, Followings, Detrackings,
         Instrumentings, Incarnations, LinkUrls, LinkKinds, Shared!Idle
<1>2. LinksFit'
  BY DEF LinksInv, LinksFit, LinkFits, UrlFits
<1>3. GenericsFit' /\ KeysFit'
  BY GenericsStay
<1>4. Shared!ServedExactly'
  BY ServedStays
<1>5. ASSUME NEW c \in Threads PROVE CallFitsIn(flCall[c])'
  <2>1. PICK q : q = flCall[c]
    OBVIOUS
  <2>2. q \in LinkCalls /\ CallFitsIn(q) /\ flNow \in Nat
    BY <2>1, LinkCallOf DEF LinksInv, LinksTyped
  <2>3. q.at = "read" => ResolvedStill(q)'
    <3>1. SUFFICES ASSUME q.at = "read" PROVE ResolvedStill(q)'
      OBVIOUS
    <3>2. q \in Followings /\ ResolvedStill(q)
      BY <2>2, <3>1, LinkCallIs DEF CallFitsIn
    <3>3. q.want.file \in LinkedFiles /\ q.since \in Nat
      BY <3>2, FollowingIs
    <3>4. flFile'[q.want.file] # Shared!Gone =>
            flFile'[q.want.file] = flFile[q.want.file] \/ flFile'[q.want.file].born > flNow
      BY <3>3
    <3>5. flFile'[q.want.file].born \in Nat
      BY <3>3
    <3> QED BY <2>2, <3>2, <3>3, <3>4, <3>5 DEF ResolvedStill, Shared!Gone
  <2>4. flCall'[c] = q
    BY <2>1
  <2>5. CallFitsIn(q)'
    BY <2>2, <2>3 DEF CallFitsIn, UrlFits, GenericFits
  <2> QED BY <2>4, <2>5 DEF CallFitsIn, ResolvedStill, UrlFits, GenericFits
<1> QED BY <1>1, <1>2, <1>3, <1>4, <1>5 DEF LinksInv

LEMMA LinksSave ==
  ASSUME LinksInv, NEW f \in LinkedFiles, NEW x \in LinkedContents, Shared!Save(f, x)
  PROVE  LinksInv'
<1>1. /\ flNow' = flNow + 1 /\ flFile' = [flFile EXCEPT ![f] = [content |-> x, born |-> flNow + 1]]
      /\ UNCHANGED <<caps, links, generic, flCall, flServed, flTold>>
  BY DEF Shared!Save, Shared!tables, Shared!history
<1>2. flNow \in Nat /\ flFile \in [LinkedFiles -> [content : LinkedContents \cup {NoContent}, born : Nat]]
  BY DEF LinksInv, LinksTyped
<1>3. flNow' \in Nat /\ flNow <= flNow' /\ flNow + 1 > flNow
  BY <1>1, <1>2
<1>4. flFile' \in [LinkedFiles -> [content : LinkedContents \cup {NoContent}, born : Nat]]
  BY <1>1, <1>2
<1>5. \A g \in LinkedFiles : flFile'[g] = flFile[g] \/ flFile'[g].born > flNow
  BY <1>1, <1>2, <1>3
<1> QED BY <1>1, <1>3, <1>4, <1>5, LinksFiles

LEMMA LinksDelete == ASSUME LinksInv, NEW f \in LinkedFiles, Shared!Delete(f) PROVE LinksInv'
<1>1. /\ flNow' = flNow /\ flFile' = [flFile EXCEPT ![f] = Shared!Gone]
      /\ UNCHANGED <<caps, links, generic, flCall, flServed, flTold>>
  BY DEF Shared!Delete, Shared!tables, Shared!history
<1>2. flNow \in Nat /\ flFile \in [LinkedFiles -> [content : LinkedContents \cup {NoContent}, born : Nat]]
  BY DEF LinksInv, LinksTyped
<1>3. Shared!Gone \in [content : LinkedContents \cup {NoContent}, born : Nat]
  BY DEF Shared!Gone
<1>4. flFile' \in [LinkedFiles -> [content : LinkedContents \cup {NoContent}, born : Nat]]
  BY <1>1, <1>2, <1>3
<1>5. \A g \in LinkedFiles : flFile'[g] = flFile[g] \/ flFile'[g] = Shared!Gone
  BY <1>1, <1>2
<1>6. flNow' \in Nat /\ flNow <= flNow'
  BY <1>1, <1>2
<1> QED BY <1>1, <1>4, <1>5, <1>6, LinksFiles

\* Capabilities and links of mail are added only, and threads move on: what fits still fits.
LEMMA LinksGrow ==
  ASSUME LinksInv, UNCHANGED <<flFile, flNow, generic, flServed, flTold>>,
         flCall' \in [Threads -> LinkCalls],
         \A e \in Threads : flCall'[e] = flCall[e] \/ CallFitsIn(flCall[e])',
         caps' \in Seq(CapRows), Len(caps') >= Len(caps),
         links' \in Seq(LinkRows), DOMAIN links \subseteq DOMAIN links', \A n \in DOMAIN links : links'[n] = links[n],
         \A n \in DOMAIN links' \ DOMAIN links : LinkFits(n)'
  PROVE  LinksInv'
<1>2. LinksTyped'
  BY DEF LinksInv, LinksTyped, LinkCalls, CapRows, LinkRows, GenericRows, Followings, Detrackings, Instrumentings,
         Incarnations, LinkUrls, LinkKinds, Shared!Idle
<1>3. Len(caps) \in Nat /\ Len(caps') \in Nat /\ DOMAIN caps \subseteq DOMAIN caps'
  BY DEF LinksInv, LinksTyped
<1>4. ASSUME NEW u, UrlFits(u) PROVE UrlFits(u)'
  BY <1>3, <1>4 DEF UrlFits
<1>5. ASSUME NEW n \in DOMAIN links PROVE LinkFits(n)'
  <2>1. LinkFits(n) /\ links'[n] = links[n]
    BY DEF LinksInv, LinksFit
  <2>2. UrlFits(links[n].to)
    BY <2>1 DEF LinkFits
  <2>3. /\ links'[n].to.kind = "file" => links'[n].to.n \in LinkedFiles
        /\ links'[n].to.kind \in {"public", "signed"} => links'[n].to.n \in DOMAIN caps'
        /\ links'[n].to.kind = "mail" => links'[n].to.n \in DOMAIN links'
    BY <1>3, <2>1, <2>2 DEF UrlFits
  <2>4. links'[n].cap \in 0..Len(caps')
    BY <1>3, <2>1 DEF LinkFits
  <2> QED BY <2>1, <2>3, <2>4 DEF LinkFits, UrlFits
<1>6. LinksFit'
  BY <1>5 DEF LinksFit
<1>7. ASSUME NEW e \in Threads PROVE CallFitsIn(flCall[e])'
  <2>1. CASE CallFitsIn(flCall[e])'
    BY <2>1
  <2>2. CASE flCall'[e] = flCall[e]
    <3>1. CallFitsIn(flCall[e])
      BY DEF LinksInv
    <3> QED BY <1>3, <2>2, <3>1 DEF CallFitsIn, ResolvedStill, UrlFits, GenericFits, Shared!Gone
  <2> QED BY <2>1, <2>2
<1>8. GenericsFit' /\ KeysFit'
  BY GenericsStay
<1>9. Shared!ServedExactly'
  BY ServedStays
<1> QED BY <1>2, <1>6, <1>7, <1>8, <1>9 DEF LinksInv

LEMMA LinksShare ==
  ASSUME LinksInv, NEW f \in LinkedFiles, NEW form \in {"public", "signed"}, Shared!Share(f, form)
  PROVE  LinksInv'
<1>1. /\ caps' = Append(caps, Shared!Cap(form, f))
      /\ UNCHANGED <<flFile, flNow, links, generic, flCall, flServed, flTold>>
  BY DEF Shared!Share, Shared!history
<1>2. caps \in Seq(CapRows) /\ links \in Seq(LinkRows) /\ flCall \in [Threads -> LinkCalls]
  BY DEF LinksInv, LinksTyped
<1>3. Shared!Cap(form, f) \in CapRows
  <2>1. PICK x, b : x = flFile[f].content /\ b = flFile[f].born
    OBVIOUS
  <2>2. x \in LinkedContents \cup {NoContent} /\ b \in Nat
    BY <2>1, FileIs DEF LinksInv
  <2>3. Shared!Cap(form, f) = [form |-> form, file |-> f, content |-> x, born |-> b, until |-> 0]
    BY <2>1 DEF Shared!Cap
  <2> QED BY <2>2, <2>3 DEF CapRows
<1>4. caps' \in Seq(CapRows) /\ Len(caps') >= Len(caps) /\ DOMAIN caps \subseteq DOMAIN caps'
  BY <1>1, <1>2, <1>3
<1>5. \A e \in Threads : flCall'[e] = flCall[e]
  BY <1>1
<1> QED BY <1>1, <1>2, <1>4, <1>5, LinksGrow

LEMMA LinksShareExpiring ==
  ASSUME LinksInv, NEW f \in LinkedFiles, Shared!ShareExpiring(f)
  PROVE  LinksInv'
<1>1. flNow \in Nat /\ caps \in Seq(CapRows) /\ links \in Seq(LinkRows) /\ flCall \in [Threads -> LinkCalls]
  BY DEF LinksInv, LinksTyped
<1>2. PICK t \in flNow + 1..MaxNow + 1 : caps' = Append(caps, [Shared!Cap("signed", f) EXCEPT !.until = t])
  BY DEF Shared!ShareExpiring
<1>3. UNCHANGED <<flFile, flNow, links, generic, flCall, flServed, flTold>>
  BY DEF Shared!ShareExpiring, Shared!history
<1>4. t \in Nat
  BY <1>1
<1>5. [Shared!Cap("signed", f) EXCEPT !.until = t] \in CapRows
  <2>1. PICK x, b : x = flFile[f].content /\ b = flFile[f].born
    OBVIOUS
  <2>2. x \in LinkedContents \cup {NoContent} /\ b \in Nat
    BY <2>1, FileIs DEF LinksInv
  <2>3. [Shared!Cap("signed", f) EXCEPT !.until = t]
          = [form |-> "signed", file |-> f, content |-> x, born |-> b, until |-> t]
    BY <2>1 DEF Shared!Cap
  <2> QED BY <1>4, <2>2, <2>3 DEF CapRows
<1>6. caps' \in Seq(CapRows) /\ Len(caps') >= Len(caps) /\ DOMAIN caps \subseteq DOMAIN caps'
  BY <1>1, <1>2, <1>5
<1>7. \A e \in Threads : flCall'[e] = flCall[e]
  BY <1>3
<1> QED BY <1>1, <1>3, <1>6, <1>7, LinksGrow

LEMMA LinksTick == ASSUME LinksInv, Shared!Tick PROVE LinksInv'
<1>1. flNow' = flNow + 1 /\ flFile' = flFile /\ UNCHANGED <<caps, links, generic, flCall, flServed, flTold>>
  BY DEF Shared!Tick, Shared!tables, Shared!history
<1>2. flNow \in Nat /\ flFile \in [LinkedFiles -> [content : LinkedContents \cup {NoContent}, born : Nat]]
  BY DEF LinksInv, LinksTyped
<1>3. flNow' \in Nat /\ flNow <= flNow'
  BY <1>1, <1>2
<1> QED BY <1>1, <1>2, <1>3, LinksFiles

LEMMA RequestIs ==
  ASSUME NEW u \in LinkUrls, NEW v \in LinkUrls, NEW w \in Incarnations \cup CapRows,
         NEW check \in {"exact", "signature", "date"}, NEW made \in Nat
  PROVE  /\ Shared!Request(u, w, check, made) \in Followings /\ Shared!Request(u, w, check, made).at = "resolve"
         /\ [Shared!Request(u, w, check, made) EXCEPT !.url = v] = Shared!Request(v, w, check, made)
BY DEF Shared!Request, Followings

\* A request for a file through the URL u, answered for the URL v.
LEMMA AsksForIs ==
  ASSUME LinksInv, NEW u \in LinkUrls, Shared!LeadsToFile(u), NEW v \in LinkUrls,
         ~(u.kind = "mail" /\ links[u.n].to.kind = "signed")
  PROVE  /\ Shared!AsksFor(u) \in Followings /\ Shared!AsksFor(u).at = "resolve"
         /\ [Shared!AsksFor(u) EXCEPT !.url = v] \in Followings
         /\ [Shared!AsksFor(u) EXCEPT !.url = v].at = "resolve"
<1> USE DEF LinksInv
<1>0. SUFFICES \E w \in Incarnations \cup CapRows, check \in {"exact", "signature", "date"}, made \in Nat :
                 Shared!AsksFor(u) = Shared!Request(u, w, check, made)
  BY RequestIs
<1>1. CASE u.kind = "public"
  <2>1. caps[u.n] \in CapRows
    BY <1>1, CapIs DEF Shared!LeadsToFile
  <2>2. Shared!AsksFor(u) = Shared!Request(u, caps[u.n], "exact", 0)
    BY <1>1 DEF Shared!AsksFor
  <2> QED BY <2>1, <2>2
<1>2. CASE u.kind = "signed"
  <2>1. caps[u.n] \in CapRows
    BY <1>2, CapIs DEF Shared!LeadsToFile
  <2>2. Shared!AsksFor(u) = Shared!Request(u, caps[u.n], "signature", 0)
    BY <1>2 DEF Shared!AsksFor, Shared!SignedRequest
  <2> QED BY <2>1, <2>2
<1>3. CASE u.kind = "generic"
  <2>1. u.n \in DOMAIN generic /\ generic[u.n].target = "file"
    BY <1>3 DEF Shared!LeadsToFile
  <2>2. PICK r \in GenericRows : r = generic[u.n]
    BY <2>1, GenericIs
  <2>3. r.n \in LinkedFiles
    BY <2>1, <2>2 DEF GenericsFit, GenericFits
  <2>4. r.born \in Nat /\ r.content \in LinkedContents \cup {NoContent}
    BY GenericRowIs
  <2>5. PICK w : w = [file |-> r.n, content |-> r.content, born |-> r.born]
    OBVIOUS
  <2>6. w \in Incarnations
    BY <2>3, <2>4, <2>5 DEF Incarnations
  <2>7. Shared!AsksFor(u) = Shared!Request(u, w, "exact", 0)
    BY <1>3, <2>2, <2>5 DEF Shared!AsksFor
  <2> QED BY <2>6, <2>7
<1>4. CASE u.kind = "mail"
  <2>1. u.n \in DOMAIN links /\ links[u.n].to.kind = "file"
    BY <1>4 DEF Shared!LeadsToFile
  <2>2. UrlFits(links[u.n].to) /\ links[u.n].cap \in 0..Len(caps) /\ links[u.n].made \in Nat
    BY <2>1, LinkIs DEF LinksFit, LinkFits
  <2>3. CASE links[u.n].cap # 0
    <3>1. caps \in Seq(CapRows) /\ Len(caps) \in Nat
      BY DEF LinksTyped
    <3>2. caps[links[u.n].cap] \in CapRows
      BY <2>2, <2>3, <3>1
    <3>3. Shared!AsksFor(u) = Shared!Request(u, caps[links[u.n].cap], "exact", 0)
      BY <1>4, <2>3 DEF Shared!AsksFor
    <3> QED BY <3>2, <3>3
  <2>4. CASE links[u.n].cap = 0
    <3>1. links[u.n].to.n \in LinkedFiles
      BY <2>1, <2>2 DEF UrlFits
    <3>2. PICK w : w = [Shared!Nothing EXCEPT !.file = links[u.n].to.n]
      OBVIOUS
    <3>3. w \in Incarnations
      BY <3>1, <3>2 DEF Incarnations, Shared!Nothing
    <3>4. Shared!AsksFor(u) = Shared!Request(u, w, "date", links[u.n].made)
      BY <1>4, <2>4, <3>2 DEF Shared!AsksFor
    <3> QED BY <2>2, <3>3, <3>4
  <2> QED BY <2>3, <2>4
<1> QED BY <1>1, <1>2, <1>3, <1>4 DEF Shared!LeadsToFile

LEMMA AnchorIs ==
  ASSUME LinksInv, NEW u \in Shared!Anchors
  PROVE  u \in LinkUrls /\ UrlFits(u)
<1> USE DEF LinksInv
<1>1. CASE \E p \in Pages : u = Shared!Url("page", p)
  BY <1>1 DEF LinkUrls, LinkKinds, Shared!Url, UrlFits
<1>2. CASE \E f \in LinkedFiles : u = Shared!Url("file", f)
  BY <1>2 DEF LinkUrls, LinkKinds, Shared!Url, UrlFits
<1>3. CASE \E n \in {m \in DOMAIN caps : caps[m].form # "private"} : u = Shared!Url(caps[n].form, n)
  <2>1. PICK n \in DOMAIN caps : caps[n].form # "private" /\ u = Shared!Url(caps[n].form, n)
    BY <1>3
  <2>2. caps[n].form \in {"public", "signed"} /\ n \in Nat
    BY <2>1, CapIs
  <2> QED BY <2>1, <2>2 DEF LinkUrls, LinkKinds, Shared!Url, UrlFits
<1>4. CASE \E n \in DOMAIN links : u = Shared!Url("mail", n)
  BY <1>4, LinkIs DEF LinkUrls, LinkKinds, Shared!Url, UrlFits
<1>5. CASE \E n \in DOMAIN generic : u = Shared!Url("generic", n)
  BY <1>5, GenericIs DEF LinkUrls, LinkKinds, Shared!Url, UrlFits
<1> QED BY <1>1, <1>2, <1>3, <1>4, <1>5 DEF Shared!Anchors

LEMMA LinksFollow ==
  ASSUME LinksInv, NEW c \in Threads, NEW u \in Shared!Anchors, Shared!Follow(c, u)
  PROVE  LinksInv'
<1>1. PICK x : x = IF u.kind = "mail" /\ links[u.n].to.kind = "signed"
                   THEN [Shared!AsksFor(links[u.n].to) EXCEPT !.url = u] ELSE Shared!AsksFor(u)
  OBVIOUS
<1>2. /\ Shared!LeadsToFile(u) /\ Shared!Goes(c, x)
      /\ UNCHANGED <<flFile, flNow, caps, links, generic, flServed, flTold>>
  BY <1>1 DEF Shared!Follow, Shared!tables, Shared!history
<1>3. u \in LinkUrls
  BY AnchorIs
<1>4. x \in Followings /\ x.at = "resolve"
  <2>1. CASE u.kind = "mail" /\ links[u.n].to.kind = "signed"
    <3>1. u.n \in DOMAIN links
      BY <1>2, <2>1 DEF Shared!LeadsToFile
    <3>2. PICK v \in LinkUrls : v = links[u.n].to
      BY <3>1, LinkIs DEF LinksInv
    <3>3. v.kind = "signed" /\ v.n \in DOMAIN caps
      BY <2>1, <3>1, <3>2 DEF LinksInv, LinksFit, LinkFits, UrlFits
    <3>4. PICK w \in CapRows : w = caps[v.n]
      BY <3>3, CapIs DEF LinksInv
    <3>5. Shared!AsksFor(v) = Shared!Request(v, w, "signature", 0)
      BY <3>3, <3>4 DEF Shared!AsksFor, Shared!SignedRequest
    <3>6. x = Shared!Request(u, w, "signature", 0)
      BY <1>1, <1>3, <2>1, <3>2, <3>5, RequestIs
    <3> QED BY <1>3, <3>6, RequestIs
  <2>2. CASE ~(u.kind = "mail" /\ links[u.n].to.kind = "signed")
    <3>1. x = Shared!AsksFor(u)
      BY <1>1, <2>2
    <3> QED BY <1>2, <1>3, <2>2, <3>1, AsksForIs
  <2> QED BY <2>1, <2>2
<1>5. x \in LinkCalls /\ CallFitsIn(x)
  BY <1>4 DEF LinkCalls, CallFitsIn
<1>6. generic' \in Seq(GenericRows) /\ GenericsFit' /\ KeysFit'
  BY <1>2, GenericsStay
<1>7. Shared!ServedExactly'
  BY <1>2, ServedStays
<1> QED BY <1>2, <1>5, <1>6, <1>7, LinksMove

LEMMA LinksResolve == ASSUME LinksInv, NEW c \in Threads, Shared!Resolve(c) PROVE LinksInv'
<1>1. PICK q : q = flCall[c]
  OBVIOUS
<1>2. PICK ok : ok = CASE q.check = "date" -> Shared!NoYounger(q.want.file, q.made)
                       [] q.check = "signature" -> Shared!SignatureHolds(q.want)
                       [] OTHER -> Shared!TargetHolds(q.want)
  OBVIOUS
<1>3. PICK x : x = IF ok THEN [q EXCEPT !.at = "read", !.since = flNow] ELSE Shared!Idle
  OBVIOUS
<1>4. /\ q.at = "resolve" /\ Shared!Goes(c, x)
      /\ UNCHANGED <<flFile, flNow, caps, links, generic, flServed, flTold>>
  BY <1>1, <1>2, <1>3 DEF Shared!Resolve, Shared!tables, Shared!history
<1>5. q \in Followings
  BY <1>1, <1>4, LinkCallOf, LinkCallIs
<1>6. flNow \in Nat
  BY DEF LinksInv, LinksTyped
<1>7. x \in LinkCalls /\ CallFitsIn(x)
  <2>1. CASE ~ok
    BY <1>3, <2>1, IdleLinkIs DEF CallFitsIn
  <2>2. CASE ok
    <3>1. /\ x \in Followings /\ x.at = "read" /\ x.want = q.want /\ x.check = q.check /\ x.made = q.made
          /\ x.since = flNow
      <4>1. x = [q EXCEPT !.at = "read", !.since = flNow]
        BY <1>3, <2>2
      <4> QED BY <1>5, <1>6, <4>1 DEF Followings
    <3>2. q.check = "date" => flFile[q.want.file].born <= q.made
      BY <1>2, <2>2 DEF Shared!NoYounger
    <3>3. q.check = "signature" => IF q.want.until = 0 THEN flFile[q.want.file].born = q.want.born
                                   ELSE q.want.until > flNow
      BY <1>2, <2>2 DEF Shared!SignatureHolds, Shared!Matches, Shared!Of
    <3>4. ResolvedStill(x)
      BY <1>6, <3>1, <3>2, <3>3 DEF ResolvedStill
    <3> QED BY <3>1, <3>4 DEF LinkCalls, CallFitsIn
  <2> QED BY <2>1, <2>2
<1>8. generic' \in Seq(GenericRows) /\ GenericsFit' /\ KeysFit'
  BY <1>4, GenericsStay
<1>9. Shared!ServedExactly'
  BY <1>4, ServedStays
<1> QED BY <1>4, <1>7, <1>8, <1>9, LinksMove

LEMMA LinksRead == ASSUME LinksInv, NEW c \in Threads, Shared!Read(c) PROVE LinksInv'
<1>1. PICK q : q = flCall[c]
  OBVIOUS
<1>2. PICK f : f = q.want.file
  OBVIOUS
<1>3. /\ q.at = "read" /\ Shared!Goes(c, Shared!Idle)
      /\ flServed' = IF flFile[f] # Shared!Gone /\ Shared!Rechecked(q) THEN {[by |-> q, got |-> Shared!Of(f)]} ELSE flServed
      /\ UNCHANGED <<flFile, flNow, caps, links, generic, flTold>>
  BY <1>1, <1>2 DEF Shared!Read, Shared!tables
<1>4. q \in Followings /\ ResolvedStill(q)
  BY <1>1, <1>3, LinkCallOf, LinkCallIs DEF CallFitsIn
<1>5. Shared!ServedExactly'
  <2>1. CASE ~(flFile[f] # Shared!Gone /\ Shared!Rechecked(q))
    BY <1>3, <2>1, ServedStays
  <2>2. CASE flFile[f] # Shared!Gone /\ Shared!Rechecked(q)
    <3>1. PICK s : s = [by |-> q, got |-> Shared!Of(f)]
      OBVIOUS
    <3>2. flServed' = {s}
      BY <1>3, <2>2, <3>1
    <3>3. s.by = q /\ s.got = Shared!Of(f) /\ s.got.born = flFile[f].born /\ s.got.file = q.want.file
      BY <1>2, <3>1 DEF Shared!Of
    <3>4. q.check = "exact" => s.got = [file |-> q.want.file, content |-> q.want.content, born |-> q.want.born]
      BY <1>2, <2>2, <3>3 DEF Shared!Rechecked, Shared!Matches
    <3>5. q.check = "signature" => IF q.want.until = 0 THEN s.got.born = q.want.born \/ s.got.born > q.since
                                   ELSE q.since < q.want.until
      BY <1>2, <1>4, <2>2, <3>3 DEF ResolvedStill
    <3>6. q.check = "date" => s.got.born <= q.made \/ s.got.born > q.since
      BY <1>2, <1>4, <2>2, <3>3 DEF ResolvedStill
    <3>7. q.check \in {"exact", "signature", "date"}
      BY <1>4, FollowingIs
    <3> QED BY <3>2, <3>3, <3>4, <3>5, <3>6, <3>7 DEF Shared!ServedExactly
  <2> QED BY <2>1, <2>2
<1>6. generic' \in Seq(GenericRows) /\ GenericsFit' /\ KeysFit'
  BY <1>3, GenericsStay
<1>7. CallFitsIn(Shared!Idle)
  BY IdleLinkIs DEF CallFitsIn
<1> QED BY <1>3, <1>5, <1>6, <1>7, IdleLinkIs, LinksMove

\* Where a round of the resolution leads to.
LEMMA ResolvedIs ==
  ASSUME LinksInv, NEW u \in LinkUrls, UrlFits(u)
  PROVE  \/ Shared!Resolved(u) = Shared!Refused
         \/ /\ Shared!Resolved(u) \in LinkUrls /\ UrlFits(Shared!Resolved(u))
            /\ Shared!Resolved(u).kind \in {"page", "file", "signed", "mail"}
<1> USE DEF LinksInv
<1>1. CASE u.kind = "public"
  <2>1. caps[u.n].file \in LinkedFiles
    BY <1>1, CapIs DEF UrlFits
  <2>2. PICK v : v = Shared!Url("file", caps[u.n].file)
    OBVIOUS
  <2>3. v \in LinkUrls /\ UrlFits(v) /\ v.kind = "file"
    BY <2>1, <2>2 DEF LinkUrls, LinkKinds, Shared!Url, UrlFits
  <2>4. Shared!Resolved(u) = v \/ Shared!Resolved(u) = Shared!Refused
    BY <1>1, <2>2 DEF Shared!Resolved
  <2> QED BY <2>3, <2>4
<1>2. CASE u.kind = "generic"
  BY <1>2 DEF Shared!Resolved
<1>3. CASE u.kind = "mail"
  <2>1. u.n \in DOMAIN links
    BY <1>3 DEF UrlFits
  <2>2. PICK v \in LinkUrls : v = links[u.n].to
    BY <2>1, LinkIs
  <2>3. UrlFits(v) /\ v.kind \in {"page", "file", "signed", "mail"}
    BY <2>1, <2>2 DEF LinksFit, LinkFits
  <2>4. links[u.n].cap \in Nat
    BY <2>1, LinkIs
  <2>5. Shared!Resolved(u) = v \/ Shared!Resolved(u) = Shared!Refused
    BY <1>3, <2>2, <2>3, <2>4 DEF Shared!Resolved
  <2> QED BY <2>3, <2>5
<1>4. CASE u.kind \in {"page", "file", "signed"}
  BY <1>4 DEF Shared!Resolved
<1>5. u.kind \in LinkKinds
  BY UrlIs
<1> QED BY <1>1, <1>2, <1>3, <1>4, <1>5 DEF LinkKinds

\* One round: the message is refused, or taken up, or what is in it leads to another link.
LEMMA LinksHop ==
  ASSUME LinksInv, NEW c \in Threads, NEW anchor \in LinkUrls, NEW u \in LinkUrls, UrlFits(u), NEW left \in Nat,
         Shared!Hop(c, anchor, u, left), UNCHANGED <<flFile, flNow, caps, links, generic, flServed, flTold>>
  PROVE  LinksInv'
<1>1. PICK v : v = Shared!Resolved(u)
  OBVIOUS
<1>2. PICK again \in BOOLEAN : again = (left > 1 /\ v.kind \in {"mail", "generic", "public"})
  OBVIOUS
<1>3. generic' \in Seq(GenericRows) /\ GenericsFit' /\ KeysFit'
  BY GenericsStay
<1>4. Shared!ServedExactly'
  BY ServedStays
<1>5. CASE v = Shared!Refused \/ (Shared!Tracked(v) /\ ~again)
  <2>1. Shared!Goes(c, Shared!Idle)
    BY <1>1, <1>2, <1>5 DEF Shared!Hop, Shared!Refuses
  <2>2. CallFitsIn(Shared!Idle)
    BY IdleLinkIs DEF CallFitsIn
  <2> QED BY <1>3, <1>4, <2>1, <2>2, IdleLinkIs, LinksMove
<1>6. CASE ~(v = Shared!Refused \/ (Shared!Tracked(v) /\ ~again))
  <2>1. v \in LinkUrls /\ UrlFits(v) /\ v.kind \in {"page", "file", "signed", "mail"}
    BY <1>1, <1>6, ResolvedIs
  <2>2. CASE again
    <3>1. PICK x : x = [at |-> "detrack", anchor |-> anchor, url |-> v, left |-> left - 1]
      OBVIOUS
    <3>2. left - 1 \in Nat
      <4>1. left > 1
        BY <1>2, <2>2
      <4> QED BY <4>1
    <3>3. x \in LinkCalls /\ x.at = "detrack" /\ x.url = v
      BY <2>1, <3>1, <3>2 DEF LinkCalls, Detrackings
    <3>4. CallFitsIn(x)
      BY <2>1, <3>3 DEF CallFitsIn
    <3>5. Shared!Goes(c, x)
      BY <1>1, <1>2, <1>6, <2>2, <3>1 DEF Shared!Hop
    <3> QED BY <1>3, <1>4, <3>3, <3>4, <3>5, LinksMove
  <2>3. CASE ~again
    <3>1. PICK x : x = [at |-> "instrument", to |-> v]
      OBVIOUS
    <3>2. v.kind \in {"page", "file", "signed"}
      BY <1>6, <2>1, <2>3 DEF Shared!Tracked
    <3>3. x \in LinkCalls /\ x.at = "instrument" /\ x.to = v
      BY <2>1, <3>1 DEF LinkCalls, Instrumentings
    <3>4. CallFitsIn(x)
      BY <2>1, <3>2, <3>3 DEF CallFitsIn
    <3>5. Shared!Goes(c, x)
      BY <1>1, <1>2, <1>6, <2>3, <3>1 DEF Shared!Hop
    <3> QED BY <1>3, <1>4, <3>3, <3>4, <3>5, LinksMove
  <2> QED BY <2>2, <2>3
<1> QED BY <1>5, <1>6

LEMMA LinksCompose ==
  ASSUME LinksInv, NEW c \in Threads, NEW u \in Shared!Anchors, Shared!Compose(c, u)
  PROVE  LinksInv'
<1>1. u \in LinkUrls /\ UrlFits(u)
  BY AnchorIs
<1>2. MaxChain \in Nat
  BY LinkConstants
<1>3. Shared!Hop(c, u, u, MaxChain) /\ UNCHANGED <<flFile, flNow, caps, links, generic, flServed, flTold>>
  BY DEF Shared!Compose, Shared!tables
<1> QED BY <1>1, <1>2, <1>3, LinksHop

LEMMA LinksDetrack == ASSUME LinksInv, NEW c \in Threads, Shared!Detrack(c) PROVE LinksInv'
<1>1. PICK x : x = flCall[c]
  OBVIOUS
<1>2. /\ x.at = "detrack" /\ Shared!Hop(c, x.anchor, x.url, x.left)
      /\ UNCHANGED <<flFile, flNow, caps, links, generic, flServed, flTold>>
  BY <1>1 DEF Shared!Detrack, Shared!tables
<1>3. x.anchor \in LinkUrls /\ x.url \in LinkUrls /\ x.left \in Nat /\ UrlFits(x.url)
  BY <1>1, <1>2, LinkCallOf, LinkCallIs DEF CallFitsIn
<1> QED BY <1>2, <1>3, LinksHop

LEMMA LinksInstrument == ASSUME LinksInv, NEW c \in Threads, Shared!Instrument(c) PROVE LinksInv'
<1>1. PICK to : to = flCall[c].to
  OBVIOUS
<1>2. /\ flCall[c].at = "instrument" /\ Shared!Goes(c, Shared!Idle)
      /\ UNCHANGED <<flFile, flNow, generic, flServed, flTold>>
  BY DEF Shared!Instrument
<1>3. to \in LinkUrls /\ UrlFits(to) /\ to.kind \in {"page", "file", "signed"}
  BY <1>1, <1>2, LinkCallOf, LinkCallIs DEF CallFitsIn
<1>4. /\ caps \in Seq(CapRows) /\ links \in Seq(LinkRows) /\ flCall \in [Threads -> LinkCalls] /\ flNow \in Nat
      /\ Len(caps) \in Nat
  BY DEF LinksInv, LinksTyped
<1>5. flCall' \in [Threads -> LinkCalls] /\ \A e \in Threads : flCall'[e] = flCall[e] \/ flCall'[e] = Shared!Idle
  BY <1>2, <1>4, IdleLinkIs DEF Shared!Goes
<1>6. \A e \in Threads : flCall'[e] = flCall[e] \/ CallFitsIn(flCall[e])'
  BY <1>5, IdleLinkIs DEF CallFitsIn
<1>7. \/ \E added : added = Shared!FileLink(to) /\ to.kind = "file" /\ caps' = Append(caps, Shared!Cap("private", to.n))
                  /\ links' = Append(links, added)
      \/ \E added : added = Shared!PageLink(to) /\ caps' = caps /\ links' = Append(links, added)
      \/ UNCHANGED <<caps, links>>
  BY <1>1 DEF Shared!Instrument
<1>8. CASE UNCHANGED <<caps, links>>
  BY <1>2, <1>4, <1>5, <1>6, <1>8, LinksGrow
<1>9. ASSUME NEW added, NEW cap \in Nat, added = [to |-> to, cap |-> cap, made |-> flNow], cap <= Len(caps'),
             caps' \in Seq(CapRows), Len(caps') \in Nat, Len(caps') >= Len(caps),
             links' = Append(links, added)
      PROVE  LinksInv'
  <2>1. added \in LinkRows
    BY <1>3, <1>4, <1>9 DEF LinkRows
  <2>2. PICK n : n = Len(links) + 1
    OBVIOUS
  <2>3. /\ links' \in Seq(LinkRows) /\ DOMAIN links \subseteq DOMAIN links' /\ DOMAIN links' \ DOMAIN links = {n}
        /\ links'[n] = added /\ \A m \in DOMAIN links : links'[m] = links[m]
    BY <1>4, <1>9, <2>1, <2>2
  <2>4. DOMAIN caps \subseteq DOMAIN caps'
    BY <1>4, <1>9
  <2>5. UrlFits(to)'
    BY <1>3, <2>3, <2>4 DEF UrlFits
  <2>6. added.to = to /\ added.cap = cap
    BY <1>9
  <2>7. LinkFits(n)'
    BY <1>3, <1>9, <2>3, <2>5, <2>6 DEF LinkFits, UrlFits
  <2> QED BY <1>2, <1>5, <1>6, <1>9, <2>3, <2>7, LinksGrow
<1>10. CASE \E added : added = Shared!FileLink(to) /\ to.kind = "file" /\ links' = Append(links, added)
                     /\ caps' = Append(caps, Shared!Cap("private", to.n))
  <2>1. PICK added : added = Shared!FileLink(to) /\ to.kind = "file" /\ links' = Append(links, added)
                   /\ caps' = Append(caps, Shared!Cap("private", to.n))
    BY <1>10
  <2>2. to.n \in LinkedFiles
    BY <1>3, <2>1 DEF UrlFits
  <2>3. Shared!Cap("private", to.n) \in CapRows
    <3>1. PICK x, b : x = flFile[to.n].content /\ b = flFile[to.n].born
      OBVIOUS
    <3>2. x \in LinkedContents \cup {NoContent} /\ b \in Nat
      BY <2>2, <3>1, FileIs DEF LinksInv
    <3>3. Shared!Cap("private", to.n) = [form |-> "private", file |-> to.n, content |-> x, born |-> b, until |-> 0]
      BY <3>1 DEF Shared!Cap
    <3> QED BY <2>2, <3>2, <3>3 DEF CapRows
  <2>4. caps' \in Seq(CapRows) /\ Len(caps') = Len(caps) + 1
    BY <1>4, <2>1, <2>3
  <2>5. PICK cap : cap = Len(caps) + 1
    OBVIOUS
  <2>6. cap \in Nat /\ cap <= Len(caps') /\ Len(caps') \in Nat /\ Len(caps') >= Len(caps)
    BY <1>4, <2>4, <2>5
  <2>7. added = [to |-> to, cap |-> cap, made |-> flNow]
    BY <2>1, <2>5 DEF Shared!FileLink, Shared!Link
  <2> QED BY <1>9, <2>1, <2>4, <2>6, <2>7
<1>11. CASE \E added : added = Shared!PageLink(to) /\ caps' = caps /\ links' = Append(links, added)
  <2>1. PICK added : added = Shared!PageLink(to) /\ caps' = caps /\ links' = Append(links, added)
    BY <1>11
  <2>2. added = [to |-> to, cap |-> 0, made |-> flNow]
    BY <2>1 DEF Shared!PageLink, Shared!Link
  <2> QED BY <1>4, <1>9, <2>1, <2>2
<1> QED BY <1>7, <1>8, <1>10, <1>11

LEMMA LinksKeeps == ASSUME LinksInv, Shared!Next PROVE LinksInv'
<1>1. ASSUME NEW f \in LinkedFiles, Shared!Store(f) PROVE LinksInv'
  <2>1. ASSUME NEW x \in LinkedContents, Shared!Save(f, x) PROVE LinksInv'
    BY <2>1, LinksSave
  <2>2. CASE Shared!Delete(f)
    BY <2>2, LinksDelete
  <2>3. CASE Shared!SharePublic(f) \/ Shared!ShareSigned(f)
    BY <2>3, LinksShare DEF Shared!SharePublic, Shared!ShareSigned
  <2>4. CASE Shared!ShareExpiring(f)
    BY <2>4, LinksShareExpiring
  <2> QED BY <1>1, <2>1, <2>2, <2>3, <2>4 DEF Shared!Store
<1>2. ASSUME NEW n \in DOMAIN generic, Shared!Revoke(n) PROVE LinksInv'
  BY <1>2, LinksRevoke
<1>3. ASSUME NEW c \in Threads, Shared!Ask(c) PROVE LinksInv'
  <2>1. ASSUME NEW l \in Labels, NEW k \in LinkKeys, NEW p \in Pages, Shared!Create(c, "url", p, l, k) PROVE LinksInv'
    BY <2>1, LinksCreate
  <2>2. ASSUME NEW l \in Labels, NEW k \in LinkKeys, NEW f \in LinkedFiles, Shared!Create(c, "file", f, l, k) PROVE LinksInv'
    BY <2>2, LinksCreate
  <2>3. ASSUME NEW u \in Shared!Anchors, Shared!Follow(c, u) PROVE LinksInv'
    BY <2>3, LinksFollow
  <2>4. ASSUME NEW u \in Shared!Anchors, Shared!Compose(c, u) PROVE LinksInv'
    BY <2>4, LinksCompose
  <2> QED BY <1>3, <2>1, <2>2, <2>3, <2>4 DEF Shared!Ask
<1>4. ASSUME NEW c \in Threads, Shared!Work(c) PROVE LinksInv'
  BY <1>4, LinksInsert, LinksResolve, LinksRead, LinksDetrack, LinksInstrument DEF Shared!Work
<1> QED BY <1>1, <1>2, <1>3, <1>4, LinksTick DEF Shared!Next

LEMMA LinksStart == Shared!Init => LinksInv
<1> SUFFICES ASSUME Shared!Init PROVE LinksInv
  OBVIOUS
<1>1. /\ flFile = [f \in LinkedFiles |-> Shared!Gone] /\ flNow = 0 /\ caps = <<>> /\ links = Historic /\ generic = <<>>
      /\ flCall = [c \in Threads |-> Shared!Idle] /\ flServed = {} /\ flTold = {}
  BY DEF Shared!Init
<1>2. Shared!Gone \in [content : LinkedContents \cup {NoContent}, born : Nat]
  BY DEF Shared!Gone
<1>3. caps \in Seq(CapRows) /\ links \in Seq(LinkRows) /\ generic \in Seq(GenericRows) /\ Len(caps) = 0
  BY <1>1, LinkConstants
<1>4. LinksTyped
  BY <1>1, <1>2, <1>3, IdleLinkIs DEF LinksTyped
<1>5. ASSUME NEW n \in DOMAIN links PROVE LinkFits(n)
  <2>1. /\ n \in 1..Len(Historic) /\ links[n].cap = 0 /\ links[n].to.kind \in {"mail", "page", "file"}
        /\ links[n].to.kind = "mail" => links[n].to.n \in DOMAIN links
    BY <1>1, LinkConstants
  <2>2. links[n].to.kind = "file" => links[n].to.n \in LinkedFiles
    BY <1>1, LinkConstants
  <2>3. Len(Historic) \in Nat /\ ~(n > Len(Historic))
    BY <2>1, LinkConstants
  <2>4. UrlFits(links[n].to)
    BY <2>1, <2>2 DEF UrlFits
  <2> QED BY <1>3, <2>1, <2>3, <2>4 DEF LinkFits
<1>6. LinksFit /\ GenericsFit /\ KeysFit
  BY <1>1, <1>5 DEF LinksFit, GenericsFit, KeysFit
<1>7. \A c \in Threads : CallFitsIn(flCall[c])
  BY <1>1, IdleLinkIs DEF CallFitsIn
<1>8. Shared!ServedExactly
  BY <1>1 DEF Shared!ServedExactly
<1> QED BY <1>4, <1>6, <1>7, <1>8 DEF LinksInv

LEMMA LinksTurns == LinksInv /\ [AllNext]_allVars => LinksInv'
<1> SUFFICES ASSUME LinksInv, [AllNext]_allVars PROVE LinksInv'
  OBVIOUS
<1>1. CASE Shared!Next
  BY <1>1, LinksKeeps
<1>2. CASE UNCHANGED linksVars
  <2>1. UNCHANGED <<flFile, flNow, caps, links, generic, flCall, flServed, flTold>>
    BY <1>2 DEF linksVars
  <2>2. /\ flNow \in Nat /\ flCall \in [Threads -> LinkCalls]
        /\ flFile \in [LinkedFiles -> [content : LinkedContents \cup {NoContent}, born : Nat]]
    BY DEF LinksInv, LinksTyped
  <2> QED BY <2>1, <2>2, LinksFiles
<1> QED BY <1>1, <1>2 DEF AllNext, allVars

LEMMA LinksShow == LinksInv => LinksSafety
<1> SUFFICES ASSUME LinksInv PROVE Shared!ServedExactly /\ Shared!KeyMakesOneLink /\ Shared!NeverThroughAnother
  BY DEF LinksSafety
<1>1. Shared!ServedExactly
  BY DEF LinksInv
<1>2. Shared!KeyMakesOneLink
  <2> SUFFICES ASSUME NEW s \in flTold, NEW t \in flTold, s.intent.key = t.intent.key PROVE s = t
    BY DEF Shared!KeyMakesOneLink
  <2>1. /\ s.intent.key # NoKey /\ s.link \in DOMAIN generic
        /\ s = [intent |-> Shared!Intent(generic[s.link]), link |-> s.link]
    BY DEF LinksInv, KeysFit
  <2>2. /\ t.link \in DOMAIN generic
        /\ t = [intent |-> Shared!Intent(generic[t.link]), link |-> t.link]
    BY DEF LinksInv, KeysFit
  <2>3. generic[s.link] \in GenericRows /\ generic[t.link] \in GenericRows
    BY <2>1, <2>2, GenericIs DEF LinksInv
  <2>4. s.intent = Shared!Intent(generic[s.link]) /\ t.intent = Shared!Intent(generic[t.link])
    BY <2>1, <2>2
  <2>5. generic[s.link].key = s.intent.key /\ generic[t.link].key = t.intent.key
    BY <2>3, <2>4, GenericRowIs
  <2>6. s.link = t.link
    BY <2>1, <2>2, <2>5 DEF LinksInv, KeysFit
  <2> QED BY <2>1, <2>2, <2>6
<1>3. Shared!NeverThroughAnother
  BY DEF LinksInv, LinksFit, LinkFits, Shared!NeverThroughAnother, Shared!Tracked
<1> QED BY <1>1, <1>2, <1>3

\* Whoever follows a link is sent the incarnation it was made for, though files are deleted and
\* saved again, links revoked and messages composed meanwhile, by any number of threads; a URL
\* that expires is made for an id, and serves what is stored there until then, and never later; two
\* creations under a key have one link; and no link made for a message leads through another.
THEOREM LinksHold == AllSpec => []LinksSafety
<1>1. AllInit => LinksInv
  BY LinksStart DEF AllInit
<1> QED BY <1>1, LinksShow, LinksTurns, PTL DEF AllSpec

-----------------------------------------------------------------------------
(***************************************************************************)
(* Retrieval: what a filter keeps of a sequence.                           *)
(***************************************************************************)

LEMMA LeastIs ==
  ASSUME NEW W \in SUBSET Nat, W # {}
  PROVE  \E x \in W : \A y \in W : x <= y
<1>1. PICK m \in W : \A n \in W : ~(<<n, m>> \in OpToRel(<, Nat))
  BY WFMin, NatLessThanWellFounded
<1>2. \A n \in W : ~(n < m)
  BY <1>1 DEF OpToRel
<1> QED BY <1>2

LEMMA GreatestIs ==
  ASSUME NEW n \in Nat, NEW W \in SUBSET (1..n), W # {}
  PROVE  Retrieval!Max(W) \in W /\ \A x \in W : x <= Retrieval!Max(W)
<1> DEFINE rests == {k \in Nat : \E x \in W : k = n - x}
<1>1. \A x \in W : n - x \in rests
  OBVIOUS
<1>2. PICK k \in rests : \A l \in rests : k <= l
  <2>1. rests \in SUBSET Nat /\ rests # {}
    BY <1>1
  <2> HIDE DEF rests
  <2> QED BY <2>1, LeastIs
<1>3. PICK x \in W : k = n - x
  OBVIOUS
<1>4. \A y \in W : x >= y
  BY <1>1, <1>2, <1>3
<1> QED BY <1>4 DEF Retrieval!Max

\* One element more goes through the filter.
Keeping(kept, i, S) == IF i \in S THEN Append(kept, i) ELSE kept

\* The filter of a sequence is defined on all sets of its indices.
Filters(g, s, S, n) ==
  g = [t \in SUBSET (1..n) |->
         IF t = {} THEN <<>> ELSE Keeping(g[t \ {Retrieval!Max(t)}], s[Retrieval!Max(t)], S)]

LEMMA FilterExists == ASSUME NEW s, NEW S PROVE \A n \in Nat : \E g : Filters(g, s, S, n)
<1> DEFINE bad == {n \in Nat : ~\E g : Filters(g, s, S, n)}
<1> SUFFICES ASSUME bad # {} PROVE FALSE
  OBVIOUS
<1>1. PICK n \in bad : \A m \in bad : n <= m
  <2> HIDE DEF bad
  <2>1. bad \in SUBSET Nat
    BY DEF bad
  <2> QED BY <2>1, LeastIs
<1> DEFINE Taken(v, t) == Keeping(v, s[Retrieval!Max(t)], S)
<1>2. CASE n = 0
  <2> DEFINE g == [t \in SUBSET (1..0) |-> <<>>]
  <2>1. \A t \in SUBSET (1..0) : t = {}
    OBVIOUS
  <2>2. Filters(g, s, S, 0)
    BY <2>1 DEF Filters
  <2> QED BY <1>2, <2>2
<1>3. CASE n # 0
  <2>1. n \in Nat /\ n - 1 \in Nat /\ n - 1 \notin bad
    BY <1>1, <1>3
  <2>2. PICK g : Filters(g, s, S, n - 1)
    BY <2>1
  <2> DEFINE fewer == SUBSET (1..(n - 1))
  <2> DEFINE sets == SUBSET (1..n)
  <2>3. g = [t \in fewer |-> IF t = {} THEN <<>> ELSE Taken(g[t \ {Retrieval!Max(t)}], t)]
    BY <2>2 DEF Filters
  <2> DEFINE h == [t \in sets |-> IF t = {} THEN <<>> ELSE Taken(g[t \ {Retrieval!Max(t)}], t)]
  <2>4. \A t \in sets : t # {} => t \ {Retrieval!Max(t)} \in fewer
    <3> SUFFICES ASSUME NEW t \in sets, t # {}, NEW x \in t, x # Retrieval!Max(t) PROVE x \in 1..(n - 1)
      OBVIOUS
    <3>1. Retrieval!Max(t) \in 1..n /\ x \in 1..n /\ x <= Retrieval!Max(t)
      BY <2>1, GreatestIs
    <3> QED BY <3>1, <2>1
  <2>5. fewer \subseteq sets
    BY <2>1
  <2> HIDE DEF Taken, fewer, sets
  <2>6. \A t \in fewer : h[t] = g[t]
    BY <2>3, <2>5
  <2>7. h = [t \in sets |-> IF t = {} THEN <<>> ELSE Taken(h[t \ {Retrieval!Max(t)}], t)]
    BY <2>4, <2>6
  <2> HIDE DEF h
  <2>8. Filters(h, s, S, n)
    BY <2>7 DEF Filters, Taken, sets
  <2> QED BY <2>8
<1> QED BY <1>2, <1>3

\* The filter goes through a sequence one element after the other.
LEMMA FilterTrace ==
  ASSUME NEW s, NEW S, NEW n \in Nat, DOMAIN s = 1..n
  PROVE  \E h : /\ h[0] = <<>> /\ h[n] = Retrieval!Only(s, S)
                /\ \A k \in 1..n : h[k] = Keeping(h[k - 1], s[k], S)
<1> DEFINE g == CHOOSE g : g = [t \in SUBSET (1..n) |->
         IF t = {} THEN <<>> ELSE Keeping(g[t \ {Retrieval!Max(t)}], s[Retrieval!Max(t)], S)]
<1>1. Retrieval!Only(s, S) = g[1..n]
  BY DEF Retrieval!Only, Retrieval!FoldLeft, Retrieval!MapThenFoldSet, Keeping
<1>2. Filters(g, s, S, n)
  <2>1. \E f : Filters(f, s, S, n)
    BY FilterExists
  <2> QED BY <2>1 DEF Filters
<1> HIDE DEF g
<1> DEFINE h == [k \in 0..n |-> g[1..k]]
<1>3. h[0] = <<>>
  <2>1. 1..0 = {} /\ {} \in SUBSET (1..n)
    OBVIOUS
  <2> QED BY <1>2, <2>1 DEF Filters
<1>4. h[n] = Retrieval!Only(s, S)
  BY <1>1
<1>5. ASSUME NEW k \in 1..n PROVE h[k] = Keeping(h[k - 1], s[k], S)
  <2>1. 1..k \in SUBSET (1..n) /\ k \in 1..k /\ k - 1 \in 0..n /\ k \in 0..n
    OBVIOUS
  <2>2. Retrieval!Max(1..k) = k
    <3>1. Retrieval!Max(1..k) \in 1..k /\ k <= Retrieval!Max(1..k)
      BY <2>1, GreatestIs
    <3> QED BY <3>1
  <2>3. (1..k) \ {k} = 1..(k - 1)
    OBVIOUS
  <2>4. g[1..k] = Keeping(g[(1..k) \ {k}], s[k], S)
    BY <1>2, <2>1, <2>2 DEF Filters
  <2> QED BY <2>1, <2>3, <2>4
<1> QED BY <1>3, <1>4, <1>5


\* What the filter keeps of the first n elements: some of them, and none only when there is none;
\* what it keeps first comes first.
Filtered(kept, s, S, X, n) ==
  /\ kept \in Seq(X)
  /\ \A j \in 1..Len(kept) : \E k \in 1..n : kept[j] = s[k] /\ s[k] \in S
  /\ kept = <<>> => \A k \in 1..n : s[k] \notin S
  /\ kept # <<>> => \E k \in 1..n : kept[1] = s[k] /\ s[k] \in S /\ \A m \in 1..(k - 1) : s[m] \notin S

LEMMA OneMoreFiltered ==
  ASSUME NEW X, NEW n \in Nat, NEW s, NEW S, NEW kept, Filtered(kept, s, S, X, n), s[n + 1] \in X
  PROVE  Filtered(Keeping(kept, s[n + 1], S), s, S, X, n + 1)
<1>0. kept \in Seq(X) /\ Len(kept) \in Nat /\ n + 1 \in 1..(n + 1) /\ 1..n \subseteq 1..(n + 1) /\ 1..((n + 1) - 1) = 1..n
  BY DEF Filtered
<1>1. CASE s[n + 1] \notin S
  <2>1. Keeping(kept, s[n + 1], S) = kept
    BY <1>1 DEF Keeping
  <2>2. \A k \in 1..(n + 1) : k \in 1..n \/ k = n + 1
    OBVIOUS
  <2> QED BY <1>0, <1>1, <2>1, <2>2 DEF Filtered
<1>2. CASE s[n + 1] \in S
  <2> DEFINE more == Append(kept, s[n + 1])
  <2>1. Keeping(kept, s[n + 1], S) = more
    BY <1>2 DEF Keeping
  <2>2. /\ more \in Seq(X) /\ Len(more) = Len(kept) + 1 /\ more[Len(kept) + 1] = s[n + 1]
        /\ \A j \in 1..Len(kept) : more[j] = kept[j]
    BY <1>0
  <2>3. more # <<>>
    BY <2>2, <1>0
  <2> HIDE DEF more
  <2>4. \A j \in 1..Len(more) : \E k \in 1..(n + 1) : more[j] = s[k] /\ s[k] \in S
    <3> SUFFICES ASSUME NEW j \in 1..Len(more) PROVE \E k \in 1..(n + 1) : more[j] = s[k] /\ s[k] \in S
      OBVIOUS
    <3>1. CASE j \in 1..Len(kept)
      BY <3>1, <2>2, <1>0 DEF Filtered
    <3>2. CASE j = Len(kept) + 1
      BY <3>2, <2>2, <1>0, <1>2
    <3> QED BY <3>1, <3>2, <2>2, <1>0
  <2>5. \E k \in 1..(n + 1) : more[1] = s[k] /\ s[k] \in S /\ \A m \in 1..(k - 1) : s[m] \notin S
    <3>1. CASE kept = <<>>
      <4>1. Len(kept) = 0
        BY <3>1
      <4> QED BY <4>1, <3>1, <2>2, <1>0, <1>2 DEF Filtered
    <3>2. CASE kept # <<>>
      <4>1. 1 \in 1..Len(kept)
        BY <3>2, <1>0
      <4> QED BY <4>1, <3>2, <2>2, <1>0 DEF Filtered
    <3> QED BY <3>1, <3>2
  <2> QED BY <2>1, <2>2, <2>3, <2>4, <2>5 DEF Filtered
<1> QED BY <1>1, <1>2

LEMMA OnlyIs ==
  ASSUME NEW X, NEW s \in Seq(X), NEW S
  PROVE  Filtered(Retrieval!Only(s, S), s, S, X, Len(s))
<1>0. Len(s) \in Nat /\ DOMAIN s = 1..Len(s) /\ \A k \in 1..Len(s) : s[k] \in X
  OBVIOUS
<1>1. PICK h : /\ h[0] = <<>> /\ h[Len(s)] = Retrieval!Only(s, S)
               /\ \A k \in 1..Len(s) : h[k] = Keeping(h[k - 1], s[k], S)
  BY <1>0, FilterTrace
<1> DEFINE bad == {k \in 0..Len(s) : ~Filtered(h[k], s, S, X, k)}
<1>2. ASSUME bad # {} PROVE FALSE
  <2>1. PICK k \in bad : \A m \in bad : k <= m
    <3>1. bad \in SUBSET Nat
      BY <1>0
    <3> HIDE DEF bad
    <3> QED BY <3>1, <1>2, LeastIs
  <2>2. k # 0
    <3>1. Filtered(<<>>, s, S, X, 0)
      <4>1. <<>> \in Seq(X) /\ Len(<<>>) = 0
        OBVIOUS
      <4> QED BY <4>1 DEF Filtered
    <3> QED BY <3>1, <2>1, <1>1
  <2>3. k - 1 \in Nat /\ k - 1 \in 0..Len(s) /\ k - 1 \notin bad /\ k \in 1..Len(s) /\ (k - 1) + 1 = k
    BY <2>1, <2>2, <1>0
  <2>4. Filtered(h[k - 1], s, S, X, k - 1)
    BY <2>3
  <2>5. Filtered(Keeping(h[k - 1], s[k], S), s, S, X, k)
    BY <2>3, <2>4, <1>0, OneMoreFiltered
  <2>6. Filtered(h[k], s, S, X, k)
    BY <2>3, <2>5, <1>1
  <2> QED BY <2>1, <2>6
<1>3. Filtered(h[Len(s)], s, S, X, Len(s))
  BY <1>0, <1>2
<1> QED BY <1>1, <1>3


-----------------------------------------------------------------------------
(***************************************************************************)
(* Retrieval: what a call has read is of the scopes it asked for, and what *)
(* always stands in a context comes first.                                 *)
(***************************************************************************)

AnyScope == Projects \cup {Global, Foreign, "none"}
Entry == [on : BOOLEAN, always : BOOLEAN, primary : AnyScope]

ScopedKinds == {"list", "search", "context"}
AskingCalls == [at : {"scope"}, kind : ScopedKinds, ask : Questions]
                 \cup [at : {"legacy"}, kind : {"global"}, ask : Questions]
ScopedCalls == {k \in [at : ScopedKinds, kind : ScopedKinds, ask : Questions, allowed : SUBSET Entries] : k.at = k.kind}
Packages ==
  [at : {"rescope", "rank", "assemble"}, kind : {"context", "global"}, ask : Questions, always : Seq(Entries),
   rest : Seq(Entries), allowed : SUBSET Entries, ranked : Seq(Entries), sources : Seq(Entries), used : Int]

RetrievalTyped ==
  /\ krItem \in [Entries -> Entry] /\ scopes \in [Entries -> SUBSET AnyScope]
  /\ wasIn \subseteq Entries /\ wasOn \subseteq Entries
  /\ krCall \in {Retrieval!Idle} \cup AskingCalls \cup ScopedCalls \cup Packages

\* What is read later in the call was in its scopes, or enabled, when the call read it.
CallSees == krCall # Retrieval!Idle => Retrieval!InScope(krCall.ask) \subseteq wasIn /\ Retrieval!On \subseteq wasOn

Hold(k) ==
  Retrieval!Range(k.always) \cup Retrieval!Range(k.ranked) \cup Retrieval!Range(k.rest)
    \cup Retrieval!Range(k.sources)

\* Sources of its own kind stand before all others of a package; without this the budget could be
\* spent before what always stands in it has its turn.
PinnedFirst(k) ==
  \/ Retrieval!Range(k.always) \subseteq Retrieval!Range(k.sources)
  \/ Retrieval!Range(k.sources) \subseteq Retrieval!Range(k.always)

CallHolds ==
  /\ krCall \in ScopedCalls => krCall.allowed \subseteq wasIn
  /\ krCall \in Packages =>
       /\ krCall.kind = "context" => Hold(krCall) \subseteq wasIn \cap wasOn
       /\ krCall.at = "rank" => krCall.allowed \subseteq wasIn
       /\ krCall.at \in {"rescope", "rank"} => krCall.kind = "context"
       /\ krCall.used <= Budget
       /\ PinnedFirst(krCall)

AnswerFits ==
  /\ krTold.sources \in Seq(Entries)
  /\ krCall = Retrieval!Idle /\ krTold.kind \in ScopedKinds =>
       /\ Retrieval!Range(krTold.sources) \subseteq wasIn
       /\ krTold.kind # "list" => Retrieval!Range(krTold.sources) \subseteq wasOn
  /\ Retrieval!AlwaysWithinBudget

PrimariesScoped == \A i \in Entries : Retrieval!Exists(i) => krItem[i].primary \in scopes[i]

RetrievalInv == RetrievalTyped /\ CallSees /\ CallHolds /\ AnswerFits /\ PrimariesScoped

LEMMA RetrievalConstants ==
  /\ IsFiniteSet(Entries)
  /\ FirstSaved \in [Entries -> [on : BOOLEAN, always : BOOLEAN, primary : Projects \cup {Global, Foreign}]]
  /\ \A ask \in Questions : ask.kind \in {"list", "search", "context", "global"}
  /\ EntrySize \in [Entries -> Nat] /\ TopN \in Nat /\ Limit \in Nat /\ Budget \in Nat /\ Least \in Nat
  /\ Cut \in Nat /\ Marker \in Nat /\ Least > 0 /\ Marker <= Cut
<1>1. Retrieval!RetrievalAssumption
  BY ApplicationAssumption
<1>2. Retrieval!IsFiniteSet(Entries) <=> IsFiniteSet(Entries)
  BY DEF Retrieval!IsFiniteSet, IsFiniteSet
<1> QED BY <1>1, <1>2 DEF Retrieval!RetrievalAssumption

LEMMA RangeIs ==
  ASSUME NEW X, NEW s \in Seq(X)
  PROVE  /\ Retrieval!Range(s) = {s[k] : k \in 1..Len(s)}
         /\ Retrieval!Range(s) \subseteq X
<1>1. DOMAIN s = 1..Len(s) /\ \A k \in 1..Len(s) : s[k] \in X
  OBVIOUS
<1> QED BY <1>1 DEF Retrieval!Range

LEMMA TakeIs ==
  ASSUME NEW X, NEW s \in Seq(X), NEW n \in Nat
  PROVE  /\ Retrieval!Take(s, n) \in Seq(X)
         /\ Retrieval!Range(Retrieval!Take(s, n)) \subseteq Retrieval!Range(s)
<1> DEFINE m == IF n < Len(s) THEN n ELSE Len(s)
<1>1. m \in Nat /\ m <= Len(s) /\ Len(s) \in Nat
  OBVIOUS
<1>2. Retrieval!Take(s, n) = SubSeq(s, 1, m)
  BY DEF Retrieval!Take
<1> HIDE DEF m
<1>3. SubSeq(s, 1, m) \in Seq(X) /\ Len(SubSeq(s, 1, m)) = m /\ \A k \in 1..m : SubSeq(s, 1, m)[k] = s[k]
  BY <1>1, SubSeqProperties, Z3
<1> DEFINE part == SubSeq(s, 1, m)
<1>4. Retrieval!Range(part) = {part[k] : k \in 1..m} /\ Retrieval!Range(s) = {s[k] : k \in 1..Len(s)}
  BY <1>3, RangeIs
<1>5. \A k \in 1..m : k \in 1..Len(s) /\ part[k] = s[k]
  BY <1>1, <1>3
<1> HIDE DEF part
<1>6. Retrieval!Range(part) \subseteq Retrieval!Range(s)
  BY <1>4, <1>5
<1> QED BY <1>2, <1>3, <1>6 DEF part

LEMMA KeptOnly ==
  ASSUME NEW X, NEW s \in Seq(X), NEW S
  PROVE  /\ Retrieval!Only(s, S) \in Seq(X)
         /\ Retrieval!Range(Retrieval!Only(s, S)) \subseteq Retrieval!Range(s) \cap S
BY OnlyIs, RangeIs DEF Filtered

LEMMA OrdersAre ==
  ASSUME NEW W \in SUBSET Entries, NEW s \in Retrieval!SetToSeqs(W)
  PROVE  s \in Seq(Entries) /\ Retrieval!Range(s) \subseteq W
<1>1. Cardinality(W) \in Nat /\ Retrieval!Cardinality(W) = Cardinality(W)
  BY RetrievalConstants, FS_Subset, FS_CardinalityType DEF Retrieval!Cardinality, Cardinality
<1>2. s \in [1..Cardinality(W) -> W]
  BY <1>1 DEF Retrieval!SetToSeqs
<1>3. s \in Seq(W)
  BY <1>1, <1>2
<1> QED BY <1>3, RangeIs

LEMMA SortedIs ==
  ASSUME NEW W \in SUBSET Entries, NEW s \in Retrieval!Sorted(W)
  PROVE  s \in Seq(Entries) /\ Retrieval!Range(s) \subseteq W
BY OrdersAre DEF Retrieval!Sorted


LEMMA PackageIs ==
  ASSUME NEW k \in Packages
  PROVE  /\ k.always \in Seq(Entries) /\ k.ranked \in Seq(Entries) /\ k.rest \in Seq(Entries) /\ k.sources \in Seq(Entries)
         /\ k.used \in Int /\ k.at \in {"rescope", "rank", "assemble"} /\ k.kind \in {"context", "global"}
         /\ k.ask \in Questions /\ k.allowed \subseteq Entries /\ k # Retrieval!Idle
         /\ k \notin ScopedCalls /\ k \notin AskingCalls
<1>1. /\ k.always \in Seq(Entries) /\ k.ranked \in Seq(Entries) /\ k.rest \in Seq(Entries) /\ k.sources \in Seq(Entries)
      /\ k.used \in Int /\ k.at \in {"rescope", "rank", "assemble"} /\ k.kind \in {"context", "global"}
      /\ k.ask \in Questions /\ k.allowed \subseteq Entries
  BY DEF Packages
<1> QED BY <1>1 DEF Retrieval!Idle, ScopedCalls, AskingCalls, ScopedKinds

LEMMA JoinedIs ==
  ASSUME NEW X, NEW s \in Seq(X), NEW t \in Seq(X)
  PROVE  /\ s \o t \in Seq(X) /\ Len(s \o t) = Len(s) + Len(t)
         /\ \A n \in 1..Len(s) : (s \o t)[n] = s[n]
         /\ \A n \in 1..Len(t) : (s \o t)[Len(s) + n] = t[n]
<1>0. PICK a \in Nat, b \in Nat : a = Len(s) /\ b = Len(t)
  OBVIOUS
<1> DEFINE all == s \o t
<1>1. /\ all \in Seq(X) /\ Len(all) = a + b
      /\ \A n \in 1..(a + b) : all[n] = IF n <= a THEN s[n] ELSE t[n - a]
  BY <1>0, ConcatProperties
<1> HIDE DEF all
<1>2. \A n \in 1..a : all[n] = s[n]
  BY <1>1
<1>3. \A n \in 1..b : all[a + n] = t[n]
  <2> SUFFICES ASSUME NEW n \in 1..b PROVE all[a + n] = t[n]
    OBVIOUS
  <2>1. a + n \in 1..(a + b) /\ ~(a + n <= a) /\ (a + n) - a = n
    OBVIOUS
  <2> QED BY <2>1, <1>1
<1> QED BY <1>0, <1>1, <1>2, <1>3 DEF all

\* What a filter keeps first of three sequences is of the first, unless it keeps nothing of that.
LEMMA FirstKept ==
  ASSUME NEW X, NEW s \in Seq(X), NEW t \in Seq(X), NEW r \in Seq(X), NEW S, NEW kept,
         kept = Retrieval!Only((s \o t) \o r, S)
  PROVE  /\ kept = <<>> => Retrieval!Range(s) \cap S = {}
         /\ kept # <<>> =>
              /\ Head(kept) \in S
              /\ Head(kept) \in Retrieval!Range(s) \cup Retrieval!Range(t) \cup Retrieval!Range(r)
              /\ Head(kept) \in Retrieval!Range(s) \/ Retrieval!Range(s) \cap S = {}
<1> DEFINE two == s \o t
<1> DEFINE all == two \o r
<1>1. two \in Seq(X) /\ all \in Seq(X)
  BY JoinedIs
<1>2. /\ \A n \in 1..Len(s) : two[n] = s[n]
      /\ \A n \in 1..Len(t) : two[Len(s) + n] = t[n]
      /\ Len(two) = Len(s) + Len(t)
  BY JoinedIs
<1>3. Filtered(kept, all, S, X, Len(all))
  BY <1>1, OnlyIs
<1> HIDE DEF two
<1>4. /\ \A n \in 1..Len(two) : all[n] = two[n]
      /\ \A n \in 1..Len(r) : all[Len(two) + n] = r[n]
      /\ Len(all) = Len(two) + Len(r)
  BY <1>1, JoinedIs
<1> HIDE DEF all
<1>5. PICK a \in Nat : a = Len(s)
  OBVIOUS
<1>6. PICK b \in Nat : b = Len(t)
  OBVIOUS
<1>7. PICK c \in Nat : c = Len(r)
  OBVIOUS
<1>8. \A n \in 1..a : all[n] = s[n]
  BY <1>2, <1>4, <1>5, <1>6
<1>9. \A n \in 1..b : all[a + n] = t[n]
  BY <1>2, <1>4, <1>5, <1>6
<1>10. \A n \in 1..c : all[a + b + n] = r[n]
  BY <1>2, <1>4, <1>5, <1>6, <1>7
<1>11. Len(all) = a + b + c
  BY <1>2, <1>4, <1>5, <1>6, <1>7
<1>12. /\ Retrieval!Range(s) = {s[n] : n \in 1..a} /\ Retrieval!Range(t) = {t[n] : n \in 1..b}
       /\ Retrieval!Range(r) = {r[n] : n \in 1..c}
  BY <1>5, <1>6, <1>7, RangeIs
<1>13. \A n \in 1..(a + b + c) :
         all[n] \in Retrieval!Range(s) \cup Retrieval!Range(t) \cup Retrieval!Range(r)
  <2> SUFFICES ASSUME NEW n \in 1..(a + b + c)
               PROVE  all[n] \in Retrieval!Range(s) \cup Retrieval!Range(t) \cup Retrieval!Range(r)
    OBVIOUS
  <2>1. CASE n \in 1..a
    BY <2>1, <1>8, <1>12
  <2>2. CASE n - a \in 1..b
    <3>1. all[a + (n - a)] = t[n - a] /\ a + (n - a) = n
      BY <2>2, <1>9
    <3> QED BY <3>1, <2>2, <1>12
  <2>3. CASE n - (a + b) \in 1..c
    <3>1. all[a + b + (n - (a + b))] = r[n - (a + b)] /\ a + b + (n - (a + b)) = n
      BY <2>3, <1>10
    <3> QED BY <3>1, <2>3, <1>12
  <2> QED BY <2>1, <2>2, <2>3
<1>14. CASE kept = <<>>
  <2>1. \A n \in 1..(a + b + c) : all[n] \notin S
    BY <1>3, <1>11, <1>14 DEF Filtered
  <2>2. \A n \in 1..a : s[n] \notin S
    BY <2>1, <1>8
  <2> QED BY <2>2, <1>12, <1>14
<1>15. CASE kept # <<>>
  <2>1. PICK n \in 1..(a + b + c) : kept[1] = all[n] /\ all[n] \in S /\ \A m \in 1..(n - 1) : all[m] \notin S
    BY <1>3, <1>11, <1>15 DEF Filtered
  <2>2. Head(kept) = kept[1]
    BY <1>3, <1>15 DEF Filtered
  <2>3. CASE n \in 1..a
    <3>1. kept[1] \in Retrieval!Range(s)
      BY <2>1, <2>3, <1>8, <1>12
    <3> QED BY <3>1, <2>1, <2>2, <1>15
  <2>4. CASE n > a
    <3>1. \A m \in 1..a : s[m] \notin S
      BY <2>1, <2>4, <1>8
    <3>2. Retrieval!Range(s) \cap S = {}
      BY <3>1, <1>12
    <3> QED BY <3>2, <2>1, <2>2, <1>13, <1>15
  <2> QED BY <2>3, <2>4
<1> QED BY <1>14, <1>15

\* What is left of a package to put in: its first is of what always stands in it, unless all of that is in.
LEMMA LeftIs ==
  ASSUME NEW k \in Packages
  PROVE  /\ Retrieval!Left(k) = <<>> => Retrieval!Range(k.always) \subseteq Retrieval!Range(k.sources)
         /\ Retrieval!Left(k) # <<>> =>
              /\ Head(Retrieval!Left(k)) \in Entries
              /\ Head(Retrieval!Left(k)) \in Hold(k) \ Retrieval!Range(k.sources)
              /\ Head(Retrieval!Left(k)) \in Retrieval!Range(k.always)
                   \/ Retrieval!Range(k.always) \subseteq Retrieval!Range(k.sources)
<1> DEFINE S == Entries \ Retrieval!Range(k.sources)
<1> DEFINE left == Retrieval!Left(k)
<1>1. /\ k.always \in Seq(Entries) /\ k.ranked \in Seq(Entries) /\ k.rest \in Seq(Entries)
  BY PackageIs
<1>2. left = Retrieval!Only((k.always \o k.ranked) \o k.rest, S)
  BY DEF Retrieval!Left, Retrieval!Order
<1> HIDE DEF left
<1>3. /\ left = <<>> => Retrieval!Range(k.always) \cap S = {}
      /\ left # <<>> =>
           /\ Head(left) \in S
           /\ Head(left) \in Retrieval!Range(k.always) \cup Retrieval!Range(k.ranked) \cup Retrieval!Range(k.rest)
           /\ Head(left) \in Retrieval!Range(k.always) \/ Retrieval!Range(k.always) \cap S = {}
  <2> HIDE DEF S
  <2> QED BY <1>1, <1>2, FirstKept
<1>4. Retrieval!Range(k.always) \subseteq Entries
  BY <1>1, RangeIs
<1> QED BY <1>3, <1>4 DEF left, Hold


KnownCalls == {Retrieval!Idle} \cup AskingCalls \cup ScopedCalls \cup Packages

\* What a call that goes on as r has in hand.
Carries(r) ==
  /\ r \in ScopedCalls => r.allowed \subseteq wasIn
  /\ r \in Packages =>
       /\ r.kind = "context" => Hold(r) \subseteq wasIn \cap wasOn
       /\ r.at = "rank" => r.allowed \subseteq wasIn
       /\ r.at \in {"rescope", "rank"} => r.kind = "context"
       /\ r.used <= Budget
       /\ PinnedFirst(r)

LEMMA KnownAre ==
  ASSUME NEW k \in KnownCalls
  PROVE  /\ k # Retrieval!Idle <=> k \in AskingCalls \cup ScopedCalls \cup Packages
         /\ k \in AskingCalls => k.at \in {"scope", "legacy"} /\ k.ask \in Questions
              /\ (k.at = "scope" => k.kind \in ScopedKinds) /\ (k.at = "legacy" => k.kind = "global")
         /\ k \in ScopedCalls => k.at \in ScopedKinds /\ k.kind = k.at /\ k.ask \in Questions /\ k.allowed \subseteq Entries
         /\ k \in Packages => k.at \in {"rescope", "rank", "assemble"} /\ k.ask \in Questions
         /\ k.at \in {"scope", "legacy"} => k \in AskingCalls
         /\ k.at \in ScopedKinds => k \in ScopedCalls
         /\ k.at \in {"rescope", "rank", "assemble"} => k \in Packages
<1>1. k = Retrieval!Idle => k.at = "idle"
  BY DEF Retrieval!Idle
<1>2. k \in AskingCalls => k.at \in {"scope", "legacy"} /\ k.ask \in Questions
              /\ (k.at = "scope" => k.kind \in ScopedKinds) /\ (k.at = "legacy" => k.kind = "global")
  BY DEF AskingCalls
<1>3. k \in ScopedCalls => k.at \in ScopedKinds /\ k.kind = k.at /\ k.ask \in Questions /\ k.allowed \subseteq Entries
  BY DEF ScopedCalls
<1>4. k \in Packages => k.at \in {"rescope", "rank", "assemble"} /\ k.ask \in Questions
  BY DEF Packages
<1> QED BY <1>1, <1>2, <1>3, <1>4 DEF KnownCalls, ScopedKinds

LEMMA InvKnows == ASSUME RetrievalInv PROVE krCall \in KnownCalls
BY DEF RetrievalInv, RetrievalTyped, KnownCalls

LEMMA InvCarries == ASSUME RetrievalInv PROVE Carries(krCall)
BY DEF RetrievalInv, CallHolds, Carries

LEMMA RetrievalGoes ==
  ASSUME RetrievalInv, krCall # Retrieval!Idle, NEW r \in KnownCalls, r # Retrieval!Idle, r.ask = krCall.ask, Carries(r),
         Retrieval!Goes(r)
  PROVE  RetrievalInv'
<1>1. /\ krCall' = r /\ krTold' = krTold /\ krItem' = krItem /\ scopes' = scopes
      /\ wasIn' = wasIn /\ wasOn' = wasOn
  BY DEF Retrieval!Goes, Retrieval!Beside, Retrieval!stores, Retrieval!seen
<1>2. RetrievalTyped'
  BY <1>1 DEF RetrievalInv, RetrievalTyped, KnownCalls
<1>3. Retrieval!InScope(r.ask) \subseteq wasIn /\ Retrieval!On \subseteq wasOn
  BY DEF RetrievalInv, CallSees
<1>4. CallSees'
  BY <1>1, <1>3 DEF CallSees, Retrieval!InScope, Retrieval!InScopeBy, Retrieval!On
<1>5. CallHolds'
  BY <1>1 DEF Carries, CallHolds
<1>6. AnswerFits'
  <2>1. Retrieval!AlwaysWithinBudget'
    BY <1>1 DEF RetrievalInv, AnswerFits, Retrieval!AlwaysWithinBudget, Retrieval!Sources
  <2>2. krTold.sources \in Seq(Entries) /\ krTold'.sources = krTold.sources
    BY <1>1 DEF RetrievalInv, AnswerFits
  <2>3. krCall' # Retrieval!Idle
    BY <1>1
  <2> QED BY <2>1, <2>2, <2>3 DEF AnswerFits
<1>7. PrimariesScoped'
  BY <1>1 DEF RetrievalInv, PrimariesScoped, Retrieval!Exists
<1> QED BY <1>2, <1>4, <1>5, <1>6, <1>7 DEF RetrievalInv

LEMMA RetrievalAnswers ==
  ASSUME RetrievalInv, NEW sources \in Seq(Entries), NEW always, NEW spent,
         Retrieval!Answers(sources, always, spent),
         krCall.kind \in ScopedKinds =>
           /\ Retrieval!Range(sources) \subseteq wasIn
           /\ krCall.kind # "list" => Retrieval!Range(sources) \subseteq wasOn,
         krCall.kind \in {"context", "global"} =>
           /\ spent <= Budget
           /\ \/ always \subseteq Retrieval!Range(sources)
              \/ Budget - spent < Least /\ Retrieval!Range(sources) \subseteq always
  PROVE  RetrievalInv'
<1>1. /\ krCall' = Retrieval!Idle /\ krItem' = krItem /\ scopes' = scopes
      /\ krTold' = [kind |-> krCall.kind, ask |-> krCall.ask, sources |-> sources, always |-> always, used |-> spent]
      /\ wasIn' = wasIn /\ wasOn' = wasOn
  BY DEF Retrieval!Answers, Retrieval!Beside, Retrieval!stores, Retrieval!seen
<1>2. /\ krTold'.kind = krCall.kind /\ krTold'.sources = sources /\ krTold'.always = always /\ krTold'.used = spent
  BY <1>1
<1>3. RetrievalTyped'
  BY <1>1 DEF RetrievalInv, RetrievalTyped
<1>4. CallSees'
  BY <1>1 DEF CallSees
<1>5. CallHolds'
  <2>1. krCall' \notin ScopedCalls /\ krCall' \notin Packages
    BY <1>1 DEF Retrieval!Idle, ScopedCalls, ScopedKinds, Packages
  <2> QED BY <2>1 DEF CallHolds
<1>6. AnswerFits'
  <2>1. Retrieval!AlwaysWithinBudget'
    BY <1>2 DEF Retrieval!AlwaysWithinBudget, Retrieval!Sources
  <2> QED BY <1>1, <1>2, <2>1 DEF AnswerFits
<1>7. PrimariesScoped'
  BY <1>1 DEF RetrievalInv, PrimariesScoped, Retrieval!Exists
<1> QED BY <1>3, <1>4, <1>5, <1>6, <1>7 DEF RetrievalInv

LEMMA RetrievalSaved ==
  ASSUME RetrievalInv, NEW items \in [Entries -> Entry], NEW rows2 \in [Entries -> SUBSET AnyScope],
         Retrieval!Saved(items, rows2),
         \A i \in Entries : items[i] # Retrieval!Gone => items[i].primary \in rows2[i]
  PROVE  RetrievalInv'
<1>1. /\ krCall' = krCall /\ krTold' = krTold /\ krItem' = items /\ scopes' = rows2
      /\ wasIn' = (IF krCall = Retrieval!Idle THEN wasIn ELSE wasIn \cup Retrieval!InScopeBy(rows2, krCall.ask))
      /\ wasOn' = wasOn \cup Retrieval!On'
  BY DEF Retrieval!Saved
<1>2. wasIn \subseteq wasIn' /\ wasOn \subseteq wasOn' /\ Retrieval!On' \subseteq Entries
      /\ (krCall = Retrieval!Idle => wasIn' = wasIn) /\ wasIn' \subseteq wasIn \cup Entries
  BY <1>1 DEF Retrieval!On, Retrieval!InScopeBy
<1>3. RetrievalTyped'
  BY <1>1, <1>2 DEF RetrievalInv, RetrievalTyped
<1>4. CallSees'
  BY <1>1 DEF CallSees, Retrieval!InScope, Retrieval!InScopeBy
<1>5. CallHolds'
  BY <1>1, <1>2 DEF RetrievalInv, CallHolds
<1>6. AnswerFits'
  <2>1. Retrieval!AlwaysWithinBudget'
    BY <1>1 DEF RetrievalInv, AnswerFits, Retrieval!AlwaysWithinBudget, Retrieval!Sources
  <2> QED BY <1>1, <1>2, <2>1 DEF RetrievalInv, AnswerFits
<1>7. PrimariesScoped'
  BY <1>1 DEF PrimariesScoped, Retrieval!Exists
<1> QED BY <1>3, <1>4, <1>5, <1>6, <1>7 DEF RetrievalInv


LEMMA RetrievalEdits ==
  ASSUME RetrievalInv, NEW i \in Entries,
         \/ Retrieval!Enable(i) \/ Retrieval!Include(i) \/ Retrieval!Delete(i)
         \/ \E S \in SUBSET Retrieval!Own : Retrieval!Rescope(i, S)
  PROVE  RetrievalInv'
<1>0. krItem \in [Entries -> Entry] /\ scopes \in [Entries -> SUBSET AnyScope] /\ PrimariesScoped /\ krItem[i] \in Entry
  BY DEF RetrievalInv, RetrievalTyped
<1>1. CASE Retrieval!Enable(i)
  <2> DEFINE items == [krItem EXCEPT ![i].on = ~krItem[i].on]
  <2>1. Retrieval!Saved(items, scopes) /\ Retrieval!Exists(i)
    BY <1>1 DEF Retrieval!Enable
  <2>2. items \in [Entries -> Entry] /\ items[i].primary = krItem[i].primary /\ \A j \in Entries \ {i} : items[j] = krItem[j]
    BY <1>0 DEF Entry
  <2> HIDE DEF items
  <2>3. \A j \in Entries : items[j] # Retrieval!Gone => items[j].primary \in scopes[j]
    BY <2>1, <2>2, <1>0 DEF PrimariesScoped, Retrieval!Exists
  <2> QED BY <2>1, <2>2, <2>3, <1>0, RetrievalSaved
<1>2. CASE Retrieval!Include(i)
  <2> DEFINE items == [krItem EXCEPT ![i].always = ~krItem[i].always]
  <2>1. Retrieval!Saved(items, scopes) /\ Retrieval!Exists(i)
    BY <1>2 DEF Retrieval!Include
  <2>2. items \in [Entries -> Entry] /\ items[i].primary = krItem[i].primary /\ \A j \in Entries \ {i} : items[j] = krItem[j]
    BY <1>0 DEF Entry
  <2> HIDE DEF items
  <2>3. \A j \in Entries : items[j] # Retrieval!Gone => items[j].primary \in scopes[j]
    BY <2>1, <2>2, <1>0 DEF PrimariesScoped, Retrieval!Exists
  <2> QED BY <2>1, <2>2, <2>3, <1>0, RetrievalSaved
<1>3. CASE Retrieval!Delete(i)
  <2> DEFINE items == [krItem EXCEPT ![i] = Retrieval!Gone]
  <2> DEFINE left == [scopes EXCEPT ![i] = {}]
  <2>1. Retrieval!Saved(items, left)
    BY <1>3 DEF Retrieval!Delete
  <2>2. Retrieval!Gone \in Entry
    BY DEF Retrieval!Gone, Entry, AnyScope
  <2>3. /\ items \in [Entries -> Entry] /\ left \in [Entries -> SUBSET AnyScope] /\ items[i] = Retrieval!Gone
        /\ \A j \in Entries \ {i} : items[j] = krItem[j] /\ left[j] = scopes[j]
    BY <1>0, <2>2
  <2> HIDE DEF items, left
  <2>4. \A j \in Entries : items[j] # Retrieval!Gone => items[j].primary \in left[j]
    BY <2>3, <1>0 DEF PrimariesScoped, Retrieval!Exists
  <2> QED BY <2>1, <2>3, <2>4, RetrievalSaved
<1>4. ASSUME NEW S \in SUBSET Retrieval!Own, Retrieval!Rescope(i, S) PROVE RetrievalInv'
  <2> DEFINE left == [scopes EXCEPT ![i] = S \cup {krItem[i].primary}]
  <2>1. Retrieval!Saved(krItem, left)
    BY <1>4 DEF Retrieval!Rescope
  <2>2. S \cup {krItem[i].primary} \subseteq AnyScope
    BY <1>0 DEF Retrieval!Own, AnyScope, Entry
  <2>3. /\ left \in [Entries -> SUBSET AnyScope] /\ krItem[i].primary \in left[i]
        /\ \A j \in Entries \ {i} : left[j] = scopes[j]
    BY <1>0, <2>2
  <2> HIDE DEF left
  <2>4. \A j \in Entries : krItem[j] # Retrieval!Gone => krItem[j].primary \in left[j]
    BY <2>3, <1>0 DEF PrimariesScoped, Retrieval!Exists
  <2> QED BY <2>1, <2>3, <2>4, <1>0, RetrievalSaved
<1> QED BY <1>1, <1>2, <1>3, <1>4

LEMMA RetrievalBegin == ASSUME RetrievalInv, NEW ask \in Questions, Retrieval!Begin(ask) PROVE RetrievalInv'
<1> DEFINE r == [at |-> IF ask.kind = "global" THEN "legacy" ELSE "scope", kind |-> ask.kind, ask |-> ask]
<1>1. /\ krCall' = r /\ krTold' = krTold /\ krItem' = krItem /\ scopes' = scopes
      /\ wasIn' = Retrieval!InScope(ask) /\ wasOn' = Retrieval!On
  BY DEF Retrieval!Begin, Retrieval!stores
<1>2. r \in AskingCalls /\ r.ask = ask /\ r.at \in {"legacy", "scope"}
  BY RetrievalConstants DEF AskingCalls, ScopedKinds
<1> HIDE DEF r
<1>3. r # Retrieval!Idle /\ r \notin ScopedCalls /\ r \notin Packages
  BY <1>2 DEF Retrieval!Idle, ScopedCalls, ScopedKinds, Packages
<1>4. RetrievalTyped'
  BY <1>1, <1>2 DEF RetrievalInv, RetrievalTyped, Retrieval!InScope, Retrieval!InScopeBy, Retrieval!On
<1>5. CallSees'
  BY <1>1, <1>2 DEF CallSees, Retrieval!InScope, Retrieval!InScopeBy, Retrieval!On
<1>6. CallHolds'
  BY <1>1, <1>3 DEF CallHolds
<1>7. AnswerFits'
  <2>1. Retrieval!AlwaysWithinBudget'
    BY <1>1 DEF RetrievalInv, AnswerFits, Retrieval!AlwaysWithinBudget, Retrieval!Sources
  <2> QED BY <1>1, <1>3, <2>1 DEF RetrievalInv, AnswerFits
<1>8. PrimariesScoped'
  BY <1>1 DEF RetrievalInv, PrimariesScoped, Retrieval!Exists
<1> QED BY <1>4, <1>5, <1>6, <1>7, <1>8 DEF RetrievalInv

LEMMA NothingIs == /\ <<>> \in Seq(Entries) /\ Retrieval!Range(<<>>) = {}
<1>1. <<>> \in Seq(Entries) /\ DOMAIN <<>> = {}
  OBVIOUS
<1> QED BY <1>1 DEF Retrieval!Range

LEMMA RetrievalReadScopes == ASSUME RetrievalInv, Retrieval!ReadScopes PROVE RetrievalInv'
<1>1. krCall \in AskingCalls /\ krCall.kind \in ScopedKinds /\ krCall.ask \in Questions /\ krCall # Retrieval!Idle
  BY InvKnows, KnownAre DEF Retrieval!ReadScopes
<1>2. Retrieval!InScope(krCall.ask) \subseteq wasIn /\ Retrieval!InScope(krCall.ask) \subseteq Entries
  BY <1>1 DEF RetrievalInv, CallSees, Retrieval!InScope, Retrieval!InScopeBy
<1>3. CASE Retrieval!InScope(krCall.ask) = {} /\ krCall.kind # "context"
  <2>1. Retrieval!Answers(<<>>, {}, 0)
    BY <1>3 DEF Retrieval!ReadScopes
  <2>2. krCall.kind \notin {"context", "global"}
    BY <1>1, <1>3 DEF ScopedKinds
  <2> QED BY <2>1, <2>2, NothingIs, RetrievalAnswers
<1>4. CASE ~(Retrieval!InScope(krCall.ask) = {} /\ krCall.kind # "context")
  <2> DEFINE r == [at |-> krCall.kind, kind |-> krCall.kind, ask |-> krCall.ask, allowed |-> Retrieval!InScope(krCall.ask)]
  <2>1. Retrieval!Goes(r)
    BY <1>4 DEF Retrieval!ReadScopes
  <2>2. r \in ScopedCalls /\ r.ask = krCall.ask /\ r.allowed = Retrieval!InScope(krCall.ask)
    BY <1>1, <1>2 DEF ScopedCalls
  <2> HIDE DEF r
  <2>3. r \in KnownCalls /\ r # Retrieval!Idle /\ r \notin Packages
    BY <2>2, KnownAre, PackageIs DEF KnownCalls
  <2>4. Carries(r)
    BY <2>2, <2>3, <1>2 DEF Carries
  <2> QED BY <1>1, <2>1, <2>2, <2>3, <2>4, RetrievalGoes
<1> QED BY <1>3, <1>4

LEMMA RetrievalLists == ASSUME RetrievalInv, Retrieval!ListItems PROVE RetrievalInv'
<1>1. krCall \in ScopedCalls /\ krCall.kind = "list"
  BY InvKnows, KnownAre DEF Retrieval!ListItems, ScopedKinds
<1>2. PICK all \in Retrieval!Sorted({i \in Entries : Retrieval!Exists(i)}) :
        Retrieval!Answers(Retrieval!Take(Retrieval!Only(all, krCall.allowed), Limit), {}, 0)
  BY DEF Retrieval!ListItems
<1> DEFINE sources == Retrieval!Take(Retrieval!Only(all, krCall.allowed), Limit)
<1>3. all \in Seq(Entries)
  BY SortedIs
<1>4. /\ Retrieval!Only(all, krCall.allowed) \in Seq(Entries)
      /\ Retrieval!Range(Retrieval!Only(all, krCall.allowed)) \subseteq krCall.allowed
  BY <1>3, KeptOnly
<1>5. sources \in Seq(Entries) /\ Retrieval!Range(sources) \subseteq krCall.allowed
  BY <1>4, TakeIs, RetrievalConstants
<1>6. krCall.allowed \subseteq wasIn
  BY <1>1, InvCarries DEF Carries
<1> HIDE DEF sources
<1> QED BY <1>1, <1>2, <1>5, <1>6, RetrievalAnswers DEF sources

\* What a search ranks is enabled and in scope.
LEMMA RankedIs ==
  ASSUME RetrievalInv, NEW best \in Retrieval!Best, NEW S
  PROVE  /\ Retrieval!Ranked(best, S) \in Seq(Entries)
         /\ Retrieval!Range(Retrieval!Ranked(best, S)) \subseteq Retrieval!On \cap S
<1>0. PICK W \in SUBSET Retrieval!On : \E o \in Retrieval!SetToSeqs(W) : best = Retrieval!Take(o, TopN)
  BY DEF Retrieval!Best
<1>1. PICK order \in Retrieval!SetToSeqs(W) : best = Retrieval!Take(order, TopN)
  BY <1>0
<1>2. W \in SUBSET Entries
  BY DEF Retrieval!On
<1>3. order \in Seq(Entries) /\ Retrieval!Range(order) \subseteq W
  BY <1>2, OrdersAre
<1>4. best \in Seq(Entries) /\ Retrieval!Range(best) \subseteq Retrieval!On
  BY <1>1, <1>3, TakeIs, RetrievalConstants
<1>5. Retrieval!Only(best, S) \in Seq(Entries) /\ Retrieval!Range(Retrieval!Only(best, S)) \subseteq Retrieval!On \cap S
  BY <1>4, KeptOnly
<1> QED BY <1>5, TakeIs, RetrievalConstants DEF Retrieval!Ranked

LEMMA RetrievalSearch == ASSUME RetrievalInv, Retrieval!Search PROVE RetrievalInv'
<1>1. krCall \in ScopedCalls /\ krCall.kind = "search" /\ krCall # Retrieval!Idle
  BY InvKnows, KnownAre DEF Retrieval!Search, ScopedKinds
<1>2. PICK best \in Retrieval!Best : Retrieval!Answers(Retrieval!Ranked(best, krCall.allowed), {}, 0)
  BY DEF Retrieval!Search
<1>3. /\ Retrieval!Ranked(best, krCall.allowed) \in Seq(Entries)
      /\ Retrieval!Range(Retrieval!Ranked(best, krCall.allowed)) \subseteq Retrieval!On \cap krCall.allowed
  BY RankedIs
<1>4. krCall.allowed \subseteq wasIn /\ Retrieval!On \subseteq wasOn
  BY <1>1, InvCarries DEF Carries, RetrievalInv, CallSees
<1> QED BY <1>1, <1>2, <1>3, <1>4, RetrievalAnswers


\* A package as it is begun: what it holds is enabled and in scope, and nothing is spent.
LEMMA BeginsPackage ==
  ASSUME RetrievalInv, krCall # Retrieval!Idle, krCall.ask \in Questions,
         NEW turn \in {"rescope", "assemble"}, NEW kind \in {"context", "global"},
         NEW always \in Seq(Entries), NEW rest \in Seq(Entries), NEW allowed \in SUBSET Entries,
         kind = "context" => Retrieval!Range(always) \cup Retrieval!Range(rest) \subseteq wasIn \cap wasOn,
         turn = "rescope" => kind = "context",
         Retrieval!Goes([at |-> turn, kind |-> kind, ask |-> krCall.ask, always |-> always, rest |-> rest,
                         allowed |-> allowed, ranked |-> <<>>, sources |-> <<>>, used |-> 0])
  PROVE  RetrievalInv'
<1> DEFINE r == [at |-> turn, kind |-> kind, ask |-> krCall.ask, always |-> always, rest |-> rest,
                 allowed |-> allowed, ranked |-> <<>>, sources |-> <<>>, used |-> 0]
<1>1. r \in Packages
  BY NothingIs DEF Packages
<1>2. /\ r.ask = krCall.ask /\ r.kind = kind /\ r.at = turn /\ r.always = always /\ r.rest = rest
      /\ r.ranked = <<>> /\ r.sources = <<>> /\ r.used = 0
  OBVIOUS
<1>3. Retrieval!Goes(r)
  OBVIOUS
<1> HIDE DEF r
<1>4. r \in KnownCalls /\ r # Retrieval!Idle /\ r \notin ScopedCalls
  BY <1>1, PackageIs DEF KnownCalls
<1>5. PinnedFirst(r)
  BY <1>2, NothingIs DEF PinnedFirst
<1>6. Hold(r) = Retrieval!Range(always) \cup Retrieval!Range(rest)
  BY <1>2, NothingIs DEF Hold
<1>7. Carries(r)
  BY <1>2, <1>4, <1>5, <1>6, RetrievalConstants DEF Carries
<1> QED BY <1>2, <1>3, <1>4, <1>7, RetrievalGoes

LEMMA RetrievalReadItems == ASSUME RetrievalInv, Retrieval!ReadItems PROVE RetrievalInv'
<1>1. krCall \in ScopedCalls /\ krCall.ask \in Questions /\ krCall.allowed \subseteq Entries /\ krCall # Retrieval!Idle
  BY InvKnows, KnownAre DEF Retrieval!ReadItems, ScopedKinds
<1>2. PICK rest \in Retrieval!Sorted(Retrieval!On \cap krCall.allowed) :
        Retrieval!Goes([at |-> IF krCall.ask.query THEN "rescope" ELSE "assemble", kind |-> "context", ask |-> krCall.ask,
                        always |-> Retrieval!Only(rest, {i \in Entries : krItem[i].always}), rest |-> rest,
                        allowed |-> krCall.allowed, ranked |-> <<>>, sources |-> <<>>, used |-> 0])
  BY DEF Retrieval!ReadItems
<1>3. rest \in Seq(Entries) /\ Retrieval!Range(rest) \subseteq Retrieval!On \cap krCall.allowed
  BY SortedIs DEF Retrieval!On
<1>4. Retrieval!Range(rest) \subseteq wasIn \cap wasOn
  BY <1>1, <1>3, InvCarries DEF Carries, RetrievalInv, CallSees
<1> DEFINE always == Retrieval!Only(rest, {i \in Entries : krItem[i].always})
<1> DEFINE turn == IF krCall.ask.query THEN "rescope" ELSE "assemble"
<1>5. always \in Seq(Entries) /\ Retrieval!Range(always) \subseteq wasIn \cap wasOn
  BY <1>3, <1>4, KeptOnly
<1>6. turn \in {"rescope", "assemble"}
  OBVIOUS
<1>7. Retrieval!Goes([at |-> turn, kind |-> "context", ask |-> krCall.ask, always |-> always, rest |-> rest,
                      allowed |-> krCall.allowed, ranked |-> <<>>, sources |-> <<>>, used |-> 0])
  BY <1>2
<1> HIDE DEF always, turn
<1> QED BY <1>1, <1>3, <1>4, <1>5, <1>6, <1>7, BeginsPackage

LEMMA RetrievalReadLegacy == ASSUME RetrievalInv, Retrieval!ReadLegacy PROVE RetrievalInv'
<1>1. krCall.ask \in Questions /\ krCall # Retrieval!Idle
  BY InvKnows, KnownAre DEF Retrieval!ReadLegacy
<1> DEFINE owned == {i \in Retrieval!On : krItem[i].primary \in Retrieval!Own}
<1>2. PICK always \in Retrieval!Sorted(Retrieval!AlwaysItems) :
        \E found \in IF krCall.ask.query THEN UNION {Retrieval!SetToSeqs(S) : S \in SUBSET owned} ELSE Retrieval!Sorted(owned) :
          Retrieval!Goes([at |-> "assemble", kind |-> "global", ask |-> krCall.ask, always |-> always,
                          rest |-> Retrieval!Take(found, Limit), allowed |-> {}, ranked |-> <<>>, sources |-> <<>>, used |-> 0])
  BY DEF Retrieval!ReadLegacy
<1>3. PICK found \in IF krCall.ask.query THEN UNION {Retrieval!SetToSeqs(S) : S \in SUBSET owned} ELSE Retrieval!Sorted(owned) :
        Retrieval!Goes([at |-> "assemble", kind |-> "global", ask |-> krCall.ask, always |-> always,
                        rest |-> Retrieval!Take(found, Limit), allowed |-> {}, ranked |-> <<>>, sources |-> <<>>, used |-> 0])
  BY <1>2
<1>4. owned \subseteq Entries /\ Retrieval!AlwaysItems \subseteq Entries
  BY DEF Retrieval!On, Retrieval!AlwaysItems
<1>5. always \in Seq(Entries)
  BY <1>4, SortedIs
<1>6. found \in Seq(Entries)
  <2>1. CASE krCall.ask.query
    <3>1. PICK S \in SUBSET owned : found \in Retrieval!SetToSeqs(S)
      BY <2>1
    <3>2. S \in SUBSET Entries
      BY <1>4
    <3> QED BY <3>1, <3>2, OrdersAre
  <2>2. CASE ~krCall.ask.query
    BY <2>2, <1>4, SortedIs
  <2> QED BY <2>1, <2>2
<1>7. Retrieval!Take(found, Limit) \in Seq(Entries)
  BY <1>6, TakeIs, RetrievalConstants
<1> HIDE DEF owned
<1> QED BY <1>1, <1>3, <1>5, <1>7, BeginsPackage

\* A package goes on to another step with nothing but what its search ranked added.
LEMMA RetrievalRanks ==
  ASSUME RetrievalInv, krCall \in Packages, krCall.kind = "context",
         NEW turn \in {"rank", "assemble"}, NEW allowed \in SUBSET Entries, NEW ranked \in Seq(Entries),
         turn = "rank" => allowed \subseteq wasIn,
         Retrieval!Range(ranked) \subseteq wasIn \cap wasOn,
         Retrieval!Goes([krCall EXCEPT !.at = turn, !.allowed = allowed, !.ranked = ranked])
  PROVE  RetrievalInv'
<1> DEFINE r == [krCall EXCEPT !.at = turn, !.allowed = allowed, !.ranked = ranked]
<1>1. /\ r \in Packages /\ r.at = turn /\ r.allowed = allowed /\ r.ranked = ranked /\ r.ask = krCall.ask /\ r.kind = krCall.kind
      /\ r.always = krCall.always /\ r.rest = krCall.rest /\ r.sources = krCall.sources /\ r.used = krCall.used
  BY DEF Packages
<1>2. Retrieval!Goes(r)
  OBVIOUS
<1> HIDE DEF r
<1>3. r \in KnownCalls /\ r # Retrieval!Idle /\ r \notin ScopedCalls /\ krCall # Retrieval!Idle
  BY <1>1, PackageIs DEF KnownCalls
<1>4. Hold(krCall) \subseteq wasIn \cap wasOn /\ krCall.used <= Budget /\ PinnedFirst(krCall)
  BY InvCarries DEF Carries
<1>5. Hold(r) \subseteq wasIn \cap wasOn /\ PinnedFirst(r)
  BY <1>1, <1>4 DEF Hold, PinnedFirst
<1>6. Carries(r)
  BY <1>1, <1>3, <1>4, <1>5 DEF Carries
<1> QED BY <1>1, <1>2, <1>3, <1>6, RetrievalGoes

LEMMA RetrievalReadScopesAgain == ASSUME RetrievalInv, Retrieval!ReadScopesAgain PROVE RetrievalInv'
<1>1. krCall \in Packages /\ krCall.at = "rescope" /\ krCall # Retrieval!Idle
  BY InvKnows, KnownAre DEF Retrieval!ReadScopesAgain
<1>2. krCall.kind = "context" /\ Hold(krCall) \subseteq wasIn \cap wasOn
  BY <1>1, InvCarries DEF Carries
<1>3. krCall.ranked \in Seq(Entries) /\ krCall.allowed \in SUBSET Entries /\ Retrieval!Range(krCall.ranked) \subseteq wasIn \cap wasOn
  BY <1>1, <1>2, PackageIs DEF Hold
<1>4. Retrieval!InScope(krCall.ask) \subseteq wasIn /\ Retrieval!InScope(krCall.ask) \in SUBSET Entries
  BY <1>1 DEF RetrievalInv, CallSees, Retrieval!InScope, Retrieval!InScopeBy
<1>5. CASE Retrieval!InScope(krCall.ask) = {}
  <2>1. Retrieval!Goes([krCall EXCEPT !.at = "assemble"])
    BY <1>5 DEF Retrieval!ReadScopesAgain
  <2>2. [krCall EXCEPT !.at = "assemble"] = [krCall EXCEPT !.at = "assemble", !.allowed = krCall.allowed, !.ranked = krCall.ranked]
    BY <1>1 DEF Packages
  <2>3. Retrieval!Goes([krCall EXCEPT !.at = "assemble", !.allowed = krCall.allowed, !.ranked = krCall.ranked])
    BY <2>1, <2>2
  <2> QED BY <1>1, <1>2, <1>3, <2>3, RetrievalRanks
<1>6. CASE Retrieval!InScope(krCall.ask) # {}
  <2> DEFINE scoped == Retrieval!InScope(krCall.ask)
  <2>1. Retrieval!Goes([krCall EXCEPT !.at = "rank", !.allowed = scoped])
    BY <1>6 DEF Retrieval!ReadScopesAgain
  <2>2. [krCall EXCEPT !.at = "rank", !.allowed = scoped] = [krCall EXCEPT !.at = "rank", !.allowed = scoped, !.ranked = krCall.ranked]
    BY <1>1 DEF Packages
  <2>3. Retrieval!Goes([krCall EXCEPT !.at = "rank", !.allowed = scoped, !.ranked = krCall.ranked])
    BY <2>1, <2>2
  <2> HIDE DEF scoped
  <2>4. scoped \subseteq wasIn /\ scoped \in SUBSET Entries
    BY <1>4 DEF scoped
  <2> QED BY <1>1, <1>2, <1>3, <2>3, <2>4, RetrievalRanks
<1> QED BY <1>5, <1>6

LEMMA RetrievalRank == ASSUME RetrievalInv, Retrieval!Rank PROVE RetrievalInv'
<1>1. krCall \in Packages /\ krCall.at = "rank" /\ krCall # Retrieval!Idle
  BY InvKnows, KnownAre DEF Retrieval!Rank
<1>2. krCall.kind = "context" /\ krCall.allowed \subseteq wasIn /\ krCall.allowed \in SUBSET Entries
  BY <1>1, InvCarries, PackageIs DEF Carries
<1>3. PICK best \in Retrieval!Best :
        Retrieval!Goes([krCall EXCEPT !.at = "assemble", !.ranked = Retrieval!Ranked(best, krCall.allowed)])
  BY DEF Retrieval!Rank
<1> DEFINE ranked == Retrieval!Ranked(best, krCall.allowed)
<1>4. ranked \in Seq(Entries) /\ Retrieval!Range(ranked) \subseteq wasIn \cap wasOn
  BY <1>1, <1>2, RankedIs DEF RetrievalInv, CallSees
<1> HIDE DEF ranked
<1>5. [krCall EXCEPT !.at = "assemble", !.ranked = ranked]
        = [krCall EXCEPT !.at = "assemble", !.allowed = krCall.allowed, !.ranked = ranked]
  BY <1>1 DEF Packages
<1>6. Retrieval!Goes([krCall EXCEPT !.at = "assemble", !.allowed = krCall.allowed, !.ranked = ranked])
  BY <1>3, <1>5 DEF ranked
<1> QED BY <1>1, <1>2, <1>4, <1>6, RetrievalRanks


LEMMA AppendTyped == ASSUME NEW S, NEW s \in Seq(S), NEW x \in S PROVE Append(s, x) \in Seq(S)
  BY AppendProperties

LEMMA RetrievalTakes ==
  ASSUME RetrievalInv, krCall \in Packages, krCall.at = "assemble", NEW i \in Hold(krCall) \cap Entries, NEW n \in Int,
         n <= Budget - krCall.used,
         i \in Retrieval!Range(krCall.always)
           \/ Retrieval!Range(krCall.always) \subseteq Retrieval!Range(krCall.sources),
         Retrieval!Goes([krCall EXCEPT !.sources = Append(krCall.sources, i), !.used = krCall.used + n])
  PROVE  RetrievalInv'
<1> DEFINE r == [krCall EXCEPT !.sources = Append(krCall.sources, i), !.used = krCall.used + n]
<1>1. /\ krCall.sources \in Seq(Entries) /\ krCall.used \in Int /\ krCall # Retrieval!Idle
  BY PackageIs
<1>2. Append(krCall.sources, i) \in Seq(Entries)
  BY <1>1, AppendTyped
<1>3. /\ r \in Packages /\ r.at = krCall.at /\ r.ask = krCall.ask /\ r.kind = krCall.kind
      /\ r.always = krCall.always /\ r.rest = krCall.rest /\ r.ranked = krCall.ranked
      /\ r.sources = Append(krCall.sources, i) /\ r.used = krCall.used + n
  <2> DEFINE longer == Append(krCall.sources, i)
  <2>1. longer \in Seq(Entries) /\ krCall.used + n \in Int
    BY <1>1, <1>2
  <2> HIDE DEF longer
  <2>2. [krCall EXCEPT !.sources = longer, !.used = krCall.used + n] \in Packages
    BY <2>1 DEF Packages
  <2>3. r = [krCall EXCEPT !.sources = longer, !.used = krCall.used + n]
    BY DEF longer
  <2>4. /\ r.at = krCall.at /\ r.ask = krCall.ask /\ r.kind = krCall.kind
        /\ r.always = krCall.always /\ r.rest = krCall.rest /\ r.ranked = krCall.ranked
        /\ r.sources = longer /\ r.used = krCall.used + n
    BY <2>3 DEF Packages
  <2> QED BY <2>2, <2>3, <2>4 DEF longer
<1>4. Retrieval!Goes(r)
  OBVIOUS
<1> HIDE DEF r
<1>5. Retrieval!Range(r.sources) = Retrieval!Range(krCall.sources) \cup {i}
  <2> DEFINE more == Append(krCall.sources, i)
  <2>1. PICK m \in Nat : m = Len(krCall.sources)
    BY <1>1
  <2>2. more \in Seq(Entries) /\ Len(more) = m + 1 /\ more[m + 1] = i /\ \A k \in 1..m : more[k] = krCall.sources[k]
    BY <1>1, <2>1
  <2> HIDE DEF more
  <2>3. Retrieval!Range(more) = {more[k] : k \in 1..(m + 1)}
    BY <2>2, RangeIs
  <2>4. Retrieval!Range(krCall.sources) = {krCall.sources[k] : k \in 1..m}
    BY <1>1, <2>1, RangeIs
  <2>5. Retrieval!Range(more) = Retrieval!Range(krCall.sources) \cup {i}
    BY <2>2, <2>3, <2>4
  <2> QED BY <2>5, <1>3 DEF more
<1>6. r \in KnownCalls /\ r # Retrieval!Idle /\ r \notin ScopedCalls
  BY <1>3, PackageIs DEF KnownCalls
<1>7. /\ krCall.kind = "context" => Hold(krCall) \subseteq wasIn \cap wasOn
      /\ PinnedFirst(krCall)
  BY InvCarries DEF Carries
<1>8. Hold(r) = Hold(krCall)
  BY <1>3, <1>5 DEF Hold
<1>9. PinnedFirst(r)
  BY <1>3, <1>5, <1>7 DEF PinnedFirst
<1>10. r.used <= Budget
  BY <1>1, <1>3, RetrievalConstants
<1>11. Carries(r)
  BY <1>3, <1>6, <1>7, <1>8, <1>9, <1>10 DEF Carries
<1> QED BY <1>1, <1>3, <1>4, <1>6, <1>11, RetrievalGoes

LEMMA RetrievalAssembles == ASSUME RetrievalInv, Retrieval!Assemble PROVE RetrievalInv'
<1> DEFINE left == Retrieval!Left(krCall)
<1> DEFINE room == Budget - krCall.used
<1> DEFINE pinned == Retrieval!Range(krCall.always)
<1> DEFINE full == Len(krCall.sources) >= Limit /\ krCall.kind = "context"
<1>1. krCall \in Packages /\ krCall.at = "assemble" /\ krCall # Retrieval!Idle
  BY InvKnows, KnownAre DEF Retrieval!Assemble
<1>2. /\ krCall.sources \in Seq(Entries) /\ krCall.used \in Int /\ krCall.kind \in {"context", "global"}
      /\ krCall.always \in Seq(Entries)
  BY <1>1, PackageIs
<1>3. /\ krCall.kind = "context" => Hold(krCall) \subseteq wasIn \cap wasOn
      /\ krCall.used <= Budget /\ PinnedFirst(krCall)
  BY <1>1, InvCarries DEF Carries
<1>4. IF left = <<>> \/ room <= 0 \/ (full /\ Head(left) \notin pinned)
      THEN Retrieval!Answers(krCall.sources, pinned, krCall.used)
      ELSE IF ~Retrieval!Exists(Head(left)) THEN krCall' = Retrieval!Idle /\ krTold' = Retrieval!NoAnswer /\ Retrieval!Beside
      ELSE IF EntrySize[Head(left)] <= room
           THEN Retrieval!Goes([krCall EXCEPT !.sources = Append(krCall.sources, Head(left)),
                                              !.used = krCall.used + EntrySize[Head(left)]])
      ELSE IF room < Least THEN Retrieval!Answers(krCall.sources, pinned, krCall.used)
      ELSE \E blank \in {0, 1} :
             Retrieval!Goes([krCall EXCEPT !.sources = Append(krCall.sources, Head(left)),
                                           !.used = krCall.used + (Retrieval!Shortened(room) - blank + Marker)])
  BY DEF Retrieval!Assemble
<1> HIDE DEF left
<1>5. /\ left = <<>> => pinned \subseteq Retrieval!Range(krCall.sources)
      /\ left # <<>> =>
           /\ Head(left) \in Entries
           /\ Head(left) \in Hold(krCall) \ Retrieval!Range(krCall.sources)
           /\ Head(left) \in pinned \/ pinned \subseteq Retrieval!Range(krCall.sources)
  BY <1>1, LeftIs DEF left
<1>6. ASSUME Retrieval!Answers(krCall.sources, pinned, krCall.used),
             pinned \subseteq Retrieval!Range(krCall.sources) \/ room < Least
      PROVE  RetrievalInv'
  <2>1. krCall.kind = "context" => Retrieval!Range(krCall.sources) \subseteq wasIn \cap wasOn
    BY <1>3 DEF Hold
  <2>2. \/ pinned \subseteq Retrieval!Range(krCall.sources)
        \/ Budget - krCall.used < Least /\ Retrieval!Range(krCall.sources) \subseteq pinned
    BY <1>6, <1>3 DEF PinnedFirst
  <2>3. krCall.kind \in ScopedKinds => krCall.kind = "context"
    BY <1>2 DEF ScopedKinds
  <2> HIDE DEF pinned, room
  <2> QED BY <1>2, <1>3, <1>6, <2>1, <2>2, <2>3, RetrievalAnswers
<1>7. CASE left = <<>> \/ room <= 0 \/ (full /\ Head(left) \notin pinned)
  <2>1. pinned \subseteq Retrieval!Range(krCall.sources) \/ room < Least
    BY <1>2, <1>5, <1>7, RetrievalConstants
  <2> QED BY <1>4, <1>6, <1>7, <2>1
<1>8. CASE ~(left = <<>> \/ room <= 0 \/ (full /\ Head(left) \notin pinned))
  <2>0. Head(left) \in Hold(krCall) \cap Entries /\ (Head(left) \in pinned \/ pinned \subseteq Retrieval!Range(krCall.sources))
    BY <1>5, <1>8
  <2>1. CASE ~Retrieval!Exists(Head(left))
    <3>1. /\ krCall' = Retrieval!Idle /\ krTold' = Retrieval!NoAnswer /\ krItem' = krItem /\ scopes' = scopes
          /\ wasIn' = wasIn /\ wasOn' = wasOn
      BY <1>4, <1>8, <2>1 DEF Retrieval!Beside, Retrieval!stores, Retrieval!seen
    <3>2. krTold'.kind = "none" /\ krTold'.sources = <<>>
      BY <3>1 DEF Retrieval!NoAnswer
    <3>3. krCall' \notin ScopedCalls /\ krCall' \notin Packages
      BY <3>1 DEF Retrieval!Idle, ScopedCalls, ScopedKinds, Packages
    <3>4. RetrievalTyped' /\ CallSees' /\ CallHolds' /\ PrimariesScoped'
      BY <3>1, <3>3 DEF RetrievalInv, RetrievalTyped, CallSees, CallHolds, PrimariesScoped, Retrieval!Exists
    <3>5. AnswerFits'
      BY <3>2, NothingIs DEF AnswerFits, Retrieval!AlwaysWithinBudget, ScopedKinds
    <3> QED BY <3>4, <3>5 DEF RetrievalInv
  <2>2. CASE Retrieval!Exists(Head(left)) /\ EntrySize[Head(left)] <= room
    <3>1. Retrieval!Goes([krCall EXCEPT !.sources = Append(krCall.sources, Head(left)),
                                        !.used = krCall.used + EntrySize[Head(left)]])
      BY <1>4, <1>8, <2>2
    <3>2. EntrySize[Head(left)] \in Int /\ EntrySize[Head(left)] <= Budget - krCall.used
      BY <2>0, <2>2, RetrievalConstants
    <3> QED BY <1>1, <2>0, <3>1, <3>2, RetrievalTakes
  <2>3. CASE Retrieval!Exists(Head(left)) /\ ~(EntrySize[Head(left)] <= room) /\ room < Least
    BY <1>4, <1>6, <1>8, <2>3
  <2>4. CASE Retrieval!Exists(Head(left)) /\ ~(EntrySize[Head(left)] <= room) /\ ~(room < Least)
    <3>1. PICK blank \in {0, 1} :
            Retrieval!Goes([krCall EXCEPT !.sources = Append(krCall.sources, Head(left)),
                                          !.used = krCall.used + (Retrieval!Shortened(room) - blank + Marker)])
      BY <1>4, <1>8, <2>4
    <3> DEFINE n == Retrieval!Shortened(room) - blank + Marker
    <3>2. n \in Int /\ n <= Budget - krCall.used
      BY <1>2, RetrievalConstants DEF Retrieval!Shortened
    <3> HIDE DEF n
    <3>3. Retrieval!Goes([krCall EXCEPT !.sources = Append(krCall.sources, Head(left)), !.used = krCall.used + n])
      BY <3>1 DEF n
    <3> QED BY <1>1, <2>0, <3>2, <3>3, RetrievalTakes
  <2> QED BY <2>1, <2>2, <2>3, <2>4
<1> QED BY <1>7, <1>8

LEMMA RetrievalKeeps == ASSUME RetrievalInv, Retrieval!Next PROVE RetrievalInv'
<1>1. CASE \E ask \in Questions : Retrieval!Begin(ask)
  BY <1>1, RetrievalBegin
<1>2. CASE \E i \in Entries :
             \/ Retrieval!Enable(i) \/ Retrieval!Include(i) \/ Retrieval!Delete(i)
             \/ \E S \in SUBSET Retrieval!Own : Retrieval!Rescope(i, S)
  BY <1>2, RetrievalEdits
<1> QED BY <1>1, <1>2, RetrievalReadScopes, RetrievalLists, RetrievalSearch, RetrievalReadItems,
     RetrievalReadScopesAgain, RetrievalRank, RetrievalReadLegacy, RetrievalAssembles DEF Retrieval!Next

LEMMA RetrievalStarts == Retrieval!Init => RetrievalInv
<1> SUFFICES ASSUME Retrieval!Init PROVE RetrievalInv
  OBVIOUS
<1>1. /\ krItem = FirstSaved /\ scopes = [i \in Entries |-> {FirstSaved[i].primary}]
      /\ krCall = Retrieval!Idle /\ wasIn = {} /\ wasOn = {} /\ krTold = Retrieval!NoAnswer
  BY DEF Retrieval!Init
<1>2. krItem \in [Entries -> Entry]
  BY <1>1, RetrievalConstants DEF Entry, AnyScope
<1>3. \A i \in Entries : FirstSaved[i].primary \in AnyScope
  BY <1>1, <1>2 DEF Entry
<1>4. RetrievalTyped
  BY <1>1, <1>2, <1>3 DEF RetrievalTyped
<1>5. krCall \notin ScopedCalls /\ krCall \notin Packages
  BY <1>1 DEF Retrieval!Idle, ScopedCalls, ScopedKinds, Packages
<1>6. CallSees /\ CallHolds
  BY <1>1, <1>5 DEF CallSees, CallHolds
<1>7. AnswerFits
  BY <1>1, NothingIs DEF AnswerFits, Retrieval!NoAnswer, Retrieval!AlwaysWithinBudget, ScopedKinds
<1>8. PrimariesScoped
  BY <1>1 DEF PrimariesScoped
<1> QED BY <1>4, <1>6, <1>7, <1>8 DEF RetrievalInv

LEMMA RetrievalTurns == RetrievalInv /\ [AllNext]_allVars => RetrievalInv'
<1> SUFFICES ASSUME RetrievalInv, [AllNext]_allVars PROVE RetrievalInv'
  OBVIOUS
<1>1. CASE Retrieval!Next
  BY <1>1, RetrievalKeeps
<1>2. CASE UNCHANGED retrievalVars
  <2>1. /\ krCall' = krCall /\ krTold' = krTold /\ krItem' = krItem /\ scopes' = scopes
        /\ wasIn' = wasIn /\ wasOn' = wasOn
    BY <1>2 DEF retrievalVars
  <2>2. RetrievalTyped' /\ CallHolds' /\ PrimariesScoped'
    BY <2>1 DEF RetrievalInv, RetrievalTyped, CallHolds, PrimariesScoped, Retrieval!Exists
  <2>3. CallSees'
    BY <2>1 DEF RetrievalInv, CallSees, Retrieval!InScope, Retrieval!InScopeBy, Retrieval!On
  <2>4. AnswerFits'
    BY <2>1 DEF RetrievalInv, AnswerFits, Retrieval!AlwaysWithinBudget, Retrieval!Sources
  <2> QED BY <2>2, <2>3, <2>4 DEF RetrievalInv
<1> QED BY <1>1, <1>2 DEF AllNext, allVars

LEMMA RetrievalShows == RetrievalInv => RetrievalSafety
<1> SUFFICES ASSUME RetrievalInv
             PROVE  Retrieval!TypeOK /\ Retrieval!AnswersAreScoped /\ Retrieval!AlwaysWithinBudget
  BY DEF RetrievalSafety
<1>1. Retrieval!Range(krTold.sources) \subseteq Entries
  BY RangeIs DEF RetrievalInv, AnswerFits
<1>2. Retrieval!TypeOK
  BY <1>1 DEF RetrievalInv, RetrievalTyped, PrimariesScoped, Retrieval!TypeOK
<1> QED BY <1>2 DEF RetrievalInv, AnswerFits, Retrieval!AnswersAreScoped, Retrieval!Sources, ScopedKinds

\* Whatever is edited while a list, a search or a context is read in its several steps, it tells only
\* what had been in the scopes it asked for, and enabled, at some moment of the call; a context keeps
\* its budget, and leaves out what always stands in it only when others of that kind have spent it.
THEOREM RetrievalHolds == AllSpec => []RetrievalSafety
<1>1. AllInit => RetrievalInv
  BY RetrievalStarts DEF AllInit
<1> QED BY <1>1, RetrievalShows, RetrievalTurns, PTL DEF AllSpec

-----------------------------------------------------------------------------
(***************************************************************************)
(* Clicks: the order the classification walks, and the evidence it finds.  *)
(***************************************************************************)

LEMMA TrackingConstants ==
  /\ \A v \in Visitors : v.proxy \in BOOLEAN /\ v.relayed \in BOOLEAN
  /\ Pauses \subseteq Nat /\ Retention \in Nat /\ RequestLoads # {}
  /\ \A m \in RequestLoads : m.threads \subseteq Threads
BY ApplicationAssumption DEF Telemetry!TrackingAssumption

\* Clicks as a query reads them: of an instant each, and told apart by their ids.
ClickSet(es) ==
  /\ IsFiniteSet(es)
  /\ \A x \in es : x.at \in Int /\ x.id \in Int /\ x.visitor.proxy \in BOOLEAN /\ x.visitor.relayed \in BOOLEAN
  /\ \A x, y \in es : x.id = y.id => x = y

LEMMA PartOfClicks == ASSUME NEW es, ClickSet(es), NEW S \in SUBSET es PROVE ClickSet(S)
BY FS_Subset DEF ClickSet

LEMMA ClickCardinality == ASSUME NEW S PROVE Telemetry!Cardinality(S) = Cardinality(S)
BY DEF Telemetry!Cardinality, Cardinality

\* The clicks before one of them.
Earlier(S, x) == {y \in S : Telemetry!Before(y, x)}

\* Sorted: every click stands at one place, and time never falls from place to place.
LEMMA SortedClicks ==
  ASSUME NEW S, ClickSet(S)
  PROVE  LET s == Telemetry!InOrder(S)
             n == Cardinality(S)
         IN /\ n \in Nat /\ s \in [1..n -> S]
            /\ \A x \in S : \E i \in 1..n : s[i] = x
            /\ \A i, j \in 1..n : i < j => Telemetry!Before(s[i], s[j])
            /\ \A i, j \in 1..n : s[i] = s[j] => i = j
            /\ \A i, j \in 1..n : i <= j => s[i].at <= s[j].at
<1> DEFINE s == Telemetry!InOrder(S)
<1>0. PICK n : n = Cardinality(S)
  OBVIOUS
<1>1. n \in Nat /\ IsFiniteSet(S)
  BY <1>0, FS_CardinalityType DEF ClickSet
<1> DEFINE rank(x) == Cardinality(Earlier(S, x))
<1>2. ASSUME NEW x \in S PROVE rank(x) \in 0..(n - 1)
  <2>1. Earlier(S, x) \in SUBSET S /\ x \notin Earlier(S, x)
    BY DEF Earlier, Telemetry!Before, ClickSet
  <2>2. IsFiniteSet(Earlier(S, x)) /\ Cardinality(Earlier(S, x)) <= n /\ Cardinality(Earlier(S, x)) # n
    BY <1>0, <1>1, <2>1, FS_Subset
  <2>3. Cardinality(Earlier(S, x)) \in Nat
    BY <2>2, FS_CardinalityType
  <2> QED BY <1>1, <2>2, <2>3
<1>3. ASSUME NEW x \in S, NEW y \in S, Telemetry!Before(x, y) PROVE rank(x) < rank(y)
  <2>1. Earlier(S, x) \subseteq Earlier(S, y)
    <3> SUFFICES ASSUME NEW z \in S, Telemetry!Before(z, x) PROVE Telemetry!Before(z, y)
      BY DEF Earlier
    <3>1. z.at \in Int /\ x.at \in Int /\ y.at \in Int /\ z.id \in Int /\ x.id \in Int /\ y.id \in Int
      BY DEF ClickSet
    <3> QED BY <1>3, <3>1 DEF Telemetry!Before
  <2>2. x \in Earlier(S, y) /\ x \notin Earlier(S, x)
    BY <1>3 DEF Earlier, Telemetry!Before, ClickSet
  <2>3. IsFiniteSet(Earlier(S, y))
    <3>1. Earlier(S, y) \in SUBSET S
      BY DEF Earlier
    <3> QED BY <3>1, <1>1, FS_Subset
  <2>4. rank(x) <= rank(y) /\ rank(x) # rank(y)
    BY <2>1, <2>2, <2>3, FS_Subset
  <2>5. rank(x) \in Int /\ rank(y) \in Int
    BY <1>1, <1>2
  <2> QED BY <2>4, <2>5
<1>4. ASSUME NEW x \in S, NEW y \in S PROVE x = y \/ Telemetry!Before(x, y) \/ Telemetry!Before(y, x)
  BY DEF ClickSet, Telemetry!Before
<1> HIDE DEF rank
<1>5. \A x, y \in S : rank(x) = rank(y) => x = y
  <2>1. \A x \in S : rank(x) \in Int
    BY <1>1, <1>2
  <2> QED BY <1>3, <1>4, <2>1
<1> DEFINE f == [x \in S |-> rank(x) + 1]
<1>6. f \in Injection(S, 1..n)
  <2>1. \A x \in S : rank(x) \in 0..(n - 1) /\ rank(x) + 1 \in 1..n
    BY <1>1, <1>2
  <2>2. f \in [S -> 1..n]
    BY <2>1
  <2>3. \A x, y \in S : f[x] = f[y] => x = y
    BY <1>5, <2>1
  <2> HIDE DEF f
  <2> QED BY <2>2, <2>3 DEF Injection, IsInjective
<1>7. f \in Surjection(S, 1..n)
  <2>1. IsFiniteSet(1..n) /\ Cardinality(1..n) = n
    BY <1>1, FS_Interval
  <2> HIDE DEF f
  <2> QED BY <1>0, <1>6, <2>1, FS_Injection
<1>8. \A i \in 1..n : \E x \in S : rank(x) = i - 1
  <2>1. \A i \in 1..n : \E x \in S : f[x] = i
    BY <1>7 DEF Surjection
  <2>2. \A x \in S : rank(x) \in Int
    BY <1>1, <1>2
  <2> QED BY <2>1, <2>2
<1>9. s = [i \in 1..n |-> CHOOSE x \in S : rank(x) = i - 1]
  BY <1>0 DEF Telemetry!InOrder, rank, Earlier, Telemetry!Cardinality, Cardinality
<1> HIDE DEF s
<1>10. \A i \in 1..n : s[i] \in S /\ rank(s[i]) = i - 1
  BY <1>8, <1>9
<1>11. s \in [1..n -> S]
  BY <1>9, <1>10
<1>12. ASSUME NEW x \in S PROVE \E i \in 1..n : s[i] = x
  <2>1. rank(x) + 1 \in 1..n /\ rank(x) \in Int
    BY <1>1, <1>2
  <2>2. rank(s[rank(x) + 1]) = rank(x) /\ s[rank(x) + 1] \in S
    BY <2>1, <1>10
  <2> QED BY <2>1, <2>2, <1>5
<1>13. ASSUME NEW i \in 1..n, NEW j \in 1..n, i < j PROVE Telemetry!Before(s[i], s[j])
  <2>1. s[i] \in S /\ s[j] \in S /\ rank(s[i]) = i - 1 /\ rank(s[j]) = j - 1
    BY <1>10
  <2>2. s[i] # s[j]
    BY <2>1, <1>13
  <2>3. ~Telemetry!Before(s[j], s[i])
    BY <2>1, <1>3, <1>13
  <2> QED BY <2>1, <2>2, <2>3, <1>4
<1>14. \A i, j \in 1..n : s[i] = s[j] => i = j
  BY <1>10
<1>15. ASSUME NEW i \in 1..n, NEW j \in 1..n, i <= j PROVE s[i].at <= s[j].at
  <2>1. s[i].at \in Int /\ s[j].at \in Int
    BY <1>10 DEF ClickSet
  <2>2. CASE i = j
    BY <2>1, <2>2
  <2>3. CASE i < j
    BY <2>1, <2>3, <1>13 DEF Telemetry!Before
  <2> QED BY <2>2, <2>3, <1>15
<1> QED BY <1>0, <1>1, <1>11, <1>12, <1>13, <1>14, <1>15 DEF s

\* The nearest of two or of one.
LEMMA NearerIs ==
  ASSUME NEW A, NEW B, NEW a \in Int, NEW b \in Int, A \in {{}, {a}}, B \in {{}, {b}}, A \cup B # {}
  PROVE  /\ Telemetry!Min(A \cup B) \in A \cup B
         /\ \A x \in A \cup B : Telemetry!Min(A \cup B) <= x /\ x \in Int
<1>1. \E x \in A \cup B : \A y \in A \cup B : x <= y
  OBVIOUS
<1> QED BY <1>1 DEF Telemetry!Min

LEMMA LastIs ==
  ASSUME NEW n \in Nat, NEW W \in SUBSET (1..n), W # {}
  PROVE  Telemetry!Max(W) \in W /\ \A x \in W : x <= Telemetry!Max(W)
<1> DEFINE rests == {k \in Nat : \E x \in W : k = n - x}
<1>1. \A x \in W : n - x \in rests
  OBVIOUS
<1>2. PICK k \in rests : \A l \in rests : k <= l
  <2>1. rests \in SUBSET Nat /\ rests # {}
    BY <1>1
  <2> HIDE DEF rests
  <2> QED BY <2>1, LeastIs
<1>3. PICK x \in W : k = n - x
  OBVIOUS
<1>4. \A y \in W : x >= y
  BY <1>1, <1>2, <1>3
<1> QED BY <1>4 DEF Telemetry!Max

LEMMA FirstIs ==
  ASSUME NEW W \in SUBSET Nat, W # {}
  PROVE  Telemetry!Min(W) \in W /\ \A x \in W : Telemetry!Min(W) <= x
BY LeastIs DEF Telemetry!Min

LEMMA SingleIs == ASSUME NEW x \in Int PROVE Telemetry!Min({x}) = x /\ Telemetry!Max({x}) = x
BY DEF Telemetry!Min, Telemetry!Max

\* Clicks keep company when the times of both are near, whichever came first.
LEMMA SpanIs == ASSUME NEW n \in Nat, NEW d \in Int PROVE d \in (-n)..n <=> d <= n /\ -n <= d
OBVIOUS

LEMMA CompanyIs ==
  ASSUME NEW es, NEW x \in es, NEW e, x.at \in Int, e.at \in Int
  PROVE  x \in Telemetry!Company(es, e) <=>
           /\ x.delivery = e.delivery /\ x.print = e.print /\ x.link # e.link
           /\ x.at - e.at <= 2000 /\ e.at - x.at <= 2000
<1>1. PICK d \in Int : d = x.at - e.at
  OBVIOUS
<1>2. d \in (-Telemetry!BurstSpan)..Telemetry!BurstSpan <=> d <= 2000 /\ -2000 <= d
  BY SpanIs DEF Telemetry!BurstSpan
<1>3. -2000 <= d <=> e.at - x.at <= 2000
  BY <1>1
<1>4. x \in Telemetry!Company(es, e) <=>
        /\ x.delivery = e.delivery /\ x.print = e.print /\ x.link # e.link
        /\ d \in (-Telemetry!BurstSpan)..Telemetry!BurstSpan
  BY <1>1, Zenon DEF Telemetry!Company
<1> QED BY <1>1, <1>2, <1>3, <1>4

\* What the walk finds from a click: nothing when it has no company, otherwise how far apart it and
\* the nearest of its company are.
LEMMA WalkFinds ==
  ASSUME NEW es, ClickSet(es), NEW e \in es
  PROVE  \/ Telemetry!Company(es, e) = {} /\ Telemetry!Distance(es, e) = {}
         \/ \E x \in Telemetry!Company(es, e) :
              /\ Telemetry!Distance(es, e) = {Telemetry!Apart(x, e)}
              /\ \A y \in Telemetry!Company(es, e) : Telemetry!Apart(x, e) <= Telemetry!Apart(y, e)
<1> DEFINE S == {x \in es : x.delivery = e.delivery /\ x.print = e.print}
<1> DEFINE s == Telemetry!InOrder(S)
<1> DEFINE n == Cardinality(S)
<1>1. S \in SUBSET es /\ ClickSet(S) /\ e \in S
  BY PartOfClicks
<1>2. /\ n \in Nat /\ s \in [1..n -> S]
      /\ \A x \in S : \E i \in 1..n : s[i] = x
      /\ \A i, j \in 1..n : s[i] = s[j] => i = j
      /\ \A i, j \in 1..n : i <= j => s[i].at <= s[j].at
  <2> HIDE DEF S
  <2> QED BY <1>1, SortedClicks
<1>3. \A x \in S : x.at \in Int
  BY <1>1 DEF ClickSet
<1> DEFINE span == Telemetry!BurstSpan
<1>4. span = 2000
  BY DEF Telemetry!BurstSpan
<1>5. Telemetry!Alike(es, e) = s
  BY DEF Telemetry!Alike
<1>6. e \in es /\ e.at \in Int /\ \A x \in es : x.at \in Int
  BY DEF ClickSet
<1>22. \A x \in Telemetry!Company(es, e) : x \in S
  BY DEF Telemetry!Company
<1>23. \A x \in S : x \in Telemetry!Company(es, e) <=> x.link # e.link /\ x.at - e.at <= 2000 /\ e.at - x.at <= 2000
  BY <1>6, CompanyIs
<1>7. \A x \in S : Telemetry!Apart(x, e) = IF x.at < e.at THEN e.at - x.at ELSE x.at - e.at
  BY DEF Telemetry!Apart
<1> DEFINE here == CHOOSE i \in DOMAIN s : s[i] = e
<1>8. DOMAIN s = 1..n /\ Len(s) = n
  <2>1. \A i \in 1..n : s[i] \in S
    BY <1>2
  <2> HIDE DEF s
  <2>2. s \in Seq(S)
    BY <1>2
  <2> QED BY <1>2, <2>2
<1>9. here \in 1..n /\ s[here] = e
  BY <1>1, <1>2, <1>8
<1> DEFINE back == {i \in 1..here - 1 : s[i].link # e.link /\ e.at - s[i].at <= span}
<1> DEFINE on == {i \in here + 1..Len(s) : s[i].link # e.link /\ s[i].at - e.at <= span}
<1> DEFINE A == IF back = {} THEN {} ELSE {e.at - s[Telemetry!Max(back)].at}
<1> DEFINE B == IF on = {} THEN {} ELSE {s[Telemetry!Min(on)].at - e.at}
<1>10. Telemetry!Distance(es, e) = IF A \cup B = {} THEN {} ELSE {Telemetry!Min(A \cup B)}
  BY <1>5 DEF Telemetry!Distance
<1> HIDE DEF s, S, n, here
<1>11. PICK h \in 1..n : h = here
  BY <1>9
<1>12. \A i \in 1..n : s[i] \in S /\ s[i].at \in Int
  BY <1>2, <1>3
<1>13. /\ \A i \in back : i \in 1..n /\ i < h /\ s[i].at <= e.at /\ e.at - s[i].at <= 2000 /\ s[i].link # e.link
       /\ \A i \in on : i \in 1..n /\ h < i /\ e.at <= s[i].at /\ s[i].at - e.at <= 2000 /\ s[i].link # e.link
  BY <1>2, <1>4, <1>8, <1>9, <1>11, <1>12
<1>14. \A i \in 1..n : s[i] \in Telemetry!Company(es, e) <=> i \in back \cup on
  <2> SUFFICES ASSUME NEW i \in 1..n PROVE s[i] \in Telemetry!Company(es, e) <=> i \in back \cup on
    OBVIOUS
  <2>1. s[i] \in S /\ s[i].at \in Int /\ e.at \in Int /\ s[h] = e /\ s[h].at = e.at
    BY <1>1, <1>3, <1>9, <1>11, <1>12
  <2>2. CASE i = h
    BY <2>1, <2>2, <1>23, <1>13
  <2>3. CASE i < h
    <3>1. s[i].at <= e.at
      BY <2>1, <2>3, <1>2
    <3>2. i \in back <=> s[i].link # e.link /\ e.at - s[i].at <= 2000
      BY <2>3, <1>4, <1>11
    <3>3. i \notin on
      BY <2>3, <1>13
    <3> HIDE DEF back, on
    <3> QED BY <2>1, <3>1, <3>2, <3>3, <1>23
  <2>4. CASE h < i
    <3>1. e.at <= s[i].at
      BY <2>1, <2>4, <1>2
    <3>2. i \in on <=> s[i].link # e.link /\ s[i].at - e.at <= 2000
      BY <2>4, <1>4, <1>8, <1>11, <1>2
    <3>3. i \notin back
      BY <2>4, <1>13
    <3> HIDE DEF back, on
    <3> QED BY <2>1, <3>1, <3>2, <3>3, <1>23
  <2> QED BY <2>2, <2>3, <2>4, <1>2
<1>15. back # {} =>
         /\ Telemetry!Max(back) \in back
         /\ \A i \in back : s[i].at <= s[Telemetry!Max(back)].at
  <2> SUFFICES ASSUME back # {}
               PROVE  Telemetry!Max(back) \in back /\ \A i \in back : s[i].at <= s[Telemetry!Max(back)].at
    OBVIOUS
  <2>1. back \in SUBSET (1..n)
    BY <1>13
  <2>2. Telemetry!Max(back) \in back /\ \A i \in back : i <= Telemetry!Max(back)
    <3> HIDE DEF back
    <3> QED BY <1>2, <2>1, LastIs
  <2> HIDE DEF back
  <2> QED BY <2>1, <2>2, <1>2
<1>16. on # {} =>
         /\ Telemetry!Min(on) \in on
         /\ \A i \in on : s[Telemetry!Min(on)].at <= s[i].at
  <2> SUFFICES ASSUME on # {}
               PROVE  Telemetry!Min(on) \in on /\ \A i \in on : s[Telemetry!Min(on)].at <= s[i].at
    OBVIOUS
  <2>1. on \in SUBSET (1..n) /\ on \in SUBSET Nat
    BY <1>13, <1>2
  <2>2. Telemetry!Min(on) \in on /\ \A i \in on : Telemetry!Min(on) <= i
    <3> HIDE DEF on
    <3> QED BY <2>1, FirstIs
  <2> HIDE DEF on
  <2> QED BY <2>1, <2>2, <1>2
<1> DEFINE Far(i) == Telemetry!Apart(s[i], e)
<1>17. /\ \A i \in back : Far(i) = e.at - s[i].at /\ Far(i) \in Int
       /\ \A i \in on : Far(i) = s[i].at - e.at /\ Far(i) \in Int
  <2>1. e.at \in Int
    BY <1>1, <1>3
  <2> HIDE DEF back, on
  <2>2. \A i \in back : i \in 1..n /\ s[i] \in S /\ s[i].at \in Int /\ s[i].at <= e.at
    BY <1>12, <1>13
  <2>3. \A i \in on : i \in 1..n /\ s[i] \in S /\ s[i].at \in Int /\ e.at <= s[i].at
    BY <1>12, <1>13
  <2> QED BY <1>7, <2>1, <2>2, <2>3
<1> DEFINE a == IF back = {} THEN 0 ELSE Far(Telemetry!Max(back))
<1> DEFINE b == IF on = {} THEN 0 ELSE Far(Telemetry!Min(on))
<1>18. A = (IF back = {} THEN {} ELSE {a}) /\ B = (IF on = {} THEN {} ELSE {b}) /\ a \in Int /\ b \in Int
  <2> HIDE DEF back, on
  <2>1. A = (IF back = {} THEN {} ELSE {a}) /\ a \in Int
    <3>1. CASE back = {}
      BY <3>1
    <3>2. CASE back # {}
      <4>1. Far(Telemetry!Max(back)) = e.at - s[Telemetry!Max(back)].at /\ Far(Telemetry!Max(back)) \in Int
        BY <3>2, <1>15, <1>17
      <4> HIDE DEF Far
      <4> QED BY <3>2, <4>1
    <3> QED BY <3>1, <3>2
  <2>2. B = (IF on = {} THEN {} ELSE {b}) /\ b \in Int
    <3>1. CASE on = {}
      BY <3>1
    <3>2. CASE on # {}
      <4>1. Far(Telemetry!Min(on)) = s[Telemetry!Min(on)].at - e.at /\ Far(Telemetry!Min(on)) \in Int
        BY <3>2, <1>16, <1>17
      <4> HIDE DEF Far
      <4> QED BY <3>2, <4>1
    <3> QED BY <3>1, <3>2
  <2> QED BY <2>1, <2>2
<1>19. /\ \A i \in back : a <= Far(i)
       /\ \A i \in on : b <= Far(i)
  <2>1. e.at \in Int
    BY <1>1, <1>3
  <2>2. \A i \in back \cup on : s[i].at \in Int
    BY <1>12, <1>13
  <2> HIDE DEF back, on, Far
  <2> QED BY <1>15, <1>16, <1>17, <2>1, <2>2
<1> HIDE DEF A, B, back, on, Far
<1>20. CASE back \cup on = {}
  <2>1. Telemetry!Company(es, e) = {}
    <3>1. \A x \in Telemetry!Company(es, e) : \E i \in 1..n : s[i] = x
      BY <1>2, <1>22
    <3> QED BY <3>1, <1>14, <1>20
  <2> QED BY <2>1, <1>10, <1>18, <1>20
<1>21. CASE back \cup on # {}
  <2>1. A \cup B # {}
    BY <1>18, <1>21
  <2>2. PICK d : d = Telemetry!Min(A \cup B)
    OBVIOUS
  <2>3. d \in A \cup B /\ \A x \in A \cup B : d <= x /\ x \in Int
    BY <1>18, <2>1, <2>2, NearerIs
  <2>4. \E i \in back \cup on : Far(i) = d
    BY <1>15, <1>16, <1>18, <2>3
  <2>5. PICK i \in back \cup on : Far(i) = d
    BY <2>4
  <2>6. s[i] \in Telemetry!Company(es, e)
    BY <1>13, <1>14, <2>5
  <2>7. \A j \in back \cup on : d <= Far(j)
    BY <1>17, <1>18, <1>19, <2>3
  <2>8. \A y \in Telemetry!Company(es, e) : d <= Telemetry!Apart(y, e)
    <3> SUFFICES ASSUME NEW y \in Telemetry!Company(es, e) PROVE d <= Telemetry!Apart(y, e)
      OBVIOUS
    <3>1. PICK j \in 1..n : s[j] = y
      BY <1>2, <1>22
    <3>2. j \in back \cup on
      BY <3>1, <1>14
    <3> QED BY <3>1, <3>2, <2>7 DEF Far
  <2>9. Telemetry!Distance(es, e) = {d}
    BY <1>10, <2>1, <2>2
  <2> QED BY <2>5, <2>6, <2>8, <2>9 DEF Far
<1> QED BY <1>20, <1>21

\* Evidence of a burst is the nearest of the company, and company finds each other.
LEMMA NearestFound == ASSUME NEW es, ClickSet(es) PROVE Telemetry!EvidenceIsNearestOf(es)
<1> SUFFICES ASSUME NEW e \in es
             PROVE  /\ Telemetry!Distance(es, e) =
                         IF Telemetry!Company(es, e) = {} THEN {}
                         ELSE {Telemetry!Min({Telemetry!Apart(x, e) : x \in Telemetry!Company(es, e)})}
                    /\ \A x \in Telemetry!Company(es, e) :
                         \E d \in Telemetry!Distance(es, x) : d <= Telemetry!Apart(x, e)
  BY DEF Telemetry!EvidenceIsNearestOf
<1>1. \A x, y \in es : Telemetry!Apart(x, y) \in Int /\ Telemetry!Apart(x, y) = Telemetry!Apart(y, x)
  BY DEF ClickSet, Telemetry!Apart
<1>2. Telemetry!Company(es, e) \subseteq es
  BY DEF Telemetry!Company
<1>3. Telemetry!Distance(es, e) =
        IF Telemetry!Company(es, e) = {} THEN {}
        ELSE {Telemetry!Min({Telemetry!Apart(x, e) : x \in Telemetry!Company(es, e)})}
  <2>1. CASE Telemetry!Company(es, e) = {}
    BY <2>1, WalkFinds
  <2>2. CASE Telemetry!Company(es, e) # {}
    <3>1. PICK x \in Telemetry!Company(es, e) :
            /\ Telemetry!Distance(es, e) = {Telemetry!Apart(x, e)}
            /\ \A y \in Telemetry!Company(es, e) : Telemetry!Apart(x, e) <= Telemetry!Apart(y, e)
      BY <2>2, WalkFinds
    <3> DEFINE W == {Telemetry!Apart(y, e) : y \in Telemetry!Company(es, e)}
    <3>2. Telemetry!Apart(x, e) \in W /\ \A w \in W : Telemetry!Apart(x, e) <= w /\ w \in Int
      BY <1>1, <1>2, <3>1
    <3> HIDE DEF W
    <3>3. Telemetry!Min(W) = Telemetry!Apart(x, e)
      <4>1. Telemetry!Min(W) \in W /\ \A w \in W : Telemetry!Min(W) <= w
        BY <3>2 DEF Telemetry!Min
      <4> QED BY <3>2, <4>1
    <3> QED BY <2>2, <3>1, <3>3 DEF W
  <2> QED BY <2>1, <2>2
<1>4. ASSUME NEW x \in Telemetry!Company(es, e)
      PROVE  \E d \in Telemetry!Distance(es, x) : d <= Telemetry!Apart(x, e)
  <2>1. x \in es /\ x.at \in Int /\ e.at \in Int
    BY <1>2 DEF ClickSet
  <2>2. e \in Telemetry!Company(es, x)
    <3>1. /\ x.delivery = e.delivery /\ x.print = e.print /\ x.link # e.link
          /\ x.at - e.at <= 2000 /\ e.at - x.at <= 2000
      BY <2>1, CompanyIs
    <3>2. e \in Telemetry!Company(es, x) <=>
            /\ e.delivery = x.delivery /\ e.print = x.print /\ e.link # x.link
            /\ e.at - x.at <= 2000 /\ x.at - e.at <= 2000
      BY <2>1, CompanyIs
    <3> QED BY <3>1, <3>2
  <2>3. PICK y \in Telemetry!Company(es, x) :
          /\ Telemetry!Distance(es, x) = {Telemetry!Apart(y, x)}
          /\ \A z \in Telemetry!Company(es, x) : Telemetry!Apart(y, x) <= Telemetry!Apart(z, x)
    BY <2>1, <2>2, WalkFinds
  <2>4. Telemetry!Apart(y, x) <= Telemetry!Apart(e, x) /\ Telemetry!Apart(e, x) = Telemetry!Apart(x, e)
    BY <1>1, <2>1, <2>2, <2>3
  <2> QED BY <2>3, <2>4
<1> QED BY <1>3, <1>4

-----------------------------------------------------------------------------
(***************************************************************************)
(* Clicks: what the evidence adds up to.                                   *)
(***************************************************************************)

\* A sum is of one weight, or of none.
LEMMA SumOfOne == ASSUME NEW x \in Int PROVE Telemetry!SumSet({x}) = x
<1> DEFINE Sums(g) == g = [t \in SUBSET {x} |-> IF t = {} THEN 0 ELSE (CHOOSE y \in t : TRUE) + g[t \ {CHOOSE y \in t : TRUE}]]
<1> DEFINE h == [t \in SUBSET {x} |-> IF t = {} THEN 0 ELSE x]
<1>1. \A t \in SUBSET {x} : t = {} \/ t = {x}
  OBVIOUS
<1>2. (CHOOSE y \in {x} : TRUE) = x /\ {x} \ {x} = {}
  OBVIOUS
<1>3. Sums(h)
  <2>1. \A t \in SUBSET {x} : h[t] = IF t = {} THEN 0 ELSE (CHOOSE y \in t : TRUE) + h[t \ {CHOOSE y \in t : TRUE}]
    <3> SUFFICES ASSUME NEW t \in SUBSET {x}
                 PROVE  h[t] = IF t = {} THEN 0 ELSE (CHOOSE y \in t : TRUE) + h[t \ {CHOOSE y \in t : TRUE}]
      OBVIOUS
    <3>1. CASE t = {}
      BY <3>1
    <3>2. CASE t = {x}
      <4>1. h[{}] = 0 /\ h[{x}] = x
        OBVIOUS
      <4> HIDE DEF h
      <4> QED BY <3>2, <4>1, <1>2
    <3> QED BY <1>1, <3>1, <3>2
  <2> QED BY <2>1
<1> DEFINE g == CHOOSE f : Sums(f)
<1>4. Sums(g)
  <2> HIDE DEF Sums, h
  <2> QED BY <1>3
<1>5. Telemetry!SumSet({x}) = g[{x}]
  BY DEF Telemetry!SumSet, Telemetry!FoldSet, Telemetry!MapThenFoldSet
<1> HIDE DEF g
<1>6. g[{}] = 0
  BY <1>4
<1>7. g[{x}] = x + g[{}]
  BY <1>4, <1>2
<1> QED BY <1>5, <1>6, <1>7

LEMMA SumOfNone == Telemetry!SumSet({}) = 0
<1> DEFINE Sums(g) == g = [t \in SUBSET {} |-> IF t = {} THEN 0 ELSE (CHOOSE y \in t : TRUE) + g[t \ {CHOOSE y \in t : TRUE}]]
<1> DEFINE h == [t \in SUBSET {} |-> 0]
<1>1. \A t \in SUBSET {} : t = {}
  OBVIOUS
<1>2. Sums(h)
  BY <1>1
<1> DEFINE g == CHOOSE f : Sums(f)
<1>3. Sums(g)
  <2> HIDE DEF Sums, h
  <2> QED BY <1>2
<1>4. Telemetry!SumSet({}) = g[{}]
  BY DEF Telemetry!SumSet, Telemetry!FoldSet, Telemetry!MapThenFoldSet
<1> HIDE DEF g
<1> QED BY <1>3, <1>4

\* What a change from the click before weighs: little when the fingerprint is the same.
LEMMA ChangeWeighs ==
  ASSUME NEW p, NEW e
  PROVE  Telemetry!Change(p, e) \in 0..90 /\ (p.print = e.print => Telemetry!Change(p, e) <= 35)
<1> DEFINE soon == e.at - p.at <= 5000
<1>1. PICK a \in {0, 35, 55} : a = (IF p.print # e.print THEN IF soon THEN 55 ELSE 35 ELSE 0)
  OBVIOUS
<1>2. PICK b \in {0, 15} : b = (IF p.visitor.country # e.visitor.country THEN 15 ELSE 0)
  OBVIOUS
<1>3. PICK c \in {0, 10} : c = (IF p.visitor.browser # e.visitor.browser THEN 10 ELSE 0)
  OBVIOUS
<1>4. PICK d \in {0, 10} : d = (IF p.visitor.agent # e.visitor.agent THEN 10 ELSE 0)
  OBVIOUS
<1>5. Telemetry!Change(p, e) = a + b + c + d
  BY <1>1, <1>2, <1>3, <1>4 DEF Telemetry!Change
<1>6. p.print = e.print => a = 0
  BY <1>1
<1> QED BY <1>5, <1>6

\* Before a click there is none near it on its link, or one.
LEMMA NearestIs ==
  ASSUME NEW es, ClickSet(es), NEW e \in es
  PROVE  \/ Telemetry!Nearest(es, e) = {}
         \/ \E p \in es : Telemetry!Nearest(es, e) = {p} /\ p.delivery = e.delivery /\ p.link = e.link
<1> DEFINE S == {x \in es : x.delivery = e.delivery /\ x.link = e.link}
<1> DEFINE s == Telemetry!InOrder(S)
<1> DEFINE n == Cardinality(S)
<1>1. S \in SUBSET es /\ ClickSet(S) /\ e \in S
  BY PartOfClicks
<1>2. n \in Nat /\ s \in [1..n -> S] /\ \A x \in S : \E i \in 1..n : s[i] = x
  <2> HIDE DEF S
  <2> QED BY <1>1, SortedClicks
<1> DEFINE here == CHOOSE i \in DOMAIN s : s[i] = e
<1>3. Telemetry!Nearest(es, e) = IF here > 1 /\ e.at - s[here - 1].at <= Telemetry!NearSpan THEN {s[here - 1]} ELSE {}
  BY DEF Telemetry!Nearest, Telemetry!SameLink
<1>4. \A p \in S : p \in es /\ p.delivery = e.delivery /\ p.link = e.link
  OBVIOUS
<1> HIDE DEF s, S, n
<1>5. here \in 1..n
  BY <1>1, <1>2
<1> HIDE DEF here
<1>6. here > 1 => s[here - 1] \in S
  BY <1>2, <1>5
<1> QED BY <1>3, <1>4, <1>6

LEMMA PointsAre == ASSUME NEW d \in Int PROVE Telemetry!Points(d) \in {70, 80, 90, 95}
BY DEF Telemetry!Points

Between(k) == IF k < 0 THEN 0 ELSE IF k > 100 THEN 100 ELSE k

LEMMA BetweenIs == ASSUME NEW k \in Int PROVE Telemetry!Max({0, Telemetry!Min({100, k})}) = Between(k)
<1>1. Telemetry!Min({100, k}) = IF k > 100 THEN 100 ELSE k
  <2>1. \E x \in {100, k} : \A y \in {100, k} : x <= y
    OBVIOUS
  <2>2. Telemetry!Min({100, k}) \in {100, k} /\ \A y \in {100, k} : Telemetry!Min({100, k}) <= y
    BY <2>1 DEF Telemetry!Min
  <2> QED BY <2>2
<1>2. ASSUME NEW l \in Int PROVE Telemetry!Max({0, l}) = IF l < 0 THEN 0 ELSE l
  <2>1. \E x \in {0, l} : \A y \in {0, l} : x >= y
    OBVIOUS
  <2>2. Telemetry!Max({0, l}) \in {0, l} /\ \A y \in {0, l} : Telemetry!Max({0, l}) >= y
    BY <2>1 DEF Telemetry!Max
  <2> QED BY <2>2
<1> QED BY <1>1, <1>2 DEF Between

\* The weights of a change and of a burst, and what speaks for a person or for a proxy.
Changes == 0..90
Bursts == {0, 70, 80, 90, 95}
Quarter == {0, 25}

\* What the score of a click is the sum of.
MadeOf(es, e, c, b, h, r) ==
  /\ Telemetry!Score(es, e) = Between(5 + c + b - h + r)
  /\ Telemetry!Company(es, e) = {} => b = 0
  /\ Telemetry!Company(es, e) # {} => b # 0 /\ h = 0
  /\ (\A x \in es : x.link = e.link => x.print = e.print) => c <= 35

\* The score of a click that no known proxy asked for, from what speaks for a scanner and a person.
LEMMA ScoreIs ==
  ASSUME NEW es, ClickSet(es), NEW e \in es, ~e.visitor.proxy
  PROVE  \E c \in Changes, b \in Bursts, h \in Quarter, r \in Quarter : MadeOf(es, e, c, b, h, r)
<1> DEFINE near == Telemetry!Nearest(es, e)
<1> DEFINE burst == Telemetry!Distance(es, e)
<1> DEFINE changes == {Telemetry!Change(p, e) : p \in near}
<1> DEFINE points == {Telemetry!Points(d) : d \in burst}
<1>1. \E c \in 0..90 : /\ Telemetry!SumSet(changes) = c
                       /\ (\A x \in es : x.link = e.link => x.print = e.print) => c <= 35
  <2>1. CASE near = {}
    <3>1. changes = {}
      BY <2>1
    <3> HIDE DEF changes
    <3> QED BY <3>1, SumOfNone
  <2>2. CASE near # {}
    <3>1. PICK p \in es : near = {p} /\ p.delivery = e.delivery /\ p.link = e.link
      BY <2>2, NearestIs
    <3> HIDE DEF near
    <3>2. changes = {Telemetry!Change(p, e)}
      BY <3>1
    <3>3. Telemetry!Change(p, e) \in 0..90 /\ (p.print = e.print => Telemetry!Change(p, e) <= 35)
      BY ChangeWeighs
    <3> HIDE DEF changes
    <3>4. Telemetry!SumSet(changes) = Telemetry!Change(p, e)
      BY <3>2, <3>3, SumOfOne
    <3> QED BY <3>1, <3>3, <3>4
  <2> QED BY <2>1, <2>2
<1>2. \E b \in {0, 70, 80, 90, 95} : /\ Telemetry!SumSet(points) = b
                                     /\ Telemetry!Company(es, e) = {} => b = 0 /\ burst = {}
                                     /\ Telemetry!Company(es, e) # {} => b # 0 /\ burst # {}
  <2>1. CASE Telemetry!Company(es, e) = {}
    <3>1. burst = {}
      BY <2>1, WalkFinds
    <3>2. points = {}
      BY <3>1
    <3> HIDE DEF points
    <3> QED BY <2>1, <3>1, <3>2, SumOfNone
  <2>2. CASE Telemetry!Company(es, e) # {}
    <3>1. PICK x \in Telemetry!Company(es, e) : burst = {Telemetry!Apart(x, e)}
      BY <2>2, WalkFinds
    <3>2. Telemetry!Apart(x, e) \in Int
      BY DEF Telemetry!Company, Telemetry!Apart, ClickSet
    <3>3. PICK d \in Int : d = Telemetry!Apart(x, e)
      BY <3>2
    <3> HIDE DEF burst
    <3>4. points = {Telemetry!Points(d)} /\ burst # {}
      BY <3>1, <3>3
    <3>5. Telemetry!Points(d) \in {70, 80, 90, 95}
      BY PointsAre
    <3> HIDE DEF points
    <3>6. Telemetry!SumSet(points) = Telemetry!Points(d)
      BY <3>4, <3>5, SumOfOne
    <3> QED BY <2>2, <3>4, <3>5, <3>6
  <2> QED BY <2>1, <2>2
<1>3. PICK c \in 0..90 : /\ Telemetry!SumSet(changes) = c
                         /\ (\A x \in es : x.link = e.link => x.print = e.print) => c <= 35
  BY <1>1
<1>4. PICK b \in {0, 70, 80, 90, 95} : /\ Telemetry!SumSet(points) = b
                                       /\ Telemetry!Company(es, e) = {} => b = 0 /\ burst = {}
                                       /\ Telemetry!Company(es, e) # {} => b # 0 /\ burst # {}
  BY <1>2
<1>5. PICK h \in {0, 25} :
        h = IF Telemetry!Cardinality(Telemetry!LinksOf(es, e)) >= 2 /\ burst = {} THEN 25 ELSE 0
  OBVIOUS
<1>6. PICK r \in {0, 25} : r = IF e.visitor.relayed THEN 25 ELSE 0
  OBVIOUS
<1> DEFINE k == 5 + c + b - h + r
<1>7. Telemetry!Score(es, e) = Telemetry!Max({0, Telemetry!Min({100, k})})
  <2>1. Telemetry!Score(es, e) =
          IF e.visitor.proxy THEN 100
          ELSE Telemetry!Max({0, Telemetry!Min({100, 5 + Telemetry!SumSet(changes) + Telemetry!SumSet(points)
                 - (IF Telemetry!Cardinality(Telemetry!LinksOf(es, e)) >= 2 /\ burst = {} THEN 25 ELSE 0)
                 + (IF e.visitor.relayed THEN 25 ELSE 0)})})
    BY DEF Telemetry!Score
  <2> HIDE DEF changes, points, burst
  <2>2. 5 + Telemetry!SumSet(changes) + Telemetry!SumSet(points)
                 - (IF Telemetry!Cardinality(Telemetry!LinksOf(es, e)) >= 2 /\ burst = {} THEN 25 ELSE 0)
                 + (IF e.visitor.relayed THEN 25 ELSE 0) = k
    BY <1>3, <1>4, <1>5, <1>6
  <2> HIDE DEF k
  <2> QED BY <2>1, <2>2
<1>8. k \in Int
  OBVIOUS
<1>9. Telemetry!Score(es, e) = Between(k)
  <2> HIDE DEF k
  <2> QED BY <1>7, <1>8, BetweenIs
<1>10. Telemetry!Company(es, e) # {} => h = 0
  BY <1>4, <1>5
<1> HIDE DEF changes, points, burst, near
<1>11. MadeOf(es, e, c, b, h, r)
  BY <1>3, <1>4, <1>9, <1>10 DEF MadeOf
<1>12. c \in Changes /\ b \in Bursts /\ h \in Quarter /\ r \in Quarter
  BY DEF Changes, Bursts, Quarter
<1> QED BY <1>11, <1>12

\* A click that has company weighs enough for a provider's.
LEMMA CompanyTells ==
  ASSUME NEW es, ClickSet(es), NEW e \in es, Telemetry!Company(es, e) # {}
  PROVE  Telemetry!Provider(es, e)
<1>1. CASE e.visitor.proxy
  BY <1>1 DEF Telemetry!Provider, Telemetry!Class
<1>2. CASE ~e.visitor.proxy
  <2>1. PICK c \in 0..90, b \in {70, 80, 90, 95}, r \in {0, 25} :
          Telemetry!Score(es, e) = Between(5 + c + b + r)
    <3>1. PICK c \in Changes, b \in Bursts, h \in Quarter, r \in Quarter : MadeOf(es, e, c, b, h, r)
      BY <1>2, ScoreIs
    <3>2. Telemetry!Score(es, e) = Between(5 + c + b - h + r) /\ b # 0 /\ h = 0
      BY <3>1 DEF MadeOf
    <3>3. 5 + c + b - h + r = 5 + c + b + r /\ c \in 0..90 /\ b \in {70, 80, 90, 95} /\ r \in {0, 25}
      BY <3>2 DEF Changes, Bursts, Quarter
    <3> QED BY <3>2, <3>3
  <2>2. Telemetry!Score(es, e) >= 70
    BY <2>1 DEF Between
  <2> QED BY <1>2, <2>2 DEF Telemetry!Provider, Telemetry!Class
<1> QED BY <1>1, <1>2

\* One without company, on a link that nobody else asked for, does not.
LEMMA AloneIsSpared ==
  ASSUME NEW es, ClickSet(es), NEW e \in es, ~e.visitor.proxy, Telemetry!Company(es, e) = {},
         \A x \in es : x.link = e.link => x.print = e.print
  PROVE  ~Telemetry!Provider(es, e)
<1>1. PICK c \in 0..35, h \in {0, 25}, r \in {0, 25} :
        Telemetry!Score(es, e) = Between(5 + c - h + r)
  <2>1. PICK c \in Changes, b \in Bursts, h \in Quarter, r \in Quarter : MadeOf(es, e, c, b, h, r)
    BY ScoreIs
  <2>2. Telemetry!Score(es, e) = Between(5 + c + b - h + r) /\ b = 0 /\ c <= 35
    BY <2>1 DEF MadeOf
  <2>3. 5 + c + b - h + r = 5 + c - h + r /\ c \in 0..35 /\ h \in {0, 25} /\ r \in {0, 25}
    BY <2>2 DEF Changes, Bursts, Quarter
  <2> QED BY <2>2, <2>3
<1>2. ~(Telemetry!Score(es, e) >= 70)
  BY <1>1 DEF Between
<1> QED BY <1>2 DEF Telemetry!Provider, Telemetry!Class

-----------------------------------------------------------------------------
(***************************************************************************)
(* Opens and clicks: whose address stands beside an event.                 *)
(***************************************************************************)

SomeLinks == {0} \cup UNION {Links[d] : d \in Deliveries}
SomePrints == {Telemetry!Fingerprint(v) : v \in Visitors}
SomeKinds == UNION {m.kinds : m \in RequestLoads}

OpenRows == [id : Nat, delivery : Deliveries, at : Nat, visitor : Visitors]
ClickRows == [id : Nat, delivery : Deliveries, link : SomeLinks, print : SomePrints, at : Nat, visitor : Visitors]
Served ==
  [at : {"insert", "locate", "persist", "retain"}, kind : SomeKinds, delivery : Deliveries, link : SomeLinks,
   visitor : Visitors, time : Nat, id : Nat]

TrackTyped ==
  /\ trMix \in RequestLoads /\ trNow \in Nat
  /\ opens \in Seq(OpenRows) /\ \A k \in 1..Len(opens) : opens[k].id = k /\ opens[k].at <= trNow
  /\ clicks \in Seq(ClickRows) /\ \A k \in 1..Len(clicks) : clicks[k].id = k
  /\ trCall \in [Threads -> {Telemetry!Idle} \cup Served]

\* No two requests are of one instant: the code's clock counts microseconds.
InstantsApart ==
  \A c \in Threads : trCall[c] # Telemetry!Idle =>
    /\ trCall[c].time <= trNow
    /\ \A d \in Threads \ {c} : trCall[d] # Telemetry!Idle => trCall[d].time # trCall[c].time

\* An open of the instant of a request is its own, and is there once the request has inserted it.
InstantsOwned ==
  \A c \in Threads : trCall[c] # Telemetry!Idle =>
    \A k \in 1..Len(opens) : opens[k].at = trCall[c].time =>
      trCall[c].at # "insert" /\ opens[k].visitor = trCall[c].visitor

\* The event that table and id name is of this instant and from this address.
Named(table, i, stamp, address) ==
  \/ /\ table = "open" /\ i \in 1..Len(opens)
     /\ opens[i].at = stamp /\ opens[i].visitor.address = address
  \/ /\ table = "click" /\ i \in 1..Len(clicks)
     /\ clicks[i].at = stamp /\ clicks[i].visitor.address = address

CallNames(q) ==
  /\ q.at = "locate" => q.kind # "click"
  /\ q.at = "persist" => Named(Telemetry!Table(q), q.id, q.time, q.visitor.address)

CallsName == \A c \in Threads, q \in Served : trCall[c] = q => CallNames(q)

\* What makes the rows of the private table safe to join by id.
SidecarNames == \A s \in sidecar : Named(s.kind, s.id, s.at, s.address)

TrackInv ==
  /\ TrackTyped /\ InstantsApart /\ InstantsOwned /\ CallsName /\ SidecarNames
  /\ Telemetry!ShowsItsOwnAddress

LEMMA IdleIsNoRequest == ASSUME NEW q \in Served PROVE q # Telemetry!Idle
<1>1. q.at \in {"insert", "locate", "persist", "retain"}
  BY DEF Served
<1> QED BY <1>1 DEF Telemetry!Idle

LEMMA EventsAre ==
  ASSUME TrackTyped
  PROVE  /\ Len(opens) \in Nat /\ Len(clicks) \in Nat
         /\ DOMAIN opens = 1..Len(opens) /\ DOMAIN clicks = 1..Len(clicks)
         /\ \A k \in 1..Len(opens) :
              /\ opens[k].id = k /\ opens[k].delivery \in Deliveries /\ opens[k].at \in Nat /\ opens[k].visitor \in Visitors
              /\ opens[k].at <= trNow
         /\ \A k \in 1..Len(clicks) : clicks[k].id = k /\ clicks[k].at \in Nat /\ clicks[k].visitor \in Visitors
<1>1. opens \in Seq(OpenRows) /\ clicks \in Seq(ClickRows)
  BY DEF TrackTyped
<1>2. /\ \A k \in 1..Len(opens) : opens[k] \in OpenRows
      /\ \A k \in 1..Len(clicks) : clicks[k] \in ClickRows
  BY <1>1
<1> QED BY <1>1, <1>2 DEF TrackTyped, OpenRows, ClickRows

LEMMA TrackStart == ASSUME Telemetry!Init PROVE TrackInv
<1>1. trMix \in RequestLoads /\ trNow = 0 /\ opens = <<>> /\ clicks = <<>> /\ sidecar = {} /\ shown = {}
      /\ trCall = [c \in Threads |-> Telemetry!Idle]
  BY DEF Telemetry!Init
<1>2. Len(opens) = 0 /\ Len(clicks) = 0 /\ opens \in Seq(OpenRows) /\ clicks \in Seq(ClickRows)
  BY <1>1
<1>3. TrackTyped
  BY <1>1, <1>2 DEF TrackTyped
<1>4. \A c \in Threads : trCall[c] = Telemetry!Idle
  BY <1>1
<1>5. \A c \in Threads, q \in Served : trCall[c] # q
  BY <1>4, IdleIsNoRequest
<1> QED BY <1>1, <1>3, <1>4, <1>5 DEF TrackInv, InstantsApart, InstantsOwned, CallsName, SidecarNames, Telemetry!ShowsItsOwnAddress

\* Events are added and stay.
EventsStay ==
  /\ Len(opens) <= Len(opens') /\ \A k \in 1..Len(opens) : opens'[k] = opens[k]
  /\ Len(clicks) <= Len(clicks') /\ \A k \in 1..Len(clicks) : clicks'[k] = clicks[k]

LEMMA NamesStay ==
  ASSUME TrackTyped, TrackTyped', EventsStay, NEW table, NEW i, NEW stamp, NEW address, Named(table, i, stamp, address)
  PROVE  Named(table, i, stamp, address)'
<1>1. Len(opens) \in Nat /\ Len(clicks) \in Nat /\ Len(opens') \in Nat /\ Len(clicks') \in Nat
  BY DEF TrackTyped
<1>2. 1..Len(opens) \subseteq 1..Len(opens') /\ 1..Len(clicks) \subseteq 1..Len(clicks')
  BY <1>1 DEF EventsStay
<1> QED BY <1>2 DEF Named, EventsStay

LEMMA CallNamesStay ==
  ASSUME TrackTyped, TrackTyped', EventsStay, NEW q \in Served, CallNames(q)
  PROVE  CallNames(q)'
BY NamesStay DEF CallNames

\* One request goes on, or is over, and no event is added.
GoesOn(c, to) ==
  /\ trCall' = [trCall EXCEPT ![c] = to]
  /\ UNCHANGED <<trMix, trNow, opens, clicks, shown>>

LEMMA RequestGoesOn ==
  ASSUME TrackInv, NEW c \in Threads, trCall[c] # Telemetry!Idle, NEW to \in {Telemetry!Idle} \cup Served, GoesOn(c, to),
         to \in Served => /\ to.time = trCall[c].time /\ to.visitor = trCall[c].visitor /\ to.at # "insert"
                           /\ trCall[c].at # "insert" /\ CallNames(to),
         SidecarNames'
  PROVE  TrackInv'
<1>1. /\ trCall \in [Threads -> {Telemetry!Idle} \cup Served] /\ trMix' = trMix /\ trNow' = trNow /\ opens' = opens
      /\ clicks' = clicks /\ shown' = shown
  BY DEF TrackInv, TrackTyped, GoesOn
<1>2. trCall'[c] = to /\ \A d \in Threads \ {c} : trCall'[d] = trCall[d]
  BY <1>1 DEF GoesOn
<1>3. TrackTyped'
  <2>1. trCall' \in [Threads -> {Telemetry!Idle} \cup Served]
    BY <1>1 DEF GoesOn
  <2> QED BY <1>1, <2>1 DEF TrackInv, TrackTyped
<1>9. to # Telemetry!Idle => to \in Served
  OBVIOUS
<1>4. InstantsApart'
  BY <1>1, <1>2, <1>9 DEF TrackInv, InstantsApart
<1>5. InstantsOwned'
  BY <1>1, <1>2, <1>9 DEF TrackInv, InstantsOwned
<1>6. \A q : CallNames(q)' = CallNames(q)
  BY <1>1 DEF CallNames, Named, Telemetry!Table
<1>7. CallsName'
  <2>1. \A d \in Threads, q \in Served : trCall'[d] = q => CallNames(q)
    BY <1>2 DEF TrackInv, CallsName
  <2> QED BY <1>6, <2>1 DEF CallsName
<1>8. Telemetry!ShowsItsOwnAddress'
  BY <1>1 DEF TrackInv, Telemetry!ShowsItsOwnAddress
<1> QED BY <1>3, <1>4, <1>5, <1>7, <1>8 DEF TrackInv

LEMMA TrackPause == ASSUME TrackInv, NEW ms \in Pauses, Telemetry!Pause(ms) PROVE TrackInv'
<1>1. trNow' = trNow + ms /\ UNCHANGED <<trMix, opens, clicks, sidecar, trCall, shown>>
  BY DEF Telemetry!Pause
<1>2. ms \in Nat /\ trNow \in Nat
  BY TrackingConstants DEF TrackInv, TrackTyped
<1>3. TrackTyped'
  <2>1. \A k \in 1..Len(opens) : opens[k].at \in Nat
    BY EventsAre DEF TrackInv
  <2> QED BY <1>1, <1>2, <2>1 DEF TrackInv, TrackTyped
<1>4. InstantsApart'
  <2>1. \A c \in Threads : trCall[c] # Telemetry!Idle => trCall[c].time \in Nat
    BY DEF TrackInv, TrackTyped, Served
  <2> QED BY <1>1, <1>2, <2>1 DEF TrackInv, InstantsApart
<1>5. InstantsOwned' /\ SidecarNames' /\ Telemetry!ShowsItsOwnAddress'
  BY <1>1 DEF TrackInv, InstantsOwned, SidecarNames, Named, Telemetry!ShowsItsOwnAddress
<1>6. CallsName'
  BY <1>1 DEF TrackInv, CallsName, CallNames, Named, Telemetry!Table
<1> QED BY <1>3, <1>4, <1>5, <1>6 DEF TrackInv

LEMMA TrackRequest ==
  ASSUME TrackInv, NEW c \in trMix.threads, NEW kind \in trMix.kinds, NEW d \in Deliveries, NEW l \in SomeLinks,
         NEW v \in Visitors, Telemetry!Request(c, kind, d, l, v)
  PROVE  TrackInv'
<1> DEFINE q == [at |-> "insert", kind |-> kind, delivery |-> d, link |-> l, visitor |-> v, time |-> trNow + 1, id |-> 0]
<1>1. trNow' = trNow + 1 /\ trCall' = [trCall EXCEPT ![c] = q] /\ UNCHANGED <<trMix, opens, clicks, sidecar, shown>>
  BY DEF Telemetry!Request, Telemetry!Goes
<1>2. trNow \in Nat /\ trCall \in [Threads -> {Telemetry!Idle} \cup Served] /\ c \in Threads /\ kind \in SomeKinds
  BY TrackingConstants DEF TrackInv, TrackTyped, SomeKinds
<1>3. q \in Served /\ q.time = trNow + 1 /\ q.at = "insert"
  BY <1>2 DEF Served
<1> HIDE DEF q
<1>4. trCall'[c] = q /\ \A e \in Threads \ {c} : trCall'[e] = trCall[e]
  BY <1>1, <1>2
<1>5. \A k \in 1..Len(opens) : opens[k].at \in Nat /\ opens[k].at <= trNow
  BY EventsAre DEF TrackInv
<1>6. TrackTyped'
  <2>1. trCall' \in [Threads -> {Telemetry!Idle} \cup Served]
    BY <1>1, <1>2, <1>3
  <2> QED BY <1>1, <1>2, <1>5, <2>1 DEF TrackInv, TrackTyped
<1>7. \A e \in Threads : trCall[e] # Telemetry!Idle => trCall[e].time \in Nat /\ trCall[e].time <= trNow
  BY <1>2 DEF TrackInv, InstantsApart, Served
<1>8. InstantsApart'
  BY <1>1, <1>2, <1>3, <1>4, <1>7 DEF TrackInv, InstantsApart
<1>9. InstantsOwned'
  BY <1>1, <1>2, <1>3, <1>4, <1>5 DEF TrackInv, InstantsOwned
<1>10. CallsName'
  <2>1. \A r : CallNames(r)' = CallNames(r)
    BY <1>1 DEF CallNames, Named, Telemetry!Table
  <2>2. CallNames(q)
    BY <1>3 DEF CallNames
  <2>3. \A e \in Threads, r \in Served : trCall'[e] = r => CallNames(r)
    BY <1>4, <2>2 DEF TrackInv, CallsName
  <2> QED BY <2>1, <2>3 DEF CallsName
<1>11. SidecarNames' /\ Telemetry!ShowsItsOwnAddress'
  BY <1>1 DEF TrackInv, SidecarNames, Named, Telemetry!ShowsItsOwnAddress
<1> QED BY <1>6, <1>8, <1>9, <1>10, <1>11 DEF TrackInv

LEMMA VisitIs ==
  ASSUME TrackInv, NEW c \in Threads, trCall[c] # Telemetry!Idle
  PROVE  /\ trCall[c] \in Served /\ trCall[c].time \in Nat /\ trCall[c].time <= trNow
         /\ trCall[c].delivery \in Deliveries /\ trCall[c].visitor \in Visitors /\ trCall[c].link \in SomeLinks
         /\ trCall[c].kind \in SomeKinds
<1>1. trCall[c] \in Served
  BY DEF TrackInv, TrackTyped
<1>2. /\ trCall[c].time \in Nat /\ trCall[c].delivery \in Deliveries /\ trCall[c].visitor \in Visitors
      /\ trCall[c].link \in SomeLinks /\ trCall[c].kind \in SomeKinds
  BY <1>1 DEF Served
<1> QED BY <1>1, <1>2 DEF TrackInv, InstantsApart

\* A request that goes on, seen from its new place.
LEMMA ServedOn ==
  ASSUME NEW q \in Served, NEW stage \in {"locate", "persist", "retain"}
  PROVE  /\ [q EXCEPT !.at = stage] \in Served /\ [q EXCEPT !.at = stage].time = q.time
         /\ [q EXCEPT !.at = stage].visitor = q.visitor /\ [q EXCEPT !.at = stage].at = stage
         /\ [q EXCEPT !.at = stage].kind = q.kind /\ [q EXCEPT !.at = stage].id = q.id
BY DEF Served

Numbered(q, i) == [q EXCEPT !.at = "persist", !.id = i]

LEMMA NumberedOn ==
  ASSUME NEW q \in Served, NEW i \in Nat
  PROVE  /\ Numbered(q, i) \in Served /\ Numbered(q, i).time = q.time /\ Numbered(q, i).visitor = q.visitor
         /\ Numbered(q, i).at = "persist" /\ Numbered(q, i).kind = q.kind /\ Numbered(q, i).id = i
BY DEF Served, Numbered

LEMMA TrackInsertOpen == ASSUME TrackInv, NEW c \in Threads, Telemetry!InsertOpen(c) PROVE TrackInv'
<1> DEFINE q == trCall[c]
<1> DEFINE to == [q EXCEPT !.at = "locate"]
<1> DEFINE added == [id |-> Len(opens) + 1, delivery |-> q.delivery, at |-> q.time, visitor |-> q.visitor]
<1>1. /\ q.at = "insert" /\ q.kind # "click" /\ opens' = Append(opens, added) /\ trCall' = [trCall EXCEPT ![c] = to]
      /\ UNCHANGED <<trMix, trNow, clicks, sidecar, shown>>
  BY DEF Telemetry!InsertOpen, Telemetry!Goes
<1>2. q # Telemetry!Idle
  BY <1>1 DEF Telemetry!Idle
<1>3. /\ q \in Served /\ q.time \in Nat /\ q.time <= trNow /\ q.delivery \in Deliveries /\ q.visitor \in Visitors
  BY <1>2, VisitIs
<1>4. to \in Served /\ to.time = q.time /\ to.visitor = q.visitor /\ to.at = "locate" /\ to.kind = q.kind
  BY <1>3, ServedOn
<1>5. trCall \in [Threads -> {Telemetry!Idle} \cup Served] /\ opens \in Seq(OpenRows) /\ Len(opens) \in Nat
  BY EventsAre DEF TrackInv, TrackTyped
<1> HIDE DEF to
<1>6. trCall'[c] = to /\ \A d \in Threads \ {c} : trCall'[d] = trCall[d]
  BY <1>1, <1>5
<1>7. added \in OpenRows /\ added.id = Len(opens) + 1 /\ added.at = q.time /\ added.visitor = q.visitor
  BY <1>3, <1>5 DEF OpenRows
<1> HIDE DEF added
<1>8. /\ opens' \in Seq(OpenRows) /\ Len(opens') = Len(opens) + 1 /\ opens'[Len(opens) + 1] = added
      /\ \A k \in 1..Len(opens) : opens'[k] = opens[k]
  BY <1>1, <1>5, <1>7
<1>9. \A k \in 1..Len(opens') : k \in 1..Len(opens) \/ k = Len(opens) + 1
  BY <1>5, <1>8
<1>10. TrackTyped'
  <2>1. trCall' \in [Threads -> {Telemetry!Idle} \cup Served]
    BY <1>1, <1>4, <1>5
  <2>2. \A k \in 1..Len(opens') : opens'[k].id = k /\ opens'[k].at <= trNow
    BY <1>3, <1>7, <1>8, <1>9 DEF TrackInv, TrackTyped
  <2> QED BY <1>1, <1>8, <2>1, <2>2 DEF TrackInv, TrackTyped
<1>11. InstantsApart'
  BY <1>1, <1>2, <1>4, <1>6 DEF TrackInv, InstantsApart
<1>12. InstantsOwned'
  <2> SUFFICES ASSUME NEW d \in Threads, trCall'[d] # Telemetry!Idle, NEW k \in 1..Len(opens'),
                      opens'[k].at = trCall'[d].time
               PROVE  trCall'[d].at # "insert" /\ opens'[k].visitor = trCall'[d].visitor
    BY DEF InstantsOwned
  <2>1. CASE d = c /\ k = Len(opens) + 1
    BY <2>1, <1>4, <1>6, <1>7, <1>8
  <2>2. CASE d = c /\ k \in 1..Len(opens)
    <3>1. opens[k].at = q.time
      BY <2>2, <1>4, <1>6, <1>8
    <3> QED BY <3>1, <2>2, <1>1, <1>2 DEF TrackInv, InstantsOwned
  <2>3. CASE d # c /\ k \in 1..Len(opens)
    BY <2>3, <1>6, <1>8 DEF TrackInv, InstantsOwned
  <2>4. CASE d # c /\ k = Len(opens) + 1
    <3>1. trCall[d] # Telemetry!Idle /\ trCall[d].time = q.time
      BY <2>4, <1>6, <1>7, <1>8
    <3> QED BY <3>1, <2>4, <1>2 DEF TrackInv, InstantsApart
  <2> QED BY <2>1, <2>2, <2>3, <2>4, <1>9
<1>13. EventsStay
  BY <1>1, <1>5, <1>8, EventsAre DEF EventsStay, TrackInv
<1>14. CallsName'
  <2>1. \A d \in Threads, r \in Served : trCall'[d] = r => CallNames(r)
    <3>1. \A r \in Served : to = r => CallNames(r)
      BY <1>1, <1>4 DEF CallNames
    <3> QED BY <3>1, <1>6 DEF TrackInv, CallsName
  <2>2. \A r \in Served : CallNames(r) => CallNames(r)'
    BY <1>10, <1>13, CallNamesStay DEF TrackInv
  <2> QED BY <2>1, <2>2 DEF CallsName
<1>15. SidecarNames'
  BY <1>1, <1>10, <1>13, NamesStay DEF TrackInv, SidecarNames
<1>16. Telemetry!ShowsItsOwnAddress'
  BY <1>1 DEF TrackInv, Telemetry!ShowsItsOwnAddress
<1> QED BY <1>10, <1>11, <1>12, <1>14, <1>15, <1>16 DEF TrackInv

LEMMA TrackInsertClick == ASSUME TrackInv, NEW c \in Threads, Telemetry!InsertClick(c) PROVE TrackInv'
<1> DEFINE q == trCall[c]
<1> DEFINE to == [q EXCEPT !.at = "persist", !.id = Len(clicks) + 1]
<1> DEFINE added == [id |-> Len(clicks) + 1, delivery |-> q.delivery, link |-> q.link,
                     print |-> Telemetry!Fingerprint(q.visitor), at |-> q.time, visitor |-> q.visitor]
<1>1. /\ q.at = "insert" /\ q.kind = "click" /\ clicks' = Append(clicks, added) /\ trCall' = [trCall EXCEPT ![c] = to]
      /\ UNCHANGED <<trMix, trNow, opens, sidecar, shown>>
  BY DEF Telemetry!InsertClick, Telemetry!Goes
<1>2. q # Telemetry!Idle
  BY <1>1 DEF Telemetry!Idle
<1>3. /\ q \in Served /\ q.time \in Nat /\ q.time <= trNow /\ q.delivery \in Deliveries /\ q.visitor \in Visitors
      /\ q.link \in SomeLinks
  BY <1>2, VisitIs
<1>5. /\ trCall \in [Threads -> {Telemetry!Idle} \cup Served] /\ clicks \in Seq(ClickRows) /\ Len(clicks) \in Nat
      /\ opens \in Seq(OpenRows)
  BY EventsAre DEF TrackInv, TrackTyped
<1>4. /\ to \in Served /\ to.time = q.time /\ to.visitor = q.visitor /\ to.at = "persist" /\ to.kind = q.kind
      /\ to.id = Len(clicks) + 1
  <2>1. Len(clicks) + 1 \in Nat
    BY <1>5
  <2>2. to = Numbered(q, Len(clicks) + 1)
    BY DEF Numbered
  <2> HIDE DEF to
  <2> QED BY <1>3, <2>1, <2>2, NumberedOn
<1> HIDE DEF to
<1>6. trCall'[c] = to /\ \A d \in Threads \ {c} : trCall'[d] = trCall[d]
  BY <1>1, <1>5
<1>7. added \in ClickRows /\ added.id = Len(clicks) + 1 /\ added.at = q.time /\ added.visitor = q.visitor
  <2>1. Telemetry!Fingerprint(q.visitor) \in SomePrints
    BY <1>3 DEF SomePrints
  <2> QED BY <1>3, <1>5, <2>1 DEF ClickRows
<1> HIDE DEF added
<1>8. /\ clicks' \in Seq(ClickRows) /\ Len(clicks') = Len(clicks) + 1 /\ clicks'[Len(clicks) + 1] = added
      /\ \A k \in 1..Len(clicks) : clicks'[k] = clicks[k]
  BY <1>1, <1>5, <1>7
<1>9. \A k \in 1..Len(clicks') : k \in 1..Len(clicks) \/ k = Len(clicks) + 1
  BY <1>5, <1>8
<1>10. TrackTyped'
  <2>1. trCall' \in [Threads -> {Telemetry!Idle} \cup Served]
    BY <1>1, <1>4, <1>5
  <2>2. \A k \in 1..Len(clicks') : clicks'[k].id = k
    BY <1>7, <1>8, <1>9 DEF TrackInv, TrackTyped
  <2> QED BY <1>1, <1>8, <2>1, <2>2 DEF TrackInv, TrackTyped
<1>11. InstantsApart'
  BY <1>1, <1>2, <1>4, <1>6 DEF TrackInv, InstantsApart
<1>12. InstantsOwned'
  <2>1. \A k \in 1..Len(opens) : opens[k].at # q.time
    BY <1>1, <1>2 DEF TrackInv, InstantsOwned
  <2> QED BY <2>1, <1>1, <1>4, <1>6 DEF TrackInv, InstantsOwned
<1>13. EventsStay
  BY <1>1, <1>5, <1>8, EventsAre DEF EventsStay, TrackInv
<1>14. CallsName'
  <2>1. \A d \in Threads, r \in Served : trCall'[d] = r => CallNames(r)'
    <3> SUFFICES ASSUME NEW d \in Threads, NEW r \in Served, trCall'[d] = r PROVE CallNames(r)'
      OBVIOUS
    <3>1. CASE d = c
      <4>1. r = to
        BY <3>1, <1>6
      <4>2. r.at = "persist" /\ r.kind = "click" /\ r.id = Len(clicks) + 1 /\ r.time = q.time /\ r.visitor = q.visitor
        BY <4>1, <1>1, <1>4
      <4>3. r.id \in 1..Len(clicks') /\ clicks'[r.id].at = r.time /\ clicks'[r.id].visitor.address = r.visitor.address
        BY <4>2, <1>5, <1>7, <1>8
      <4> QED BY <4>2, <4>3 DEF CallNames, Named, Telemetry!Table
    <3>2. CASE d # c
      <4>1. CallNames(r)
        BY <3>2, <1>6 DEF TrackInv, CallsName
      <4> QED BY <4>1, <1>10, <1>13, CallNamesStay DEF TrackInv
    <3> QED BY <3>1, <3>2
  <2> QED BY <2>1 DEF CallsName
<1>15. SidecarNames'
  BY <1>1, <1>10, <1>13, NamesStay DEF TrackInv, SidecarNames
<1>16. Telemetry!ShowsItsOwnAddress'
  BY <1>1 DEF TrackInv, Telemetry!ShowsItsOwnAddress
<1> QED BY <1>10, <1>11, <1>12, <1>14, <1>15, <1>16 DEF TrackInv

\* What moves no call and no event leaves the rest of the invariant to the private table.
LEMMA SameNames ==
  ASSUME SidecarNames, UNCHANGED <<opens, clicks, sidecar>>
  PROVE  SidecarNames'
BY DEF SidecarNames, Named

LEMMA FewerNames ==
  ASSUME SidecarNames, UNCHANGED <<opens, clicks>>, sidecar' = Telemetry!Retained
  PROVE  SidecarNames'
BY DEF SidecarNames, Named, Telemetry!Retained

LEMMA TrackInsertGeneric == ASSUME TrackInv, NEW c \in Threads, Telemetry!InsertGeneric(c) PROVE TrackInv'
<1>1. trCall[c] # Telemetry!Idle /\ GoesOn(c, Telemetry!Idle) /\ sidecar' = sidecar
  BY DEF Telemetry!InsertGeneric, Telemetry!Goes, Telemetry!Idle, GoesOn
<1>2. SidecarNames'
  BY <1>1, SameNames DEF TrackInv, GoesOn
<1> QED BY <1>1, <1>2, IdleIsNoRequest, RequestGoesOn

LEMMA TrackLocate == ASSUME TrackInv, NEW c \in Threads, Telemetry!Locate(c) PROVE TrackInv'
<1> DEFINE q == trCall[c]
<1> DEFINE ids == {o.id : o \in Telemetry!OfItsInstant(q)}
<1> DEFINE to == IF ids = {} THEN Telemetry!Idle ELSE [q EXCEPT !.at = "persist", !.id = Telemetry!Max(ids)]
<1>1. q.at = "locate" /\ GoesOn(c, to) /\ sidecar' = sidecar
  BY DEF Telemetry!Locate, Telemetry!Goes, GoesOn
<1>2. q # Telemetry!Idle
  BY <1>1 DEF Telemetry!Idle
<1>3. q \in Served /\ q.time \in Nat /\ q.visitor \in Visitors
  BY <1>2, VisitIs
<1>4. SidecarNames'
  BY <1>1, SameNames DEF TrackInv, GoesOn
<1>5. CASE ids = {}
  <2>1. to = Telemetry!Idle
    BY <1>5
  <2> QED BY <2>1, <1>1, <1>2, <1>4, IdleIsNoRequest, RequestGoesOn
<1>6. CASE ids # {}
  <2>1. \A i \in ids : i \in 1..Len(opens) /\ opens[i].at = q.time
    <3>1. \A o \in Telemetry!OfItsInstant(q) : \E k \in 1..Len(opens) : o = opens[k] /\ o.at = q.time
      BY EventsAre DEF TrackInv, Telemetry!OfItsInstant, Telemetry!ToSet
    <3>2. \A k \in 1..Len(opens) : opens[k].id = k
      BY EventsAre DEF TrackInv
    <3> QED BY <3>1, <3>2
  <2>2. Telemetry!Max(ids) \in ids
    <3>1. ids \in SUBSET (1..Len(opens)) /\ Len(opens) \in Nat
      BY <2>1, EventsAre DEF TrackInv
    <3> HIDE DEF ids
    <3> QED BY <3>1, <1>6, LastIs
  <2>3. PICK i \in 1..Len(opens) : i = Telemetry!Max(ids) /\ opens[i].at = q.time
    BY <2>1, <2>2
  <2>4. to = [q EXCEPT !.at = "persist", !.id = i] /\ i \in Nat
    <3>1. i \in Nat
      BY EventsAre DEF TrackInv
    <3> HIDE DEF ids
    <3> QED BY <3>1, <2>3, <1>6
  <2> HIDE DEF to, ids
  <2>5. to \in Served /\ to.time = q.time /\ to.visitor = q.visitor /\ to.at = "persist" /\ to.kind = q.kind /\ to.id = i
    <3>1. to = Numbered(q, i)
      BY <2>4 DEF Numbered
    <3>2. i \in Nat
      BY <2>4
    <3> HIDE DEF q
    <3> QED BY <3>1, <3>2, <1>3, NumberedOn
  <2>6. opens[i].visitor = q.visitor
    BY <2>3, <1>2 DEF TrackInv, InstantsOwned
  <2>7. q.kind # "click"
    BY <1>1, <1>3 DEF TrackInv, CallsName, CallNames
  <2>8. CallNames(to)
    BY <2>3, <2>5, <2>6, <2>7 DEF CallNames, Named, Telemetry!Table
  <2> QED BY <2>5, <2>8, <1>1, <1>2, <1>4, RequestGoesOn
<1> QED BY <1>5, <1>6

LEMMA TrackPersist == ASSUME TrackInv, NEW c \in Threads, Telemetry!Persist(c) PROVE TrackInv'
<1> DEFINE q == trCall[c]
<1> DEFINE to == [q EXCEPT !.at = "retain"]
<1>1. /\ q.at = "persist" /\ GoesOn(c, to)
      /\ sidecar' = {s \in sidecar : ~(s.kind = Telemetry!Table(q) /\ s.id = q.id)}
            \cup {[kind |-> Telemetry!Table(q), id |-> q.id, at |-> q.time, address |-> q.visitor.address]}
  BY DEF Telemetry!Persist, Telemetry!Goes, GoesOn
<1>2. q # Telemetry!Idle
  BY <1>1 DEF Telemetry!Idle
<1>3. q \in Served
  BY <1>2, VisitIs
<1>4. to \in Served /\ to.time = q.time /\ to.visitor = q.visitor /\ to.at = "retain"
  BY <1>3, ServedOn
<1>5. Named(Telemetry!Table(q), q.id, q.time, q.visitor.address)
  BY <1>1, <1>3 DEF TrackInv, CallsName, CallNames
<1>6. SidecarNames'
  <2>1. \A s \in sidecar' : Named(s.kind, s.id, s.at, s.address)
    <3> SUFFICES ASSUME NEW s \in sidecar' PROVE Named(s.kind, s.id, s.at, s.address)
      OBVIOUS
    <3>1. CASE s \in sidecar
      BY <3>1 DEF TrackInv, SidecarNames
    <3>2. CASE s = [kind |-> Telemetry!Table(q), id |-> q.id, at |-> q.time, address |-> q.visitor.address]
      BY <3>2, <1>5
    <3> QED BY <3>1, <3>2, <1>1
  <2>2. opens' = opens /\ clicks' = clicks
    BY <1>1 DEF GoesOn
  <2> QED BY <2>1, <2>2 DEF SidecarNames, Named
<1>7. CallNames(to)
  BY <1>4 DEF CallNames
<1> HIDE DEF to
<1> QED BY <1>1, <1>2, <1>4, <1>6, <1>7, RequestGoesOn

LEMMA TrackRetain == ASSUME TrackInv, NEW c \in Threads, Telemetry!Retain(c) PROVE TrackInv'
<1>1. trCall[c] # Telemetry!Idle /\ GoesOn(c, Telemetry!Idle) /\ sidecar' = Telemetry!Retained
  BY DEF Telemetry!Retain, Telemetry!Goes, Telemetry!Idle, GoesOn
<1>2. SidecarNames'
  BY <1>1, FewerNames DEF TrackInv, GoesOn
<1> QED BY <1>1, <1>2, IdleIsNoRequest, RequestGoesOn

LEMMA TrackRestart == ASSUME TrackInv, Telemetry!Restart PROVE TrackInv'
<1>1. /\ trCall' = [c \in Threads |-> Telemetry!Idle] /\ sidecar' = Telemetry!Retained
      /\ UNCHANGED <<trMix, trNow, opens, clicks, shown>>
  BY DEF Telemetry!Restart
<1>2. \A c \in Threads : trCall'[c] = Telemetry!Idle
  BY <1>1
<1>3. \A c \in Threads, q \in Served : trCall'[c] # q
  BY <1>2, IdleIsNoRequest
<1>4. TrackTyped'
  BY <1>1 DEF TrackInv, TrackTyped
<1>5. InstantsApart' /\ InstantsOwned'
  BY <1>2 DEF InstantsApart, InstantsOwned
<1>6. CallsName'
  BY <1>3 DEF CallsName
<1>7. SidecarNames'
  BY <1>1, FewerNames DEF TrackInv
<1>8. Telemetry!ShowsItsOwnAddress'
  BY <1>1 DEF TrackInv, Telemetry!ShowsItsOwnAddress
<1> QED BY <1>4, <1>5, <1>6, <1>7, <1>8 DEF TrackInv

\* What is joined by id is joined with its own row.
LEMMA JoinsItsOwn ==
  ASSUME TrackInv, NEW s,
         s \in Telemetry!Shown("open", opens) \/ s \in Telemetry!Shown("click", clicks)
  PROVE  s.address = s.event.visitor.address /\ s.event.at >= s.time - Retention
<1>1. trNow \in Nat /\ Retention \in Nat
  BY TrackingConstants DEF TrackInv, TrackTyped
<1>2. \A r \in Telemetry!Retained : r \in sidecar /\ r.at >= trNow - Retention
  BY DEF Telemetry!Retained
<1>3. CASE s \in Telemetry!Shown("open", opens)
  <2>1. PICK o \in Telemetry!ToSet(opens), r \in Telemetry!Retained :
          /\ r.kind = "open" /\ r.id = o.id
          /\ s = [kind |-> "open", event |-> o, address |-> r.address, time |-> trNow]
    BY <1>3 DEF Telemetry!Shown
  <2>2. PICK k \in 1..Len(opens) : o = opens[k] /\ o.id = k
    BY EventsAre DEF TrackInv, Telemetry!ToSet
  <2>3. opens[k].at = r.at /\ opens[k].visitor.address = r.address
    BY <2>1, <2>2, <1>2 DEF TrackInv, SidecarNames, Named
  <2> QED BY <2>1, <2>2, <2>3, <1>2
<1>4. CASE s \in Telemetry!Shown("click", clicks)
  <2>1. PICK o \in Telemetry!ToSet(clicks), r \in Telemetry!Retained :
          /\ r.kind = "click" /\ r.id = o.id
          /\ s = [kind |-> "click", event |-> o, address |-> r.address, time |-> trNow]
    BY <1>4 DEF Telemetry!Shown
  <2>2. PICK k \in 1..Len(clicks) : o = clicks[k] /\ o.id = k
    BY EventsAre DEF TrackInv, Telemetry!ToSet
  <2>3. clicks[k].at = r.at /\ clicks[k].visitor.address = r.address
    BY <2>1, <2>2, <1>2 DEF TrackInv, SidecarNames, Named
  <2> QED BY <2>1, <2>2, <2>3, <1>2
<1> QED BY <1>3, <1>4

LEMMA TrackLook == ASSUME TrackInv, Telemetry!Look PROVE TrackInv'
<1>1. /\ sidecar' = Telemetry!Retained
      /\ shown' = Telemetry!Shown("open", opens) \cup Telemetry!Shown("click", clicks)
      /\ UNCHANGED <<trMix, trNow, opens, clicks, trCall>>
  BY DEF Telemetry!Look
<1>2. TrackTyped' /\ InstantsApart' /\ InstantsOwned'
  BY <1>1 DEF TrackInv, TrackTyped, InstantsApart, InstantsOwned
<1>3. CallsName'
  BY <1>1 DEF TrackInv, CallsName, CallNames, Named
<1>4. SidecarNames'
  BY <1>1, FewerNames DEF TrackInv
<1>5. Telemetry!ShowsItsOwnAddress'
  <2>1. \A s \in shown' : s.address = s.event.visitor.address /\ s.event.at >= s.time - Retention
    BY <1>1, JoinsItsOwn
  <2> QED BY <2>1 DEF Telemetry!ShowsItsOwnAddress
<1> QED BY <1>2, <1>3, <1>4, <1>5 DEF TrackInv

LEMMA TrackKeeps == ASSUME TrackInv, Telemetry!Next PROVE TrackInv'
<1>1. ASSUME NEW c \in trMix.threads, Telemetry!Asks(c) PROVE TrackInv'
  <2>1. PICK d \in Deliveries, v \in Visitors :
          \/ \E kind \in trMix.kinds \ {"click", "generic"} : Telemetry!Request(c, kind, d, 0, v)
          \/ \E kind \in trMix.kinds \cap {"click", "generic"}, l \in Links[d] : Telemetry!Request(c, kind, d, l, v)
    BY <1>1 DEF Telemetry!Asks
  <2>2. 0 \in SomeLinks /\ \A l \in Links[d] : l \in SomeLinks
    BY DEF SomeLinks
  <2> QED BY <2>1, <2>2, TrackRequest
<1>2. ASSUME NEW c \in trMix.threads, Telemetry!Serve(c) PROVE TrackInv'
  <2>1. c \in Threads
    BY TrackingConstants DEF TrackInv, TrackTyped
  <2> QED BY <1>2, <2>1, TrackInsertOpen, TrackInsertClick, TrackInsertGeneric, TrackLocate, TrackPersist, TrackRetain
       DEF Telemetry!Serve
<1> QED BY <1>1, <1>2, TrackPause, TrackRestart, TrackLook DEF Telemetry!Next

LEMMA TrackTurns == TrackInv /\ [AllNext]_allVars => TrackInv'
<1> SUFFICES ASSUME TrackInv, [AllNext]_allVars PROVE TrackInv'
  OBVIOUS
<1>1. CASE Telemetry!Next
  BY <1>1, TrackKeeps
<1>2. CASE UNCHANGED telemetryVars
  BY <1>2 DEF telemetryVars, TrackInv, TrackTyped, InstantsApart, InstantsOwned, CallsName, CallNames, SidecarNames,
              Named, Telemetry!ShowsItsOwnAddress
<1>3. Telemetry!Next \/ UNCHANGED telemetryVars
  BY DEF AllNext, allVars
<1> QED BY <1>1, <1>2, <1>3

\* Clicks that are stored are told apart by their ids, whatever their order.
LEMMA StoredClicks == ASSUME TrackInv PROVE ClickSet(Telemetry!Clicks)
<1> DEFINE n == Len(clicks)
<1> DEFINE W == Telemetry!Clicks
<1>1. n \in Nat /\ DOMAIN clicks = 1..n
      /\ \A k \in 1..n : clicks[k].id = k /\ clicks[k].at \in Nat /\ clicks[k].visitor \in Visitors
  BY EventsAre DEF TrackInv
<1>2. \A x \in W : \E k \in 1..n : x = clicks[k]
  BY <1>1 DEF Telemetry!Clicks, Telemetry!ToSet
<1>3. \A k \in 1..n : clicks[k] \in W
  BY <1>1 DEF Telemetry!Clicks, Telemetry!ToSet
<1>4. IsFiniteSet(W)
  <2> DEFINE f == [k \in 1..n |-> clicks[k]]
  <2>1. f \in Surjection(1..n, W)
    <3>1. f \in [1..n -> W]
      BY <1>3
    <3>2. \A x \in W : \E k \in 1..n : f[k] = x
      BY <1>2
    <3> HIDE DEF f, W, n
    <3> QED BY <3>1, <3>2 DEF Surjection
  <2>2. IsFiniteSet(1..n)
    BY <1>1, FS_Interval
  <2> HIDE DEF f, W
  <2> QED BY <2>1, <2>2, FS_Surjection
<1>5. \A x \in W : x.at \in Int /\ x.id \in Int /\ x.visitor.proxy \in BOOLEAN /\ x.visitor.relayed \in BOOLEAN
  BY <1>1, <1>2, TrackingConstants
<1>6. \A x, y \in W : x.id = y.id => x = y
  <2> SUFFICES ASSUME NEW x \in W, NEW y \in W, x.id = y.id PROVE x = y
    OBVIOUS
  <2>1. PICK k \in 1..n : x = clicks[k]
    BY <1>2
  <2>2. PICK l \in 1..n : y = clicks[l]
    BY <1>2
  <2> QED BY <2>1, <2>2, <1>1
<1> QED BY <1>4, <1>5, <1>6 DEF ClickSet

LEMMA TelemetryTells == ASSUME TrackInv PROVE TelemetrySafety
<1> DEFINE W == Telemetry!Clicks
<1>1. ClickSet(W)
  BY StoredClicks
<1>2. Telemetry!EvidenceIsNearest
  BY <1>1, NearestFound DEF Telemetry!EvidenceIsNearest
<1>3. Telemetry!BurstTold
  BY <1>1, CompanyTells DEF Telemetry!BurstTold
<1>4. Telemetry!PersonSpared
  <2> SUFFICES ASSUME NEW e \in W, ~e.visitor.proxy, Telemetry!Company(W, e) = {},
                      \A x \in Telemetry!OfLink(e.link) : x.print = e.print,
                      NEW es \in {W, Telemetry!OfLink(e.link)}
               PROVE  ~Telemetry!Provider(es, e)
    BY DEF Telemetry!PersonSpared
  <2>1. \A x : x \in Telemetry!OfLink(e.link) <=> x \in W /\ x.link = e.link
    BY DEF Telemetry!OfLink
  <2>2. CASE es = W
    BY <1>1, <2>1, <2>2, AloneIsSpared
  <2>3. CASE es = Telemetry!OfLink(e.link)
    <3>1. es \in SUBSET W /\ e \in es
      BY <2>1, <2>3
    <3>2. ClickSet(es)
      BY <1>1, <3>1, PartOfClicks
    <3>3. Telemetry!Company(es, e) = {}
      BY <2>1, <2>3 DEF Telemetry!Company
    <3>4. \A x \in es : x.link = e.link => x.print = e.print
      BY <2>3
    <3> HIDE DEF W
    <3> QED BY <3>1, <3>2, <3>3, <3>4, AloneIsSpared
  <2> QED BY <2>2, <2>3
<1> QED BY <1>2, <1>3, <1>4 DEF TrackInv, TelemetrySafety

\* Whatever is stored for the visitors of a mail, however their requests are served at once, die or
\* fail: what the dashboard shows beside an event is the address it came from and no older than the
\* retention; the evidence of a burst is the nearest there is, and tells a provider's scanner; and a
\* person who clicks alone is not taken for one.
THEOREM TelemetryHolds == AllSpec => []TelemetrySafety
<1>1. AllInit => TrackInv
  BY TrackStart DEF AllInit
<1> QED BY <1>1, TelemetryTells, TrackTurns, PTL DEF AllSpec

=============================================================================
