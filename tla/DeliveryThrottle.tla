-------------------------- MODULE DeliveryThrottle --------------------------
(***************************************************************************)
(* ThrottleController.acquire (delivery_reliability.py): every attempt of  *)
(* an SMTP leg takes a place in the window of the whole server, of its     *)
(* account and of each recipient domain, or sleeps until the fullest of    *)
(* them has one.  The legs of all threads share one controller, which has  *)
(* no queue of sleepers: whoever asks when there is room is served, and    *)
(* there is no end of legs.                                                *)
(*                                                                         *)
(* One second is Window instants.  A time stamp is kept as its age, which  *)
(* is not told apart beyond a second; a request is the set of the windows  *)
(* it needs; a sleeper may come late.                                      *)
(***************************************************************************)
EXTENDS Naturals, Sequences, FiniteSets, FiniteSetsExt

CONSTANTS
  Senders,
  Requests,   \* the sets of windows that a leg may need
  Limit,      \* places of each window: SMTP_THROTTLE_*_PER_SECOND
  Window

VARIABLES
  queue,    \* the deque of each window: ages, the oldest first
  sender,   \* each sender: idle, asking, or asleep for the rest of its delay
  granted   \* history of the last second: [age, no, needs] of every place taken in it

vars == <<queue, sender, granted>>

Windows == UNION Requests
Resting == [at |-> "idle"]

\* what is assumed of the constants; the module that instantiates them asserts it
ConstantsAssumption ==
  /\ {} \notin Requests
  /\ \A w \in Windows : Limit[w] \in Nat \ {0}
  /\ Window \in Nat \ {0}

Init ==
  /\ queue = [w \in Windows |-> <<>>]
  /\ sender = [s \in Senders |-> Resting]
  /\ granted = {}

Older(age) == IF age < Window THEN age + 1 ELSE age

\* time goes on for all of them
Advance ==
  /\ queue' = [w \in Windows |-> [k \in 1..Len(queue[w]) |-> Older(queue[w][k])]]
  /\ sender' = [s \in Senders |-> IF sender[s].at = "asleep" /\ sender[s].left > 0
                                  THEN [sender[s] EXCEPT !.left = @ - 1] ELSE sender[s]]
  /\ granted' = {[g EXCEPT !.age = @ + 1] : g \in {h \in granted : h.age + 1 < Window}}

Request(s, needs) ==
  /\ sender[s] = Resting
  /\ sender' = [sender EXCEPT ![s] = [at |-> "asks", needs |-> needs]]
  /\ UNCHANGED <<queue, granted>>

\* the head is taken off while it is old
Trim(q) == SubSeq(q, Min({k \in 1..(Len(q) + 1) : k > Len(q) \/ q[k] < Window}), Len(q))

\* a plausible slip: a window that is full only when it is over-full
WaitLate(q, limit) == IF Len(q) <= limit THEN 0 ELSE Window - Head(q)

Wait(q, limit) == IF Len(q) < limit THEN 0 ELSE Window - Head(q)

\* the place is told from the others of its instant
Place(needs) == [age |-> 0, no |-> Cardinality({g \in granted : g.age = 0}), needs |-> needs]

\* a plausible slip: a place is taken in each window that is open before the others are looked at
AcquireEager(s) ==
  /\ sender[s].at = "asks"
  /\ LET needs == sender[s].needs
         delay == Max({Wait(Trim(queue[w]), Limit[w]) : w \in needs})
         Open(w) == Wait(Trim(queue[w]), Limit[w]) = 0
     IN /\ queue' = [w \in Windows |-> IF w \notin needs THEN queue[w]
                                     ELSE IF Open(w) THEN Append(Trim(queue[w]), 0) ELSE Trim(queue[w])]
        /\ IF delay = 0
           THEN /\ granted' = granted \cup {Place(needs)}
                /\ sender' = [sender EXCEPT ![s] = Resting]
           ELSE /\ sender' = [sender EXCEPT ![s] = [at |-> "asleep", needs |-> needs, left |-> delay]]
                /\ UNCHANGED granted

\* one round under the lock: all windows are trimmed, and all of them are written or none
Acquire(s) ==
  /\ sender[s].at = "asks"
  /\ LET needs == sender[s].needs
         delay == Max({Wait(Trim(queue[w]), Limit[w]) : w \in needs})
         trimmed == [w \in Windows |-> IF w \in needs THEN Trim(queue[w]) ELSE queue[w]]
     IN IF delay = 0
        THEN /\ queue' = [w \in Windows |-> IF w \in needs THEN Append(trimmed[w], 0) ELSE trimmed[w]]
             /\ granted' = granted \cup {Place(needs)}
             /\ sender' = [sender EXCEPT ![s] = Resting]
        ELSE /\ queue' = trimmed
             /\ sender' = [sender EXCEPT ![s] = [at |-> "asleep", needs |-> needs, left |-> delay]]
             /\ UNCHANGED granted

Wake(s) ==
  /\ sender[s].at = "asleep" /\ sender[s].left = 0
  /\ sender' = [sender EXCEPT ![s] = [at |-> "asks", needs |-> @.needs]]
  /\ UNCHANGED <<queue, granted>>

Next ==
  \/ Advance
  \/ \E s \in Senders :
       \/ \E needs \in Requests : Request(s, needs)
       \/ Acquire(s) \/ Wake(s)

Spec == Init /\ [][Next]_vars

\* time goes on, and a thread that can run does; whether another leg comes is open
Fairness == WF_vars(Advance) /\ \A s \in Senders : WF_vars(Acquire(s) \/ Wake(s))

-----------------------------------------------------------------------------
(* What must hold.                                                         *)

\* A sliding window, not a calendar second: at every instant the places that were taken within the
\* second that ends there exceed no limit of the server, an account or a domain.
RateKept == \A w \in Windows : Cardinality({g \in granted : w \in g.needs}) <= Limit[w]

\* Another leg takes a place in a window that the leg of s needs.
Overtaken(s) ==
  \E r \in Senders \ {s} :
    /\ sender[r].at = "asks" /\ sender'[r].at = "idle"
    /\ sender[s].at # "idle" /\ sender[s].needs \cap sender[r].needs # {}

\* A leg that needs several windows, all of which must be open at once, gets its places, unless
\* others take places it needs for ever.
AcquireEnds ==
  \A s \in Senders : []<><<Overtaken(s)>>_vars \/ (sender[s].at # "idle" ~> sender[s].at = "idle")

=============================================================================
