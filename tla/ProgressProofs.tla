--------------------------- MODULE ProgressProofs ---------------------------
(***************************************************************************)
(* What is proved of the parts that MCProgress puts side by side, for      *)
(* every value of their constants: the limits of the throttle hold in      *)
(* every second; the Privacy Proxy's Worker and Postmaster stay in step    *)
(* and the secret in use is held with one call at a time, and a secret     *)
(* that was given up never comes back, however many calls overlap.         *)
(***************************************************************************)
EXTENDS MCProgress, TLAPS, FiniteSetTheorems, SequenceTheorems, WellFoundedInduction

-----------------------------------------------------------------------------
(***************************************************************************)
(* The throttle.                                                           *)
(***************************************************************************)

\* The places of a window that are at most so old.
Since(w, a) == {g \in granted : w \in g.needs /\ g.age <= a}

\* The n newest entries of a queue are at most so old.
Keeps(q, n, a) == n <= Len(q) /\ \A m \in 1..n : q[Len(q) + 1 - m] <= a

\* What a window's queue has lost is a second old.
QueueKeeps ==
  \A w \in Throttle!Windows, a \in 0..(Second - 1) : Keeps(queue[w], Cardinality(Since(w, a)), a)

Rated == \A w \in Throttle!Windows : Cardinality(Since(w, Second - 1)) <= Places[w]

Ages == 0..Second

QueueFits(q) == q \in Seq(Ages)

Taken == [age : 0..(Second - 1), no : Nat, needs : Legs]

ThrottleFits ==
  /\ DOMAIN queue = Throttle!Windows /\ \A w \in Throttle!Windows : QueueFits(queue[w])
  /\ DOMAIN sender = Senders
  /\ \A s \in Senders : sender[s].at # "idle" => sender[s].needs \in Legs
  /\ IsFiniteSet(granted) /\ granted \subseteq Taken

RateInv == ThrottleFits /\ QueueKeeps /\ Rated

LEMMA RateConstants ==
  /\ Second \in Nat \ {0} /\ {} \notin Legs
  /\ \A w \in Throttle!Windows : Places[w] \in Nat \ {0}
  BY ProgressAssumption DEF Throttle!ConstantsAssumption

LEMMA Cards == ASSUME NEW S PROVE Throttle!Cardinality(S) = Cardinality(S)
  BY DEF Throttle!Cardinality, Cardinality

LEMMA LeastIs ==
  ASSUME NEW S \in SUBSET Nat, S # {}
  PROVE  \E x \in S : \A y \in S : x <= y
<1>1. PICK m \in S : \A n \in S : ~(<<n, m>> \in OpToRel(<, Nat))
  BY WFMin, NatLessThanWellFounded
<1>2. \A n \in S : ~(n < m)
  BY <1>1 DEF OpToRel
<1> QED BY <1>2

\* The longest of several bounded waits is one of them.
LEMMA LongestIs ==
  ASSUME NEW b \in Nat, NEW W, W \subseteq 0..b, W # {}
  PROVE  Throttle!Max(W) \in W /\ \A x \in W : x <= Throttle!Max(W)
<1> DEFINE rests == {n \in Nat : \E x \in W : n = b - x}
<1>1. \A x \in W : b - x \in rests
  OBVIOUS
<1>2. PICK n \in rests : \A k \in rests : n <= k
  <2>1. rests \in SUBSET Nat /\ rests # {}
    BY <1>1
  <2> HIDE DEF rests
  <2> QED BY <2>1, LeastIs
<1>3. PICK x \in W : n = b - x
  OBVIOUS
<1>4. \A y \in W : x >= y
  BY <1>1, <1>2, <1>3
<1> QED BY <1>4 DEF Throttle!Max

LEMMA Entries ==
  ASSUME NEW q, QueueFits(q)
  PROVE  q \in Seq(Ages) /\ Len(q) \in Nat /\ \A i \in 1..Len(q) : q[i] \in 0..Second
<1>1. q \in Seq(Ages)
  BY DEF QueueFits
<1> QED BY <1>1, LenProperties, ElementOfSeq DEF Ages

\* What is left of a queue is of the last second, and nothing of the last second is lost.
LEMMA TrimIs ==
  ASSUME NEW q, QueueFits(q)
  PROVE  /\ QueueFits(Throttle!Trim(q))
         /\ Len(Throttle!Trim(q)) > 0 => Throttle!Trim(q)[1] < Second
         /\ \A n \in Nat, a \in 0..(Second - 1) : Keeps(q, n, a) => Keeps(Throttle!Trim(q), n, a)
<1> DEFINE S == {k \in 1..(Len(q) + 1) : k > Len(q) \/ q[k] < Second}
<1> DEFINE left == Throttle!Min(S)
<1> DEFINE kept == SubSeq(q, left, Len(q))
<1>0. q \in Seq(Ages) /\ Len(q) \in Nat /\ \A i \in 1..Len(q) : q[i] \in 0..Second
  BY Entries
<1>1. left \in S /\ \A k \in S : left <= k
  <2>1. S \in SUBSET Nat /\ Len(q) + 1 \in S
    BY <1>0
  <2> HIDE DEF S
  <2> QED BY <2>1, LeastIs DEF Throttle!Min
<1>2. left \in 1..(Len(q) + 1)
  BY <1>1
<1>3. Throttle!Trim(q) = kept
  BY DEF Throttle!Trim
<1>4. \A k \in 1..Len(q) : q[k] < Second => left <= k
  BY <1>0, <1>1
<1>5. left <= Len(q) => q[left] < Second
  BY <1>1, <1>0
<1> HIDE DEF left, S
<1>6. /\ kept \in Seq(Ages) /\ Len(kept) = Len(q) - left + 1
      /\ \A i \in 1..(Len(q) - left + 1) : kept[i] = q[left + i - 1]
  BY <1>0, <1>2, SubSeqProperties, Z3
<1> HIDE DEF kept
<1>a. PICK size \in Nat : size = Len(q)
  BY <1>0
<1>b. PICK first \in 1..(size + 1) : first = left
  BY <1>2, <1>a
<1>c. Len(kept) = size + 1 - first /\ \A i \in 1..(size + 1 - first) : first + i - 1 \in 1..size /\ kept[i] = q[first + i - 1]
  BY <1>6, <1>a, <1>b
<1>d. \A i \in 1..size : q[i] \in 0..Second
  BY <1>0, <1>a
<1>7. QueueFits(kept)
  BY <1>6 DEF QueueFits
<1>8. Len(kept) > 0 => kept[1] < Second
  <2> SUFFICES ASSUME size + 1 - first > 0 PROVE kept[1] < Second
    BY <1>c
  <2>1. 1 \in 1..(size + 1 - first) /\ first + 1 - 1 = first /\ first <= size
    OBVIOUS
  <2>2. kept[1] = q[first]
    BY <1>c, <2>1
  <2> QED BY <1>5, <1>a, <1>b, <2>1, <2>2
<1>9. ASSUME NEW n \in Nat, NEW a \in 0..(Second - 1), Keeps(q, n, a) PROVE Keeps(kept, n, a)
  <2>1. n <= size /\ \A m \in 1..n : size + 1 - m \in 1..size /\ q[size + 1 - m] <= a
    BY <1>9, <1>a DEF Keeps
  <2>2. ASSUME NEW i \in 1..size, q[i] <= a PROVE first <= i
    <3>1. q[i] < Second
      BY <1>d, <2>2, RateConstants
    <3> QED BY <1>4, <1>a, <1>b, <3>1
  <2>3. \A m \in 1..n : first <= size + 1 - m
    BY <2>1, <2>2
  <2>4. n <= Len(kept)
    <3>1. CASE n = 0
      BY <1>c, <3>1
    <3>2. CASE n > 0
      <4>1. first <= size + 1 - n
        BY <2>3, <3>2
      <4> QED BY <1>c, <2>1, <4>1
    <3> QED BY <3>1, <3>2
  <2>5. ASSUME NEW m \in 1..n PROVE kept[Len(kept) + 1 - m] <= a
    <3>1. PICK i \in 1..(size + 1 - first) : i = size + 1 - first + 1 - m
      BY <2>3
    <3>2. first + i - 1 = size + 1 - m
      BY <3>1
    <3> QED BY <1>c, <2>1, <3>1, <3>2
  <2> QED BY <2>4, <2>5 DEF Keeps
<1> QED BY <1>3, <1>7, <1>8, <1>9

LEMMA AppendIs ==
  ASSUME NEW q, QueueFits(q), NEW n \in Nat, NEW k \in Nat, k <= n + 1,
         NEW a \in 0..(Second - 1), Keeps(q, n, a)
  PROVE  QueueFits(Append(q, 0)) /\ Keeps(Append(q, 0), k, a)
<1>0. 0 \in Ages /\ 0 <= a
  BY RateConstants DEF Ages
<1>1. /\ q \in Seq(Ages) /\ Append(q, 0) \in Seq(Ages) /\ Len(Append(q, 0)) = Len(q) + 1
      /\ \A i \in 1..Len(q) : Append(q, 0)[i] = q[i]
      /\ Append(q, 0)[Len(q) + 1] = 0
  BY <1>0 DEF QueueFits
<1>2. PICK size \in Nat : size = Len(q)
  BY <1>1
<1>3. \A m \in 1..k : Append(q, 0)[size + 2 - m] <= a
  <2> TAKE m \in 1..k
  <2>1. CASE m = 1
    BY <1>0, <1>1, <1>2, <2>1
  <2>2. CASE m > 1
    <3>1. PICK i \in 1..n : i = m - 1
      BY <2>2
    <3>2. size + 1 - i = size + 2 - m /\ size + 1 - i \in 1..size /\ q[size + 1 - i] <= a
      <4>1. n <= size /\ \A j \in 1..n : q[size + 1 - j] <= a
        BY <1>2 DEF Keeps
      <4>2. size + 1 - i = size + 2 - m /\ size + 1 - i \in 1..size
        BY <3>1, <4>1
      <4> QED BY <4>1, <4>2
    <3> QED BY <1>1, <1>2, <3>2
  <2>3. m = 1 \/ m > 1
    OBVIOUS
  <2> QED BY <2>1, <2>2, <2>3
<1>4. k <= size + 1
  BY <1>2 DEF Keeps
<1>5. Keeps(Append(q, 0), k, a)
  <2>1. \A m \in 1..k : size + 1 + 1 - m = size + 2 - m
    OBVIOUS
  <2> QED BY <1>1, <1>2, <1>3, <1>4, <2>1 DEF Keeps
<1> QED BY <1>1, <1>5 DEF QueueFits

LEMMA WaitIs ==
  ASSUME NEW q, QueueFits(q), Len(q) > 0 => q[1] < Second, NEW limit \in Nat \ {0}
  PROVE  /\ Throttle!Wait(q, limit) \in 0..Second
         /\ Throttle!Wait(q, limit) = 0 => Len(q) < limit
<1>1. Len(q) \in Nat /\ (Len(q) > 0 => Head(q) = q[1] /\ q[1] \in 0..Second)
  BY Entries
<1> QED BY <1>1, RateConstants DEF Throttle!Wait

\* What is made of the members of a finite set is no more than they.
LEMMA MadeOf ==
  ASSUME NEW S, IsFiniteSet(S), NEW f
  PROVE  IsFiniteSet({f[g] : g \in S}) /\ Cardinality({f[g] : g \in S}) <= Cardinality(S)
<1>1. [g \in S |-> f[g]] \in Surjection(S, {f[g] : g \in S})
  BY DEF Surjection
<1> QED BY <1>1, FS_Surjection

LEMMA SinceFinite ==
  ASSUME ThrottleFits, NEW w, NEW a
  PROVE  IsFiniteSet(Since(w, a)) /\ Cardinality(Since(w, a)) \in Nat
<1>1. Since(w, a) \subseteq granted /\ IsFiniteSet(granted)
  BY DEF Since, ThrottleFits
<1> QED BY <1>1, FS_Subset, FS_CardinalityType

\* What one more place changes.
LEMMA TakenIs ==
  ASSUME ThrottleFits, NEW w, NEW g, granted' = granted \cup {g}, NEW a
  PROVE  /\ Cardinality(Since(w, a)') \in Nat
         /\ Cardinality(Since(w, a)') <= Cardinality(Since(w, a)) + 1
         /\ w \notin g.needs => Since(w, a)' = Since(w, a)
<1>1. Since(w, a)' \subseteq Since(w, a) \cup {g}
  BY DEF Since
<1>2. IsFiniteSet(Since(w, a)) /\ Cardinality(Since(w, a)) \in Nat
  BY SinceFinite
<1>3. /\ IsFiniteSet(Since(w, a) \cup {g})
      /\ Cardinality(Since(w, a) \cup {g}) \in Nat
      /\ Cardinality(Since(w, a) \cup {g}) <= Cardinality(Since(w, a)) + 1
  BY <1>2, FS_AddElement, FS_CardinalityType, SMTT(60)
<1>4. Cardinality(Since(w, a)') \in Nat /\ Cardinality(Since(w, a)') <= Cardinality(Since(w, a) \cup {g})
  BY <1>1, <1>3, FS_Subset, FS_CardinalityType
<1>5. w \notin g.needs => Since(w, a)' = Since(w, a)
  BY DEF Since
<1> QED BY <1>2, <1>3, <1>4, <1>5

\* A round that takes no place: queues are trimmed, or nothing happens.
LEMMA RateWaits ==
  ASSUME RateInv, UNCHANGED granted, DOMAIN queue' = DOMAIN queue,
         \A w \in Throttle!Windows : queue'[w] \in {queue[w], Throttle!Trim(queue[w])},
         DOMAIN sender' = Senders,
         \A s \in Senders : sender'[s].at # "idle" => sender'[s].needs \in Legs
  PROVE  RateInv'
<1>1. ThrottleFits'
  BY TrimIs DEF RateInv, ThrottleFits, QueueFits
<1>2. \A w, a : Since(w, a)' = Since(w, a)
  BY DEF Since
<1>3. QueueKeeps'
  <2> SUFFICES ASSUME NEW w \in Throttle!Windows, NEW a \in 0..(Second - 1)
               PROVE Keeps(queue'[w], Cardinality(Since(w, a)), a)
    BY <1>2 DEF QueueKeeps
  <2>1. Cardinality(Since(w, a)) \in Nat
    BY SinceFinite DEF RateInv
  <2>2. Keeps(queue[w], Cardinality(Since(w, a)), a)
    BY DEF RateInv, QueueKeeps
  <2>3. Keeps(Throttle!Trim(queue[w]), Cardinality(Since(w, a)), a)
    BY <2>1, <2>2, TrimIs DEF RateInv, ThrottleFits
  <2> QED BY <2>2, <2>3
<1>4. Rated'
  BY <1>2 DEF RateInv, Rated
<1> QED BY <1>1, <1>3, <1>4 DEF RateInv

\* A round that takes a place in each window it needs, all of which have room.
LEMMA RateTakes ==
  ASSUME RateInv, NEW g \in Taken, g.age = 0, granted' = granted \cup {g},
         DOMAIN queue' = DOMAIN queue,
         \A w \in Throttle!Windows :
           IF w \in g.needs
           THEN /\ queue'[w] = Append(Throttle!Trim(queue[w]), 0)
                /\ Len(Throttle!Trim(queue[w])) < Places[w]
           ELSE queue'[w] = queue[w],
         DOMAIN sender' = Senders,
         \A s \in Senders : sender'[s].at # "idle" => sender'[s].needs \in Legs
  PROVE  RateInv'
<1> USE DEF RateInv
<1>1. ASSUME NEW w \in Throttle!Windows, NEW a \in 0..(Second - 1), w \in g.needs
      PROVE  /\ QueueFits(queue'[w])
             /\ Keeps(queue'[w], Cardinality(Since(w, a)'), a)
             /\ Cardinality(Since(w, a)') <= Places[w]
  <2>1. PICK q : q = Throttle!Trim(queue[w])
    OBVIOUS
  <2>2. QueueFits(q) /\ queue'[w] = Append(q, 0) /\ Len(q) < Places[w]
    BY <1>1, <2>1, TrimIs DEF ThrottleFits
  <2>3. Cardinality(Since(w, a)) \in Nat /\ Cardinality(Since(w, a)') \in Nat
        /\ Cardinality(Since(w, a)') <= Cardinality(Since(w, a)) + 1
    BY TakenIs, SinceFinite
  <2>4. Keeps(q, Cardinality(Since(w, a)), a)
    BY <2>1, <2>3, TrimIs DEF QueueKeeps, ThrottleFits
  <2>5. QueueFits(queue'[w]) /\ Keeps(queue'[w], Cardinality(Since(w, a)'), a)
    BY <2>2, <2>3, <2>4, AppendIs
  <2>6. Cardinality(Since(w, a)) <= Len(q) /\ Len(q) \in Nat
    BY <2>2, <2>4 DEF Keeps, QueueFits
  <2> QED BY <2>2, <2>3, <2>5, <2>6, RateConstants
<1>2. ThrottleFits'
  <2>1. IsFiniteSet(granted') /\ granted' \subseteq Taken
    BY FS_AddElement DEF ThrottleFits
  <2>2. \A w \in Throttle!Windows : QueueFits(queue'[w])
    <3> TAKE w \in Throttle!Windows
    <3>1. CASE w \in g.needs
      <4> 0 \in 0..(Second - 1)
        BY RateConstants
      <4> QED BY <1>1, <3>1
    <3>2. CASE w \notin g.needs
      BY <3>2 DEF ThrottleFits
    <3> QED BY <3>1, <3>2
  <2> QED BY <2>1, <2>2 DEF ThrottleFits, QueueFits
<1>3. QueueKeeps'
  <2> SUFFICES ASSUME NEW w \in Throttle!Windows, NEW a \in 0..(Second - 1)
               PROVE Keeps(queue'[w], Cardinality(Since(w, a)'), a)
    BY DEF QueueKeeps
  <2>1. CASE w \in g.needs
    BY <1>1, <2>1
  <2>2. CASE w \notin g.needs
    BY <2>2, TakenIs DEF QueueKeeps
  <2> QED BY <2>1, <2>2
<1>4. Rated'
  <2> SUFFICES ASSUME NEW w \in Throttle!Windows PROVE Cardinality(Since(w, Second - 1)') <= Places[w]
    BY DEF Rated
  <2>1. CASE w \in g.needs
    <3> Second - 1 \in 0..(Second - 1)
      BY RateConstants
    <3> QED BY <1>1, <2>1
  <2>2. CASE w \notin g.needs
    BY <2>2, TakenIs DEF Rated
  <2> QED BY <2>1, <2>2
<1> QED BY <1>2, <1>3, <1>4

LEMMA RateAcquire == ASSUME RateInv, NEW s \in Senders, Throttle!Acquire(s) PROVE RateInv'
<1> USE DEF RateInv
<1>1. PICK needs \in Legs : needs = sender[s].needs
  BY DEF Throttle!Acquire, ThrottleFits
<1>2. needs # {} /\ needs \subseteq Throttle!Windows
  BY RateConstants DEF Throttle!Windows
<1>3. PICK waits : waits = {Throttle!Wait(Throttle!Trim(queue[w]), Places[w]) : w \in needs}
  OBVIOUS
<1>4. PICK delay : delay = Throttle!Max(waits)
  OBVIOUS
<1>5. \A w \in needs : /\ Throttle!Wait(Throttle!Trim(queue[w]), Places[w]) \in 0..Second
                       /\ Throttle!Wait(Throttle!Trim(queue[w]), Places[w]) = 0
                            => Len(Throttle!Trim(queue[w])) < Places[w]
  BY <1>2, TrimIs, WaitIs, RateConstants DEF ThrottleFits
<1>6. delay \in 0..Second /\ \A x \in waits : x <= delay
  <2>1. waits \subseteq 0..Second /\ waits # {}
    BY <1>2, <1>3, <1>5
  <2> QED BY <1>4, <2>1, LongestIs, RateConstants
<1>7. delay = 0 => \A w \in needs : Len(Throttle!Trim(queue[w])) < Places[w]
  <2> SUFFICES ASSUME delay = 0, NEW w \in needs PROVE Len(Throttle!Trim(queue[w])) < Places[w]
    OBVIOUS
  <2>1. PICK x : x = Throttle!Wait(Throttle!Trim(queue[w]), Places[w])
    OBVIOUS
  <2>2. x \in waits /\ x \in 0..Second
    BY <1>3, <1>5, <2>1
  <2>3. x = 0
    BY <1>6, <2>2, RateConstants
  <2> QED BY <1>5, <2>1, <2>3
<1>8. IF delay = 0
      THEN /\ queue' = [w \in Throttle!Windows |->
                          IF w \in needs
                          THEN Append([v \in Throttle!Windows |->
                                         IF v \in needs THEN Throttle!Trim(queue[v]) ELSE queue[v]][w], 0)
                          ELSE [v \in Throttle!Windows |->
                                  IF v \in needs THEN Throttle!Trim(queue[v]) ELSE queue[v]][w]]
           /\ granted' = granted \cup {Throttle!Place(needs)}
           /\ sender' = [sender EXCEPT ![s] = Throttle!Resting]
      ELSE /\ queue' = [w \in Throttle!Windows |->
                          IF w \in needs THEN Throttle!Trim(queue[w]) ELSE queue[w]]
           /\ sender' = [sender EXCEPT ![s] = [at |-> "asleep", needs |-> needs, left |-> delay]]
           /\ UNCHANGED granted
  BY <1>1, <1>3, <1>4 DEF Throttle!Acquire
<1>9. DOMAIN queue' = DOMAIN queue
  BY <1>8 DEF ThrottleFits
<1>10. CASE delay = 0
  <2>1. PICK g : g = Throttle!Place(needs)
    OBVIOUS
  <2>2. g \in Taken /\ g.age = 0 /\ g.needs = needs
    <3>1. PICK here : here = {h \in granted : h.age = 0}
      OBVIOUS
    <3>2. Throttle!Cardinality(here) \in Nat
      BY <3>1, Cards, FS_Subset, FS_CardinalityType DEF ThrottleFits
    <3>3. g = [age |-> 0, no |-> Throttle!Cardinality(here), needs |-> needs]
      BY <2>1, <3>1 DEF Throttle!Place
    <3> QED BY <3>2, <3>3, RateConstants DEF Taken
  <2>3. \A w \in Throttle!Windows :
          IF w \in g.needs
          THEN /\ queue'[w] = Append(Throttle!Trim(queue[w]), 0)
               /\ Len(Throttle!Trim(queue[w])) < Places[w]
          ELSE queue'[w] = queue[w]
    BY <1>7, <1>8, <1>10, <2>2
  <2>4. DOMAIN sender' = Senders /\ \A r \in Senders : sender'[r].at # "idle" => sender'[r].needs \in Legs
    BY <1>8, <1>10 DEF Throttle!Resting, ThrottleFits
  <2>5. granted' = granted \cup {g}
    BY <1>8, <1>10, <2>1
  <2> QED BY <1>9, <2>2, <2>3, <2>4, <2>5, RateTakes
<1>11. CASE delay # 0
  <2>1. \A w \in Throttle!Windows : queue'[w] \in {queue[w], Throttle!Trim(queue[w])}
    BY <1>8, <1>11
  <2>2. DOMAIN sender' = Senders /\ \A r \in Senders : sender'[r].at # "idle" => sender'[r].needs \in Legs
    BY <1>8, <1>11 DEF ThrottleFits
  <2> QED BY <1>8, <1>9, <1>11, <2>1, <2>2, RateWaits
<1> QED BY <1>10, <1>11

LEMMA RateRests ==
  ASSUME RateInv, UNCHANGED <<granted, queue>>, DOMAIN sender' = Senders,
         \A s \in Senders : sender'[s].at # "idle" => sender'[s].needs \in Legs
  PROVE  RateInv'
  BY RateWaits DEF RateInv, ThrottleFits

\* An instant later nothing is young, and what is a little older was taken an instant ago.
LEMMA SinceAges ==
  ASSUME RateInv, Throttle!Advance, NEW w, NEW a \in 0..(Second - 1)
  PROVE  /\ Cardinality(Since(w, a)') \in Nat
         /\ a = 0 => Cardinality(Since(w, a)') = 0
         /\ a > 0 => Cardinality(Since(w, a)') <= Cardinality(Since(w, a - 1))
<1> DEFINE Age(g) == [g EXCEPT !.age = @ + 1]
<1>1. granted' = {Age(g) : g \in {h \in granted : h.age + 1 < Second}}
  BY DEF Throttle!Advance
<1>2. \A g \in granted : Age(g).age = g.age + 1 /\ Age(g).needs = g.needs /\ g.age \in Nat
  BY RateConstants DEF RateInv, ThrottleFits, Taken
<1>3. CASE a = 0
  <2>1. Since(w, a)' = {}
    <3> SUFFICES ASSUME NEW h \in granted', h.age <= 0 PROVE FALSE
      BY <1>3 DEF Since
    <3>1. PICK g \in granted : h = Age(g)
      BY <1>1
    <3> HIDE DEF Age
    <3> QED BY <1>2, <3>1
  <2> QED BY <1>3, <2>1, FS_EmptySet
<1>4. CASE a > 0
  <2> DEFINE before == Since(w, a - 1)
  <2> DEFINE aged == {Age(g) : g \in before}
  <2>1. Since(w, a)' \subseteq aged
    <3> SUFFICES ASSUME NEW h \in granted', w \in h.needs, h.age <= a PROVE h \in aged
      BY DEF Since
    <3>1. PICK g \in granted : h = Age(g)
      BY <1>1
    <3> HIDE DEF Age
    <3>2. g.age <= a - 1 /\ w \in g.needs
      BY <1>2, <3>1
    <3> QED BY <3>1, <3>2 DEF Since
  <2>2. IsFiniteSet(before) /\ Cardinality(before) \in Nat
    BY SinceFinite DEF RateInv
  <2> HIDE DEF before, Age
  <2>3. IsFiniteSet(aged) /\ Cardinality(aged) <= Cardinality(before) /\ Cardinality(aged) \in Nat
    <3>1. PICK f : f = [g \in before |-> Age(g)]
      OBVIOUS
    <3>2. aged = {f[g] : g \in before}
      BY <3>1
    <3>3. IsFiniteSet({f[g] : g \in before}) /\ Cardinality({f[g] : g \in before}) <= Cardinality(before)
      BY <2>2, MadeOf
    <3> QED BY <2>2, <3>2, <3>3, FS_CardinalityType
  <2>4. Cardinality(Since(w, a)') \in Nat /\ Cardinality(Since(w, a)') <= Cardinality(aged)
    BY <2>1, <2>3, FS_Subset, FS_CardinalityType
  <2> QED BY <1>4, <2>2, <2>3, <2>4 DEF before
<1> QED BY <1>3, <1>4, RateConstants

LEMMA RateAdvance == ASSUME RateInv, Throttle!Advance PROVE RateInv'
<1> USE DEF RateInv
<1>1. /\ queue' = [w \in Throttle!Windows |-> [k \in 1..Len(queue[w]) |-> Throttle!Older(queue[w][k])]]
      /\ sender' = [s \in Senders |-> IF sender[s].at = "asleep" /\ sender[s].left > 0
                                      THEN [sender[s] EXCEPT !.left = @ - 1] ELSE sender[s]]
      /\ granted' = {[g EXCEPT !.age = @ + 1] : g \in {h \in granted : h.age + 1 < Second}}
  BY DEF Throttle!Advance
<1>2. \A x \in 0..Second : /\ Throttle!Older(x) \in 0..Second /\ Throttle!Older(x) <= x + 1
  BY RateConstants DEF Throttle!Older
<1>3. ASSUME NEW w \in Throttle!Windows
      PROVE  /\ QueueFits(queue'[w]) /\ Len(queue'[w]) = Len(queue[w])
             /\ \A k \in 1..Len(queue[w]) : queue'[w][k] <= queue[w][k] + 1
  <2>1. PICK q : q = queue[w] /\ q \in Seq(Ages) /\ Len(q) \in Nat /\ \A k \in 1..Len(q) : q[k] \in 0..Second
    BY Entries DEF ThrottleFits
  <2>2. queue'[w] = [k \in 1..Len(q) |-> Throttle!Older(q[k])]
    BY <1>1, <2>1
  <2>3. \A k \in 1..Len(q) : Throttle!Older(q[k]) \in 0..Second /\ Throttle!Older(q[k]) <= q[k] + 1
    BY <1>2, <2>1
  <2>4. queue'[w] \in Seq(Ages) /\ Len(queue'[w]) = Len(q)
    BY <2>1, <2>2, <2>3 DEF Ages
  <2> QED BY <2>1, <2>2, <2>3, <2>4 DEF QueueFits
<1>4. IsFiniteSet(granted') /\ granted' \subseteq Taken
  <2>1. granted' \subseteq Taken
    BY <1>1, RateConstants DEF ThrottleFits, Taken
  <2>2. PICK S : S = {h \in granted : h.age + 1 < Second}
    OBVIOUS
  <2>3. IsFiniteSet(S)
    BY <2>2, FS_Subset DEF ThrottleFits
  <2>4. granted' = {[g EXCEPT !.age = @ + 1] : g \in S}
    BY <1>1, <2>2
  <2>5. PICK f : f = [g \in S |-> [g EXCEPT !.age = @ + 1]]
    OBVIOUS
  <2>6. granted' = {f[g] : g \in S}
    BY <2>4, <2>5
  <2> QED BY <2>1, <2>3, <2>6, MadeOf
<1>5. ThrottleFits'
  <2>1. DOMAIN queue' = Throttle!Windows /\ \A w \in Throttle!Windows : QueueFits(queue'[w])
    BY <1>1, <1>3
  <2>2. DOMAIN sender' = Senders
    BY <1>1
  <2>3. ASSUME NEW s \in Senders, sender'[s].at # "idle" PROVE sender'[s].needs \in Legs
    <3>1. \/ sender'[s] = sender[s]
          \/ sender[s].at = "asleep" /\ sender'[s] = [sender[s] EXCEPT !.left = @ - 1]
      BY <1>1
    <3>2. CASE sender'[s] = sender[s]
      BY <2>3, <3>2 DEF ThrottleFits
    <3>3. CASE sender[s].at = "asleep" /\ sender'[s] = [sender[s] EXCEPT !.left = @ - 1]
      <4>1. sender[s].needs \in Legs
        BY <3>3 DEF ThrottleFits
      <4> QED BY <3>3, <4>1
    <3> QED BY <3>1, <3>2, <3>3
  <2> QED BY <1>4, <2>1, <2>2, <2>3 DEF ThrottleFits, QueueFits
<1>6. QueueKeeps'
  <2> SUFFICES ASSUME NEW w \in Throttle!Windows, NEW a \in 0..(Second - 1)
               PROVE Keeps(queue'[w], Cardinality(Since(w, a)'), a)
    BY DEF QueueKeeps
  <2>1. PICK size \in Nat : size = Len(queue[w])
    BY DEF ThrottleFits, QueueFits
  <2>2. PICK n : n = Cardinality(Since(w, a)')
    OBVIOUS
  <2>3. n \in Nat /\ (a = 0 => n = 0)
    BY <2>2, SinceAges
  <2>4. CASE a = 0
    BY <1>3, <2>1, <2>2, <2>3, <2>4 DEF Keeps
  <2>5. CASE a > 0
    <3>1. PICK m : m = Cardinality(Since(w, a - 1))
      OBVIOUS
    <3>2. a - 1 \in 0..(Second - 1) /\ n <= m /\ m \in Nat
      BY <2>2, <2>5, <3>1, SinceAges, SinceFinite, RateConstants
    <3>3. m <= size /\ \A k \in 1..m : queue[w][size + 1 - k] <= a - 1
      BY <2>1, <3>1, <3>2 DEF QueueKeeps, Keeps
    <3>4. \A k \in 1..n : k \in 1..m /\ size + 1 - k \in 1..size
      BY <2>3, <3>2, <3>3
    <3>5. \A k \in 1..n : queue'[w][size + 1 - k] <= a
      <4> TAKE k \in 1..n
      <4>1. PICK i \in 1..size : i = size + 1 - k
        BY <3>4
      <4>2. queue'[w][i] <= queue[w][i] + 1 /\ queue[w][i] <= a - 1
        BY <1>3, <2>1, <3>3, <3>4, <4>1
      <4>3. queue[w][i] \in Nat /\ queue'[w][i] \in Nat
        BY <1>3, <2>1, Entries, RateConstants DEF ThrottleFits
      <4> QED BY <4>1, <4>2, <4>3
    <3>6. n <= size
      BY <2>3, <3>2, <3>3
    <3> QED BY <1>3, <2>1, <2>2, <3>5, <3>6 DEF Keeps
  <2> QED BY <2>4, <2>5, RateConstants
<1>7. Rated'
  <2> SUFFICES ASSUME NEW w \in Throttle!Windows PROVE Cardinality(Since(w, Second - 1)') <= Places[w]
    BY DEF Rated
  <2>1. Since(w, Second - 2) \subseteq Since(w, Second - 1)
    BY RateConstants DEF Since, ThrottleFits, Taken
  <2>2. Cardinality(Since(w, Second - 2)) <= Cardinality(Since(w, Second - 1))
    BY <2>1, SinceFinite, FS_Subset
  <2>3. /\ Cardinality(Since(w, Second - 2)) \in Nat /\ Cardinality(Since(w, Second - 1)) \in Nat
        /\ Cardinality(Since(w, Second - 1)) <= Places[w]
    BY SinceFinite DEF Rated
  <2>4. /\ Cardinality(Since(w, Second - 1)') \in Nat
        /\ Second = 1 => Cardinality(Since(w, Second - 1)') = 0
        /\ Second > 1 => Cardinality(Since(w, Second - 1)') <= Cardinality(Since(w, Second - 2))
    <3>1. PICK a \in 0..(Second - 1) : a = Second - 1
      BY RateConstants
    <3>2. /\ Cardinality(Since(w, a)') \in Nat
          /\ a = 0 => Cardinality(Since(w, a)') = 0
          /\ a > 0 => Cardinality(Since(w, a)') <= Cardinality(Since(w, a - 1))
      BY SinceAges
    <3>3. a - 1 = Second - 2
      BY <3>1, RateConstants
    <3> QED BY <3>1, <3>2, <3>3, RateConstants
  <2> QED BY <2>2, <2>3, <2>4, RateConstants
<1> QED BY <1>5, <1>6, <1>7

LEMMA RateKeeps == ASSUME RateInv, Throttle!Next PROVE RateInv'
<1>1. CASE Throttle!Advance
  BY <1>1, RateAdvance
<1>2. ASSUME NEW s \in Senders, NEW needs \in Legs, Throttle!Request(s, needs) PROVE RateInv'
  BY <1>2, RateRests DEF Throttle!Request, RateInv, ThrottleFits
<1>3. ASSUME NEW s \in Senders, Throttle!Acquire(s) PROVE RateInv'
  BY <1>3, RateAcquire
<1>4. ASSUME NEW s \in Senders, Throttle!Wake(s) PROVE RateInv'
  BY <1>4, RateRests DEF Throttle!Wake, RateInv, ThrottleFits
<1> QED BY <1>1, <1>2, <1>3, <1>4 DEF Throttle!Next

LEMMA RateStart == Throttle!Init => RateInv
<1> SUFFICES ASSUME Throttle!Init PROVE RateInv
  OBVIOUS
<1>1. granted = {} /\ queue = [w \in Throttle!Windows |-> << >>]
      /\ sender = [s \in Senders |-> Throttle!Resting]
  BY DEF Throttle!Init
<1>2. \A w, a : Cardinality(Since(w, a)) = 0
  <2>1. \A w, a : Since(w, a) = {}
    BY <1>1 DEF Since
  <2> QED BY <2>1, FS_EmptySet
<1>3. ThrottleFits
  BY <1>1, FS_EmptySet DEF ThrottleFits, QueueFits, Throttle!Resting
<1>4. QueueKeeps
  BY <1>1, <1>2 DEF QueueKeeps, Keeps
<1>5. Rated
  BY <1>2, RateConstants DEF Rated
<1> QED BY <1>3, <1>4, <1>5 DEF RateInv

LEMMA RateTurns == RateInv /\ [Next]_allVars => RateInv'
<1> SUFFICES ASSUME RateInv, [Next]_allVars PROVE RateInv'
  OBVIOUS
<1>1. CASE UNCHANGED throttleVars
  BY <1>1, RateRests DEF throttleVars, RateInv, ThrottleFits
<1>2. CASE Throttle!Next
  BY <1>2, RateKeeps
<1> QED BY <1>1, <1>2 DEF Next, allVars

LEMMA RateShows == RateInv => RateKept
<1> SUFFICES ASSUME RateInv, NEW w \in Throttle!Windows
             PROVE  Throttle!Cardinality({g \in granted : w \in g.needs}) <= Places[w]
  BY DEF RateKept, Throttle!RateKept
<1>1. {g \in granted : w \in g.needs} = Since(w, Second - 1)
  BY RateConstants DEF Since, RateInv, ThrottleFits, Taken
<1>2. Cardinality(Since(w, Second - 1)) <= Places[w]
  BY DEF RateInv, Rated
<1> QED BY <1>1, <1>2, Cards

\* No limit of the server, an account or a domain is exceeded in the second that ends at any
\* instant, for any legs, limits, length of the second and sleepers that come late
\* (ThrottleController.acquire, delivery_reliability.py).
THEOREM RateHolds == Spec => []RateKept
<1>1. Init => RateInv
  BY RateStart DEF Init
<1> QED BY <1>1, RateTurns, RateShows, PTL DEF Spec
-----------------------------------------------------------------------------
(***************************************************************************)
(* The Worker and Postmaster, whoever calls.                               *)
(***************************************************************************)

Top == 2 * fresh + 1
Changes == {"provision", "rotate"}

\* A request: the generations run ahead of the secrets by the deprovisionings between them.
RequestFits(q) ==
  /\ q \in [op : Changes \cup {"deprovision"}, gen : 1..Top, secret : 0..fresh]
  /\ q.op = "deprovision" => q.secret = Proxy!NoSecret
  /\ q.op \in Changes => q.secret > 0 /\ q.gen < Top

ExecuteFits(k) ==
  /\ k \in Proxy!Calls
  /\ \/ k = Proxy!Idle
     \/ k.pc = "read" /\ k.req = Proxy!NoPending
     \/ k.pc \in {"save", "read", "verified", "configure", "promote"} /\ RequestFits(k.req) /\ k.req.op \in Changes
     \/ k.pc \in {"sent", "accepted", "refused"} /\ RequestFits(k.req)
     \/ k.pc = "finish" /\ RequestFits(k.req) /\ k.req.op = "deprovision"

CallsFit ==
  /\ DOMAIN calls = Callers /\ \A c \in Callers : ExecuteFits(calls[c])
  /\ \A c \in Callers \ load.callers : calls[c] = Proxy!Idle

RowFits ==
  /\ row \in [generation : 0..Top, provisioned : BOOLEAN, pending : Proxy!Pendings]
  /\ row.provisioned => row.generation < Top
  /\ row.pending # Proxy!NoPending => RequestFits(row.pending) /\ row.pending.op \in Changes

SidesFit ==
  /\ secret \in 0..fresh /\ enabled \in BOOLEAN
  /\ newest \in [gen : 0..Top, secret : 0..fresh]
  /\ worker \in [gen : 0..Top, active : 0..fresh, prev : 0..fresh]

ProxyTyped ==
  /\ load \in Loads /\ fresh \in 0..MaxSecret /\ ppFaults \in 0..MaxFaults
  /\ CallsFit /\ RowFits /\ SidesFit /\ \A q \in late : RequestFits(q)

\* The requests that are stored, carried by a call or under way.
InPlay == {q \in late \cup {row.pending} \cup {calls[c].req : c \in Callers} : q # Proxy!NoPending}

\* A secret belongs to one request.
OneRequest ==
  /\ \A p, q \in InPlay : p.secret = q.secret /\ p.secret # Proxy!NoSecret => p = q
  /\ \A q \in InPlay : q.secret = worker.active /\ q.secret # Proxy!NoSecret => q.gen = worker.gen

\* What a call was answered is true, or of an older generation.
Timely(k) ==
  /\ k.pc \in {"accepted", "verified", "configure"} =>
       k.req.gen <= worker.gen /\ (k.req.gen = worker.gen => worker.active = k.req.secret)
  /\ k.pc \in {"promote", "finish"} => k.req.gen <= newest.gen

\* Neither side is further ahead than one request.
Ordered ==
  /\ \A q \in InPlay : q.gen <= newest.gen + 1
  /\ row.generation <= newest.gen /\ newest.gen <= worker.gen /\ worker.gen <= newest.gen + 1
  /\ newest.gen = worker.gen => newest.secret = worker.active
  /\ \A c \in Callers : Timely(calls[c])

GraceKept ==
  worker.prev # Proxy!NoSecret =>
    worker.active # Proxy!NoSecret /\ newest.secret # Proxy!NoSecret /\ newest.secret \in {worker.active, worker.prev}

-----------------------------------------------------------------------------
(***************************************************************************)
(* One call at a time.                                                     *)
(***************************************************************************)

\* How far the call has come.
Underway(k) ==
  /\ k.req # Proxy!NoPending => k.req.gen = row.generation + 1
  /\ k.pc = "save" => row.pending = Proxy!NoPending
  /\ k.pc = "read" => row.pending # Proxy!NoPending
  /\ k.pc \notin {"idle", "save", "read"} =>
       row.pending = IF k.req.op = "deprovision" THEN Proxy!NoPending ELSE k.req
  /\ k.pc = "read" /\ k.req # Proxy!NoPending => k.req = row.pending
  /\ k.pc \in {"accepted", "verified", "configure", "promote", "finish"} =>
       worker.gen = row.generation + 1 /\ worker.active = k.req.secret
  /\ k.pc \in {"promote", "finish"} => secret = k.req.secret

Standing ==
  /\ \A q \in late : q.gen <= row.generation + 1 /\
       (q.gen = row.generation + 1 /\ q.op \in Changes => q = row.pending)
  /\ row.pending # Proxy!NoPending => row.pending.gen = row.generation + 1
  /\ worker.gen \in {row.generation, row.generation + 1}
  /\ worker.gen = row.generation => worker.active = (IF row.provisioned THEN secret ELSE Proxy!NoSecret)
  /\ worker.gen # row.generation => worker.active \in {Proxy!NoSecret, row.pending.secret}
  /\ secret = newest.secret

StepByStep == Standing /\ \A c \in Callers : Underway(calls[c])

\* There is one call for every caller.
Shaped == calls = [c \in Callers |-> calls[c]]

ProxyInv == Shaped /\ ProxyTyped /\ OneRequest /\ Ordered /\ GraceKept /\ (Proxy!Alone => StepByStep)

-----------------------------------------------------------------------------
(* How the calls move. *)

LEMMA ProxyConstants ==
  /\ MaxSecret \in Nat \ {0} /\ MaxFaults \in Nat
  /\ \A l \in Loads : l.callers \subseteq Callers /\ l.secrets \in 0..MaxSecret /\ l.faults \in 0..MaxFaults
  BY ProgressAssumption DEF Proxy!ConstantsAssumption

\* What fits goes on fitting as secrets are generated.
LEMMA RequestStays ==
  ASSUME fresh \in Nat, fresh' \in Nat, fresh <= fresh', NEW q, RequestFits(q)
  PROVE  RequestFits(q)'
  BY DEF RequestFits, Top, Changes

LEMMA RequestTyped ==
  ASSUME fresh \in 0..MaxSecret, NEW q, RequestFits(q)
  PROVE  /\ q \in Proxy!Requests(Proxy!Gens, Proxy!Secrets) /\ q # Proxy!NoPending
         /\ q.op \in Changes \/ q.op = "deprovision"
         /\ q.op \in Changes => q \in Proxy!Pendings
<1>1. q \in [op : Changes \cup {"deprovision"}, gen : 1..Top, secret : 0..fresh]
  BY DEF RequestFits
<1>2. Top \in Nat /\ Top <= 2 * MaxSecret + 1 /\ fresh <= MaxSecret /\ fresh \in Nat
  BY ProxyConstants DEF Top
<1>3. 1..Top \subseteq Proxy!Gens /\ 0..fresh \subseteq Proxy!Secrets
  BY <1>2, ProxyConstants DEF Proxy!Gens, Proxy!Secrets
<1> QED BY <1>1, <1>3 DEF Proxy!Requests, Proxy!Pendings, Proxy!NoPending, Changes

LEMMA ExecuteStays ==
  ASSUME fresh \in Nat, fresh' \in Nat, fresh <= fresh', NEW k, ExecuteFits(k)
  PROVE  ExecuteFits(k)'
<1>1. RequestFits(k.req) => RequestFits(k.req)'
  BY RequestStays
<1> QED BY <1>1 DEF ExecuteFits

LEMMA GoesIs ==
  ASSUME DOMAIN calls = Callers, NEW c \in Callers, calls[c] \in Proxy!Calls, NEW to, Proxy!Goes(c, to)
  PROVE  /\ DOMAIN calls' = Callers /\ \A b \in Callers \ {c} : calls'[b] = calls[b]
         /\ calls'[c] = [pc |-> to, req |-> calls[c].req, on |-> calls[c].on]
<1>1. calls' = [calls EXCEPT ![c] = [calls[c] EXCEPT !.pc = to]]
  BY DEF Proxy!Goes
<1>2. [calls[c] EXCEPT !.pc = to] = [pc |-> to, req |-> calls[c].req, on |-> calls[c].on]
  BY DEF Proxy!Calls
<1> QED BY <1>1, <1>2

LEMMA AsksIs ==
  ASSUME DOMAIN calls = Callers, NEW c \in Callers, NEW to, NEW what, NEW gen, NEW s, Proxy!Asks(c, to, what, gen, s)
  PROVE  /\ DOMAIN calls' = Callers /\ \A b \in Callers \ {c} : calls'[b] = calls[b]
         /\ calls'[c] = [pc |-> to, req |-> [op |-> what, gen |-> gen, secret |-> s], on |-> FALSE]
  BY DEF Proxy!Asks, Proxy!Idle

LEMMA ReturnsIs ==
  ASSUME DOMAIN calls = Callers, NEW c \in Callers, Proxy!Returns(c)
  PROVE  /\ DOMAIN calls' = Callers /\ \A b \in Callers \ {c} : calls'[b] = calls[b]
         /\ calls'[c] = Proxy!Idle
  BY DEF Proxy!Returns

LEMMA IdleIs ==
  /\ ExecuteFits(Proxy!Idle) /\ Proxy!Idle.pc = "idle" /\ Proxy!Idle.req = Proxy!NoPending
  /\ Proxy!NoPending.secret = Proxy!NoSecret /\ Proxy!NoSecret = 0 /\ Proxy!NoPending.op = "none"
  BY DEF ExecuteFits, Proxy!Idle, Proxy!Calls, Proxy!NoPending, Proxy!NoSecret

\* Where a call is tells what it carries.
LEMMA CarriesIs ==
  ASSUME ProxyTyped, NEW c \in Callers
  PROVE  /\ calls[c] \in Proxy!Calls
         /\ calls[c].pc = "idle" => calls[c] = Proxy!Idle
         /\ calls[c].pc \notin {"idle", "read"} => RequestFits(calls[c].req)
         /\ calls[c].pc \in {"save", "verified", "configure", "promote"} => calls[c].req.op \in Changes
         /\ calls[c].pc = "finish" => calls[c].req.op = "deprovision"
         /\ calls[c].req # Proxy!NoPending => RequestFits(calls[c].req)
         /\ calls[c].pc = "read" /\ calls[c].req # Proxy!NoPending => calls[c].req.op \in Changes
         /\ c \notin load.callers => calls[c] = Proxy!Idle
  BY IdleIs DEF ProxyTyped, CallsFit, ExecuteFits

\* One call moves, and the others stay or are cut short.
LEMMA CallsMove ==
  ASSUME ProxyTyped, load' = load, fresh' \in fresh..MaxSecret,
         NEW c \in load.callers, DOMAIN calls' = Callers,
         \A b \in Callers \ {c} : calls'[b] = calls[b], ExecuteFits(calls[c])'
  PROVE  CallsFit'
<1>1. fresh \in Nat /\ fresh' \in Nat /\ fresh <= fresh'
  BY ProxyConstants DEF ProxyTyped
<1>2. \A b \in Callers : ExecuteFits(calls[b])'
  <2> TAKE b \in Callers
  <2>1. CASE b # c
    <3>1. ExecuteFits(calls[b]) /\ calls'[b] = calls[b]
      BY <2>1 DEF ProxyTyped, CallsFit
    <3>2. PICK k : k = calls[b]
      OBVIOUS
    <3>3. ExecuteFits(k)'
      BY <1>1, <3>1, <3>2, ExecuteStays
    <3> QED BY <3>1, <3>2, <3>3
  <2> QED BY <2>1
<1>3. \A b \in Callers \ load.callers : calls'[b] = Proxy!Idle
  BY DEF ProxyTyped, CallsFit
<1> QED BY <1>2, <1>3 DEF CallsFit

LEMMA CallsStay ==
  ASSUME ProxyTyped, UNCHANGED <<load, fresh, calls>>
  PROVE  CallsFit'
<1>1. fresh \in Nat /\ fresh <= fresh
  BY ProxyConstants DEF ProxyTyped
<1>2. \A k : ExecuteFits(k) => ExecuteFits(k)'
  BY <1>1, ExecuteStays
<1> QED BY <1>2 DEF CallsFit, ProxyTyped

LEMMA OthersStay ==
  ASSUME ProxyTyped, fresh' \in fresh..MaxSecret
  PROVE  /\ row' = row => RowFits'
         /\ UNCHANGED <<secret, enabled, newest, worker>> => SidesFit'
         /\ \A q \in late : RequestFits(q)'
<1>0. fresh \in Nat /\ fresh' \in Nat /\ fresh <= fresh'
  BY ProxyConstants DEF ProxyTyped
<1>1. fresh \in Nat /\ fresh' \in Nat /\ fresh <= fresh' /\ Top \in Nat /\ Top' \in Nat /\ Top <= Top'
  <2>1. PICK a, b \in Nat : a = fresh /\ b = fresh'
    BY <1>0
  <2>2. Top = 2 * a + 1 /\ Top' = 2 * b + 1 /\ a <= b
    BY <1>0, <2>1 DEF Top
  <2> QED BY <1>0, <2>2
<1>2. \A q : RequestFits(q) => RequestFits(q)'
  BY <1>1, RequestStays
<1>3. row' = row => RowFits'
  <2> SUFFICES ASSUME row' = row PROVE RowFits'
    OBVIOUS
  <2>1. row.generation \in 0..Top' /\ (row.provisioned => row.generation < Top')
    BY <1>1 DEF ProxyTyped, RowFits
  <2>2. row \in [generation : 0..Top', provisioned : BOOLEAN, pending : Proxy!Pendings]
    BY <2>1 DEF ProxyTyped, RowFits
  <2>3. row.pending # Proxy!NoPending => RequestFits(row.pending)' /\ row.pending.op \in Changes
    BY <1>2 DEF ProxyTyped, RowFits
  <2> QED BY <2>1, <2>2, <2>3 DEF RowFits
<1>4. UNCHANGED <<secret, enabled, newest, worker>> => SidesFit'
  <2>1. 0..Top \subseteq 0..Top' /\ 0..fresh \subseteq 0..fresh'
    BY <1>1
  <2> QED BY <2>1 DEF ProxyTyped, SidesFit
<1> QED BY <1>2, <1>3, <1>4 DEF ProxyTyped

\* What a call may become.
LEMMA BecomesIs ==
  ASSUME fresh \in 0..MaxSecret, NEW q, RequestFits(q), NEW on \in BOOLEAN,
         NEW to \in {"save", "read", "sent", "accepted", "refused", "verified", "configure", "promote", "finish"},
         to \in {"save", "read", "verified", "configure", "promote"} => q.op \in Changes,
         to = "finish" => q.op = "deprovision"
  PROVE  ExecuteFits([pc |-> to, req |-> q, on |-> on])
  BY RequestTyped DEF ExecuteFits, Proxy!Calls

LEMMA FaultIs == ASSUME ProxyTyped, Proxy!Fault PROVE ppFaults' \in 0..MaxFaults
  BY ProxyConstants DEF ProxyTyped, Proxy!Fault

LEMMA FreshIs == ASSUME ProxyTyped, fresh' = fresh PROVE fresh' \in fresh..MaxSecret /\ fresh \in 0..MaxSecret /\ fresh \in Nat
  BY ProxyConstants DEF ProxyTyped

-----------------------------------------------------------------------------
(* Types. *)

LEMMA TypedBeginSecret ==
  ASSUME ProxyTyped, NEW c \in load.callers, NEW d \in Changes, Proxy!BeginSecret(c, d) PROVE ProxyTyped'
<1>1. c \in Callers /\ fresh \in Nat /\ fresh' = fresh + 1 /\ fresh' \in fresh..MaxSecret
  BY ProxyConstants DEF ProxyTyped, Proxy!BeginSecret
<1>2. row.generation \in 0..Top /\ Top' = Top + 2 /\ Top \in Nat
  BY <1>1 DEF ProxyTyped, RowFits, Top
<1>3. PICK q : q = [op |-> d, gen |-> row.generation + 1, secret |-> fresh + 1]
  OBVIOUS
<1>4. RequestFits(q)' /\ q.op \in Changes
  BY <1>1, <1>2, <1>3 DEF RequestFits, Changes
<1>5. /\ DOMAIN calls' = Callers /\ \A b \in Callers \ {c} : calls'[b] = calls[b]
      /\ calls'[c] = [pc |-> "save", req |-> q, on |-> FALSE]
  BY <1>1, <1>3, AsksIs DEF ProxyTyped, CallsFit, Proxy!BeginSecret
<1>6. ExecuteFits(calls[c])'
  <2>1. PICK k : k = [pc |-> "save", req |-> q, on |-> FALSE]
    OBVIOUS
  <2>2. ExecuteFits(k)'
    <3>1. q \in Proxy!Requests(Proxy!Gens, Proxy!Secrets)
      <4>1. fresh' \in 0..MaxSecret /\ row.generation + 1 \in 0..(2 * MaxSecret + 1)
        BY <1>1, <1>2, ProxyConstants DEF Top
      <4> QED BY <1>1, <1>3, <4>1 DEF Proxy!Requests, Proxy!Gens, Proxy!Secrets, Changes
    <3> QED BY <1>4, <2>1, <3>1 DEF ExecuteFits, Proxy!Calls
  <2> QED BY <1>5, <2>1, <2>2
<1>7. UNCHANGED <<load, row, secret, enabled, newest, worker, late, ppFaults>>
  BY DEF Proxy!BeginSecret, Proxy!local
<1>8. CallsFit'
  BY <1>1, <1>5, <1>6, <1>7, CallsMove
<1>9. RowFits' /\ SidesFit' /\ \A r \in late : RequestFits(r)'
  BY <1>1, <1>7, OthersStay
<1>10. load' \in Loads /\ fresh' \in 0..MaxSecret /\ ppFaults' \in 0..MaxFaults
  BY <1>1, <1>7, ProxyConstants DEF ProxyTyped
<1> QED BY <1>7, <1>8, <1>9, <1>10 DEF ProxyTyped

\* The steps of a call that generate nothing.
LEMMA TypedStep ==
  ASSUME ProxyTyped, NEW c \in load.callers, UNCHANGED <<load, fresh>>, DOMAIN calls' = Callers,
         \A b \in Callers \ {c} : calls'[b] = calls[b], ExecuteFits(calls'[c]),
         row' = row \/ RowFits', UNCHANGED <<secret, enabled, newest, worker>> \/ SidesFit',
         \A q \in late' : q \in late \/ RequestFits(q), ppFaults' \in 0..MaxFaults
  PROVE  ProxyTyped'
<1>1. fresh' \in fresh..MaxSecret /\ fresh \in Nat /\ fresh' = fresh
  BY FreshIs
<1>2. \A k : ExecuteFits(k) => ExecuteFits(k)'
  BY <1>1, ExecuteStays
<1>3. ExecuteFits(calls[c])'
  <2>1. PICK k : k = calls'[c]
    OBVIOUS
  <2> QED BY <1>2, <2>1
<1>4. \A q : RequestFits(q) => RequestFits(q)'
  BY <1>1, RequestStays
<1> QED BY <1>1, <1>3, <1>4, CallsMove, OthersStay, ProxyConstants DEF ProxyTyped

LEMMA CalledIs ==
  ASSUME ProxyTyped, NEW c \in load.callers
  PROVE  c \in Callers /\ DOMAIN calls = Callers /\ calls[c] \in Proxy!Calls
  BY ProxyConstants, CarriesIs DEF ProxyTyped, CallsFit

LEMMA TypedBegin ==
  ASSUME ProxyTyped, NEW c \in load.callers, Proxy!BeginReconcile(c) \/ Proxy!BeginDeprovision(c) PROVE ProxyTyped'
<1>0. c \in Callers /\ DOMAIN calls = Callers /\ calls[c] \in Proxy!Calls
  BY CalledIs
<1>1. CASE Proxy!BeginReconcile(c)
  <2>1. calls[c] = Proxy!Idle
    BY <1>0, <1>1, CarriesIs DEF Proxy!BeginReconcile, Proxy!At
  <2>2. /\ DOMAIN calls' = Callers /\ \A b \in Callers \ {c} : calls'[b] = calls[b]
        /\ calls'[c] = [pc |-> "read", req |-> Proxy!NoPending, on |-> FALSE]
    <3>1. Proxy!Goes(c, "read") /\ calls[c].req = Proxy!NoPending /\ calls[c].on = FALSE
      BY <1>1, <2>1 DEF Proxy!BeginReconcile, Proxy!Idle
    <3>2. /\ DOMAIN calls' = Callers /\ \A b \in Callers \ {c} : calls'[b] = calls[b]
          /\ calls'[c] = [pc |-> "read", req |-> calls[c].req, on |-> calls[c].on]
      BY <1>0, <3>1, GoesIs
    <3> QED BY <3>1, <3>2
  <2>3. ExecuteFits(calls'[c])
    BY <2>2 DEF ExecuteFits, Proxy!Calls
  <2> QED BY <1>1, <2>2, <2>3, TypedStep DEF Proxy!BeginReconcile, Proxy!local, ProxyTyped
<1>2. CASE Proxy!BeginDeprovision(c)
  <2>1. PICK q : q = [op |-> "deprovision", gen |-> row.generation + 1, secret |-> Proxy!NoSecret]
    OBVIOUS
  <2>2. RequestFits(q)
    <3>1. row.provisioned /\ row.generation \in 0..Top /\ row.generation < Top /\ fresh \in Nat
      BY <1>2, FreshIs DEF Proxy!BeginDeprovision, Proxy!Binds, ProxyTyped, RowFits
    <3> QED BY <2>1, <3>1 DEF RequestFits, Top, Changes, Proxy!NoSecret
  <2>3. /\ DOMAIN calls' = Callers /\ \A b \in Callers \ {c} : calls'[b] = calls[b]
        /\ calls'[c] = [pc |-> "sent", req |-> q, on |-> FALSE]
    BY <1>0, <1>2, <2>1, AsksIs DEF Proxy!BeginDeprovision
  <2>4. ExecuteFits(calls'[c])
    BY <2>2, <2>3, BecomesIs DEF ProxyTyped
  <2> QED BY <1>2, <2>3, <2>4, TypedStep DEF Proxy!BeginDeprovision, Proxy!local, ProxyTyped
<1> QED BY <1>1, <1>2

LEMMA TypedSave == ASSUME ProxyTyped, NEW c \in load.callers, Proxy!SavePending(c) PROVE ProxyTyped'
<1>0. c \in Callers /\ DOMAIN calls = Callers /\ calls[c] \in Proxy!Calls /\ calls[c].on \in BOOLEAN
  BY CalledIs DEF Proxy!Calls
<1>1. PICK q : q = calls[c].req
  OBVIOUS
<1>2. RequestFits(q) /\ q.op \in Changes
  BY <1>0, <1>1, CarriesIs DEF Proxy!SavePending, Proxy!At
<1>3. /\ DOMAIN calls' = Callers /\ \A b \in Callers \ {c} : calls'[b] = calls[b]
      /\ calls'[c] = [pc |-> "read", req |-> q, on |-> calls[c].on]
  BY <1>0, <1>1, GoesIs DEF Proxy!SavePending
<1>4. ExecuteFits(calls'[c])
  BY <1>0, <1>2, <1>3, BecomesIs DEF ProxyTyped
<1>5. RowFits'
  <2>1. q \in Proxy!Pendings
    BY <1>2, RequestTyped DEF ProxyTyped
  <2>2. row' = [row EXCEPT !.pending = q] /\ fresh' = fresh
    BY <1>1 DEF Proxy!SavePending
  <2>3. RequestFits(q)' /\ Top' = Top
    BY <1>2, <2>2 DEF RequestFits, Top
  <2> QED BY <1>2, <2>1, <2>2, <2>3 DEF ProxyTyped, RowFits
<1> QED BY <1>3, <1>4, <1>5, TypedStep DEF Proxy!SavePending, ProxyTyped

LEMMA TypedRead == ASSUME ProxyTyped, NEW c \in load.callers, Proxy!ReadPending(c) PROVE ProxyTyped'
<1>0. c \in Callers /\ DOMAIN calls = Callers /\ calls[c] \in Proxy!Calls
  BY CalledIs
<1>1. PICK q : q = IF row.pending = Proxy!NoPending THEN calls[c].req ELSE row.pending
  OBVIOUS
<1>2. q # Proxy!NoPending => RequestFits(q)
  BY <1>0, <1>1, CarriesIs DEF ProxyTyped, RowFits
<1>4. UNCHANGED <<load, row, secret, enabled, newest, worker, late, fresh, ppFaults>>
  BY DEF Proxy!ReadPending, Proxy!local
<1>5. DOMAIN calls' = Callers /\ (\A b \in Callers \ {c} : calls'[b] = calls[b]) /\ ExecuteFits(calls'[c])
  <2>1. CASE q = Proxy!NoPending
    BY <1>0, <1>1, <2>1, ReturnsIs, IdleIs DEF Proxy!ReadPending
  <2>2. CASE q # Proxy!NoPending
    <3>1. Proxy!Asks(c, "sent", q.op, q.gen, q.secret)
      BY <1>1, <2>2 DEF Proxy!ReadPending
    <3>2. q = [op |-> q.op, gen |-> q.gen, secret |-> q.secret]
      BY <1>2, <2>2 DEF RequestFits
    <3>3. /\ DOMAIN calls' = Callers /\ \A b \in Callers \ {c} : calls'[b] = calls[b]
          /\ calls'[c] = [pc |-> "sent", req |-> q, on |-> FALSE]
      BY <1>0, <3>1, <3>2, AsksIs
    <3> QED BY <1>2, <2>2, <3>3, BecomesIs DEF ProxyTyped
  <2> QED BY <2>1, <2>2
<1> QED BY <1>4, <1>5, TypedStep DEF ProxyTyped

\* What the Worker makes of a request.
LEMMA AfterIs ==
  ASSUME ProxyTyped, NEW q, RequestFits(q), NEW w, w = Proxy!After(worker, q)
  PROVE  /\ w \in [gen : 0..Top, active : 0..fresh, prev : 0..fresh]
         /\ \/ w = worker /\ ~Proxy!Advances(worker, q)
            \/ /\ Proxy!Advances(worker, q) /\ q.gen = worker.gen + 1 /\ w.gen = q.gen /\ w.active = q.secret
               /\ \/ q.op = "deprovision" /\ w.prev = Proxy!NoSecret
                  \/ q.op = "provision" /\ worker.active = Proxy!NoSecret /\ w.prev = worker.prev
                  \/ q.op = "rotate" /\ worker.active # Proxy!NoSecret /\ w.prev = worker.active
<1>1. /\ q.gen \in 1..Top /\ q.secret \in 0..fresh /\ q.op \in {"provision", "rotate", "deprovision"}
      /\ q.op = "deprovision" => q.secret = Proxy!NoSecret
  BY DEF RequestFits, Changes
<1>2. worker \in [gen : 0..Top, active : 0..fresh, prev : 0..fresh] /\ fresh \in Nat /\ Top \in Nat
  BY FreshIs, ProxyConstants DEF ProxyTyped, SidesFit, Top
<1>3. CASE ~Proxy!Advances(worker, q)
  BY <1>2, <1>3 DEF Proxy!After
<1>4. CASE Proxy!Advances(worker, q) /\ q.op = "deprovision"
  <2>1. w = [gen |-> q.gen, active |-> Proxy!NoSecret, prev |-> Proxy!NoSecret]
    BY <1>4 DEF Proxy!After, Proxy!EmptyWorker
  <2> QED BY <1>1, <1>2, <1>4, <2>1 DEF Proxy!Advances, Proxy!NoSecret
<1>5. CASE Proxy!Advances(worker, q) /\ q.op # "deprovision"
  <2>1. w = [gen |-> q.gen, active |-> q.secret,
             prev |-> IF worker.active = Proxy!NoSecret THEN worker.prev ELSE worker.active]
    BY <1>5 DEF Proxy!After
  <2> QED BY <1>1, <1>2, <1>5, <2>1 DEF Proxy!Advances
<1> QED BY <1>3, <1>4, <1>5

LEMMA TypedWorker == ASSUME ProxyTyped, NEW c \in load.callers, Proxy!WorkerHandles(c) PROVE ProxyTyped'
<1>0. c \in Callers /\ DOMAIN calls = Callers /\ calls[c] \in Proxy!Calls /\ calls[c].on \in BOOLEAN
  BY CalledIs DEF Proxy!Calls
<1>1. PICK q : q = calls[c].req
  OBVIOUS
<1>2. RequestFits(q)
  BY <1>0, <1>1, CarriesIs DEF Proxy!WorkerHandles, Proxy!At
<1>3. PICK to \in {"accepted", "refused"} : to = IF Proxy!Accepts(worker, calls[c].req) THEN "accepted" ELSE "refused"
  OBVIOUS
<1>4. /\ DOMAIN calls' = Callers /\ \A b \in Callers \ {c} : calls'[b] = calls[b]
      /\ calls'[c] = [pc |-> to, req |-> q, on |-> calls[c].on]
  BY <1>0, <1>1, <1>3, GoesIs DEF Proxy!WorkerHandles
<1>5. ExecuteFits(calls'[c])
  BY <1>0, <1>2, <1>3, <1>4, BecomesIs DEF ProxyTyped
<1>6. SidesFit'
  <2>1. worker' \in [gen : 0..Top, active : 0..fresh, prev : 0..fresh]
    BY <1>1, <1>2, AfterIs DEF Proxy!WorkerHandles
  <2>2. UNCHANGED <<fresh, secret, enabled, newest>> /\ Top' = Top
    BY DEF Proxy!WorkerHandles, Proxy!local, Top
  <2> QED BY <2>1, <2>2 DEF ProxyTyped, SidesFit
<1> QED BY <1>4, <1>5, <1>6, TypedStep DEF Proxy!WorkerHandles, Proxy!local, ProxyTyped

LEMMA TypedReturns ==
  ASSUME ProxyTyped, NEW c \in load.callers, Proxy!Refused(c) \/ Proxy!HealthRejected(c) \/ Proxy!GivesUp(c)
  PROVE  ProxyTyped'
<1>0. c \in Callers /\ DOMAIN calls = Callers /\ calls[c] \in Proxy!Calls
  BY CalledIs
<1>1. /\ DOMAIN calls' = Callers /\ \A b \in Callers \ {c} : calls'[b] = calls[b]
      /\ calls'[c] = Proxy!Idle
  BY <1>0, ReturnsIs DEF Proxy!Refused, Proxy!HealthRejected, Proxy!GivesUp
<1>2. UNCHANGED <<load, row, secret, enabled, newest, worker, fresh>>
  BY DEF Proxy!Refused, Proxy!HealthRejected, Proxy!GivesUp, Proxy!local
<1>3. ppFaults' \in 0..MaxFaults
  BY FaultIs DEF Proxy!Refused, Proxy!HealthRejected, Proxy!GivesUp, ProxyTyped
<1>4. \A q \in late' : q \in late \/ RequestFits(q)
  BY <1>0, CarriesIs DEF Proxy!Refused, Proxy!HealthRejected, Proxy!GivesUp, Proxy!At
<1> QED BY <1>1, <1>2, <1>3, <1>4, IdleIs, TypedStep

LEMMA TypedVerified ==
  ASSUME ProxyTyped, NEW c \in load.callers, Proxy!HealthVerified(c) \/ Proxy!PromoteReads(c) PROVE ProxyTyped'
<1>0. c \in Callers /\ DOMAIN calls = Callers /\ calls[c] \in Proxy!Calls /\ calls[c].on \in BOOLEAN
  BY CalledIs DEF Proxy!Calls
<1>1. PICK q : q = calls[c].req
  OBVIOUS
<1>2. RequestFits(q) /\ q.op \in Changes
  <2>1. calls[c].pc \in {"accepted", "verified"} /\ (calls[c].pc = "accepted" => q.op # "deprovision")
    BY <1>1 DEF Proxy!HealthVerified, Proxy!PromoteReads, Proxy!At
  <2>2. RequestFits(q) /\ (calls[c].pc = "verified" => q.op \in Changes)
    BY <1>0, <1>1, <2>1, CarriesIs
  <2> QED BY <2>1, <2>2, RequestTyped DEF ProxyTyped
<1>3. UNCHANGED <<load, row, secret, enabled, newest, worker, late, fresh, ppFaults>>
  BY DEF Proxy!HealthVerified, Proxy!PromoteReads, Proxy!local
<1>4. /\ DOMAIN calls' = Callers /\ (\A b \in Callers \ {c} : calls'[b] = calls[b]) /\ ExecuteFits(calls'[c])
  <2>1. CASE Proxy!HealthVerified(c)
    <3>1. /\ DOMAIN calls' = Callers /\ \A b \in Callers \ {c} : calls'[b] = calls[b]
          /\ calls'[c] = [pc |-> "verified", req |-> q, on |-> calls[c].on]
      BY <1>0, <1>1, <2>1, GoesIs DEF Proxy!HealthVerified
    <3> QED BY <1>0, <1>2, <3>1, BecomesIs DEF ProxyTyped
  <2>2. CASE Proxy!PromoteReads(c)
    <3>1. calls' = [calls EXCEPT ![c] = [[calls[c] EXCEPT !.pc = "configure"] EXCEPT !.on = enabled]]
      BY <2>2 DEF Proxy!PromoteReads
    <3>2. [[calls[c] EXCEPT !.pc = "configure"] EXCEPT !.on = enabled] = [pc |-> "configure", req |-> q, on |-> enabled]
      <4>1. PICK k : k = [calls[c] EXCEPT !.pc = "configure"]
        OBVIOUS
      <4>2. k = [pc |-> "configure", req |-> q, on |-> calls[c].on]
        BY <1>0, <1>1, <4>1 DEF Proxy!Calls
      <4>3. [k EXCEPT !.on = enabled] = [pc |-> "configure", req |-> q, on |-> enabled]
        BY <4>2
      <4> QED BY <4>1, <4>3
    <3>3. /\ DOMAIN calls' = Callers /\ \A b \in Callers \ {c} : calls'[b] = calls[b]
          /\ calls'[c] = [pc |-> "configure", req |-> q, on |-> enabled]
      BY <1>0, <3>1, <3>2
    <3>4. enabled \in BOOLEAN
      BY DEF ProxyTyped, SidesFit
    <3> QED BY <1>2, <3>3, <3>4, BecomesIs DEF ProxyTyped
  <2> QED BY <2>1, <2>2
<1> QED BY <1>3, <1>4, TypedStep DEF ProxyTyped

LEMMA TypedConfigures ==
  ASSUME ProxyTyped, NEW c \in load.callers, Proxy!PromoteConfigures(c) \/ Proxy!DeprovisionConfigures(c)
  PROVE  ProxyTyped'
<1>0. c \in Callers /\ DOMAIN calls = Callers /\ calls[c] \in Proxy!Calls /\ calls[c].on \in BOOLEAN
  BY CalledIs DEF Proxy!Calls
<1>1. PICK q : q = calls[c].req
  OBVIOUS
<1>2. PICK to \in {"promote", "finish"} :
        to = IF Proxy!PromoteConfigures(c) THEN "promote" ELSE "finish"
  OBVIOUS
<1>3. RequestFits(q) /\ (to = "promote" => q.op \in Changes) /\ (to = "finish" => q.op = "deprovision")
  BY <1>0, <1>1, <1>2, CarriesIs DEF Proxy!PromoteConfigures, Proxy!DeprovisionConfigures, Proxy!At
<1>4. Proxy!Goes(c, to) /\ UNCHANGED <<load, row, worker, late, fresh, ppFaults>> /\ enabled' \in BOOLEAN
  BY <1>0, <1>2 DEF Proxy!PromoteConfigures, Proxy!DeprovisionConfigures
<1>5. PICK s \in 0..fresh : Proxy!Configures(c, s)
  BY <1>1, <1>3, FreshIs DEF Proxy!PromoteConfigures, Proxy!DeprovisionConfigures, RequestFits, Proxy!NoSecret, ProxyTyped
<1>6. /\ DOMAIN calls' = Callers /\ \A b \in Callers \ {c} : calls'[b] = calls[b]
      /\ calls'[c] = [pc |-> to, req |-> q, on |-> calls[c].on]
  BY <1>0, <1>1, <1>4, GoesIs
<1>7. ExecuteFits(calls'[c])
  BY <1>0, <1>3, <1>6, BecomesIs DEF ProxyTyped
<1>8. SidesFit'
  <2>1. q.gen \in 0..Top /\ Top' = Top
    BY <1>3, <1>4, FreshIs DEF RequestFits, Top, ProxyTyped
  <2>2. secret' = s /\ newest' \in [gen : 0..Top, secret : 0..fresh]
    BY <1>1, <1>5, <2>1 DEF Proxy!Configures, ProxyTyped, SidesFit
  <2> QED BY <1>4, <2>1, <2>2 DEF ProxyTyped, SidesFit
<1> QED BY <1>4, <1>6, <1>7, <1>8, TypedStep DEF ProxyTyped

LEMMA TypedPromote ==
  ASSUME ProxyTyped, NEW c \in load.callers, Proxy!Promote(c) \/ Proxy!DeprovisionFinishes(c)
  PROVE  ProxyTyped'
<1>0. c \in Callers /\ DOMAIN calls = Callers /\ calls[c] \in Proxy!Calls
  BY CalledIs
<1>1. PICK q : q = calls[c].req
  OBVIOUS
<1>2. RequestFits(q) /\ (Proxy!Promote(c) => q.op \in Changes)
  BY <1>0, <1>1, CarriesIs DEF Proxy!Promote, Proxy!DeprovisionFinishes, Proxy!At
<1>3. UNCHANGED <<load, secret, enabled, newest, worker, late, fresh, ppFaults>>
  BY DEF Proxy!Promote, Proxy!DeprovisionFinishes
<1>4. RowFits'
  <2>1. /\ q.gen \in 0..Top /\ Top' = Top
        /\ q.op \in Changes => q.gen < Top
    BY <1>2, <1>3, FreshIs DEF RequestFits, Top, ProxyTyped
  <2>2. PICK done \in BOOLEAN : /\ row' = [generation |-> q.gen, provisioned |-> done, pending |-> Proxy!NoPending]
                                /\ done => q.op \in Changes
    BY <1>1, <1>2 DEF Proxy!Promote, Proxy!DeprovisionFinishes
  <2> QED BY <2>1, <2>2 DEF RowFits, Proxy!Pendings
<1>5. /\ DOMAIN calls' = Callers /\ \A b \in Callers \ {c} : calls'[b] = calls[b]
      /\ calls'[c] = Proxy!Idle
  BY <1>0, ReturnsIs DEF Proxy!Promote, Proxy!DeprovisionFinishes
<1> QED BY <1>3, <1>4, <1>5, IdleIs, TypedStep DEF ProxyTyped

\* The steps of the environment that leave the calls alone.
LEMMA TypedBeside ==
  ASSUME ProxyTyped, UNCHANGED <<load, row, secret, newest, calls, fresh, ppFaults>>, enabled' \in BOOLEAN,
         worker' \in [gen : 0..Top, active : 0..fresh, prev : 0..fresh], late' \subseteq late
  PROVE  ProxyTyped'
<1>1. fresh' \in fresh..MaxSecret /\ fresh \in Nat /\ fresh' = fresh /\ Top' = Top
  BY FreshIs DEF Top
<1>2. SidesFit'
  BY <1>1 DEF ProxyTyped, SidesFit
<1>3. RowFits' /\ \A q \in late' : RequestFits(q)'
  BY <1>1, OthersStay
<1> QED BY <1>1, <1>2, <1>3, CallsStay DEF ProxyTyped

LEMMA TypedEnvironment ==
  ASSUME ProxyTyped,
         \/ \E q \in late : Proxy!WorkerHandlesLate(q) \/ Proxy!RequestDropped(q)
         \/ \E on \in BOOLEAN : Proxy!SetEnabled(on)
         \/ Proxy!GraceEnds
  PROVE  ProxyTyped'
<1>1. ASSUME NEW q \in late, Proxy!WorkerHandlesLate(q) PROVE ProxyTyped'
  <2>1. worker' \in [gen : 0..Top, active : 0..fresh, prev : 0..fresh]
    BY <1>1, AfterIs DEF Proxy!WorkerHandlesLate, ProxyTyped
  <2>2. enabled' \in BOOLEAN
    BY <1>1 DEF Proxy!WorkerHandlesLate, Proxy!local, ProxyTyped, SidesFit
  <2> QED BY <1>1, <2>1, <2>2, TypedBeside DEF Proxy!WorkerHandlesLate, Proxy!local
<1>2. ASSUME NEW q \in late, Proxy!RequestDropped(q) PROVE ProxyTyped'
  BY <1>2, TypedBeside DEF Proxy!RequestDropped, Proxy!local, ProxyTyped, SidesFit
<1>3. ASSUME NEW on \in BOOLEAN, Proxy!SetEnabled(on) PROVE ProxyTyped'
  BY <1>3, TypedBeside DEF Proxy!SetEnabled, ProxyTyped, SidesFit
<1>4. CASE Proxy!GraceEnds
  <2>1. worker' \in [gen : 0..Top, active : 0..fresh, prev : 0..fresh]
    BY <1>4, FreshIs DEF Proxy!GraceEnds, ProxyTyped, SidesFit, Proxy!NoSecret
  <2> QED BY <1>4, <2>1, TypedBeside DEF Proxy!GraceEnds, Proxy!local, ProxyTyped, SidesFit
<1> QED BY <1>1, <1>2, <1>3, <1>4

LEMMA TypedCrash == ASSUME ProxyTyped, Proxy!Crash PROVE ProxyTyped'
<1>1. fresh' \in fresh..MaxSecret /\ fresh \in Nat /\ fresh' = fresh
  BY FreshIs DEF Proxy!Crash
<1>2. \A q \in late' : q \in late \/ RequestFits(q)
  <2> SUFFICES ASSUME NEW c \in Callers, calls[c].pc = "sent" PROVE RequestFits(calls[c].req)
    BY DEF Proxy!Crash, Proxy!At
  <2> QED BY CarriesIs
<1>3. \A q : RequestFits(q) => RequestFits(q)'
  BY <1>1, RequestStays
<1>4. CallsFit'
  <2>1. ExecuteFits(Proxy!Idle)'
    BY <1>1, IdleIs, ExecuteStays
  <2>2. calls' = [c \in Callers |-> Proxy!Idle]
    BY DEF Proxy!Crash
  <2>3. \A c \in Callers : calls'[c] = Proxy!Idle
    BY <2>2
  <2> QED BY <2>1, <2>2, <2>3 DEF CallsFit
<1>5. RowFits' /\ SidesFit'
  BY <1>1, OthersStay DEF Proxy!Crash, Proxy!local
<1>6. load' \in Loads /\ ppFaults' \in 0..MaxFaults
  BY FaultIs DEF Proxy!Crash, Proxy!local, ProxyTyped
<1>7. \A q \in late' : RequestFits(q)'
  BY <1>2, <1>3 DEF ProxyTyped
<1> QED BY <1>1, <1>4, <1>5, <1>6, <1>7 DEF ProxyTyped

LEMMA TypedKeeps == ASSUME ProxyTyped, Proxy!Next PROVE ProxyTyped'
<1>1. ASSUME NEW c \in load.callers, NEW d \in Changes, Proxy!BeginSecret(c, d) PROVE ProxyTyped'
  BY <1>1, TypedBeginSecret
<1>2. ASSUME NEW c \in load.callers, Proxy!BeginReconcile(c) \/ Proxy!BeginDeprovision(c) PROVE ProxyTyped'
  BY <1>2, TypedBegin
<1>3. ASSUME NEW c \in load.callers, Proxy!Step(c) \/ Proxy!GivesUp(c) PROVE ProxyTyped'
  BY <1>3, TypedSave, TypedRead, TypedWorker, TypedReturns, TypedVerified, TypedConfigures, TypedPromote DEF Proxy!Step
<1> QED BY <1>1, <1>2, <1>3, TypedEnvironment, TypedCrash DEF Proxy!Next, Changes

-----------------------------------------------------------------------------
(* What a step is to the generations. *)

Calm(k, l) ==
  \/ l = k
  \/ l.pc \notin {"accepted", "verified", "configure", "promote", "finish"}
  \/ k.pc \in {"accepted", "verified"} /\ l.pc \in {"verified", "configure"} /\ l.req = k.req

\* Nothing new is asked for, and nothing happens to the Worker but that a grace ends.
Quiet ==
  /\ InPlay' \subseteq InPlay /\ fresh' = fresh /\ newest' = newest /\ row'.generation = row.generation
  /\ worker'.gen = worker.gen /\ worker'.active = worker.active
  /\ worker'.prev \in {worker.prev, Proxy!NoSecret}
  /\ \A c \in Callers : Calm(calls[c], calls'[c])

Begins(q) ==
  /\ InPlay' \subseteq InPlay \cup {q} /\ q.gen = row.generation + 1
  /\ \/ q.secret = fresh + 1 /\ fresh' = fresh + 1
     \/ q.secret = Proxy!NoSecret /\ fresh' = fresh
  /\ newest' = newest /\ row' = row /\ worker' = worker
  /\ \A c \in Callers : Calm(calls[c], calls'[c])

Handled(q) ==
  /\ q \in InPlay /\ RequestFits(q) /\ worker' = Proxy!After(worker, q)
  /\ InPlay' \subseteq InPlay /\ fresh' = fresh /\ newest' = newest /\ row' = row
  /\ \A c \in Callers : Calm(calls[c], calls'[c]) \/
       (calls'[c].req = q /\ calls'[c].pc = "accepted" /\ Proxy!Accepts(worker, q))

Configured(c) ==
  /\ InPlay' \subseteq InPlay /\ fresh' = fresh /\ row' = row /\ worker' = worker
  /\ calls[c].pc \in {"accepted", "configure"} /\ RequestFits(calls[c].req) /\ Proxy!Configures(c, calls[c].req.secret)
  /\ calls'[c].pc \in {"promote", "finish"} /\ calls'[c].req = calls[c].req
  /\ \A b \in Callers \ {c} : calls'[b] = calls[b]

Settled(c) ==
  /\ InPlay' \subseteq InPlay /\ fresh' = fresh /\ newest' = newest /\ worker' = worker
  /\ calls[c].pc \in {"promote", "finish"} /\ RequestFits(calls[c].req) /\ row'.generation = calls[c].req.gen
  /\ calls'[c] = Proxy!Idle /\ \A b \in Callers \ {c} : calls'[b] = calls[b]

Moves ==
  Quiet \/ (\E q : Begins(q)) \/ (\E q : Handled(q)) \/ (\E c \in Callers : Configured(c) \/ Settled(c))

LEMMA InPlayIs ==
  /\ \A q \in late : q # Proxy!NoPending => q \in InPlay
  /\ row.pending \in InPlay \cup {Proxy!NoPending}
  /\ \A c \in Callers : calls[c].req \in InPlay \cup {Proxy!NoPending}
  /\ Proxy!NoPending \notin InPlay
  BY DEF InPlay

LEMMA StaysInPlay ==
  ASSUME NEW N,
         \A q \in late' : q \in InPlay \cup N \cup {Proxy!NoPending},
         row'.pending \in InPlay \cup N \cup {Proxy!NoPending},
         \A c \in Callers : calls'[c].req \in InPlay \cup N \cup {Proxy!NoPending}
  PROVE  InPlay' \subseteq InPlay \cup N
  BY DEF InPlay

\* The others and what is stored are in play; so it is enough to look at what moves.
LEMMA OneMoves ==
  ASSUME NEW c \in Callers, NEW N,
         \A b \in Callers \ {c} : calls'[b] = calls[b],
         calls'[c].req \in InPlay \cup N \cup {Proxy!NoPending},
         row'.pending \in InPlay \cup N \cup {Proxy!NoPending},
         \A q \in late' : q \in late \cup InPlay
  PROVE  InPlay' \subseteq InPlay \cup N
<1>1. \A b \in Callers : calls'[b].req \in InPlay \cup N \cup {Proxy!NoPending}
  BY InPlayIs
<1>2. \A q \in late' : q \in InPlay \cup N \cup {Proxy!NoPending}
  BY InPlayIs
<1> QED BY <1>1, <1>2, StaysInPlay

LEMMA BeginMoves ==
  ASSUME ProxyTyped, NEW c \in load.callers,
         (\E d \in Changes : Proxy!BeginSecret(c, d)) \/ Proxy!BeginDeprovision(c)
  PROVE  \E q : Begins(q)
<1>0. c \in Callers /\ DOMAIN calls = Callers /\ calls[c] \in Proxy!Calls
  BY CalledIs
<1>1. ASSUME NEW d \in Changes, Proxy!BeginSecret(c, d) PROVE \E q : Begins(q)
  <2>1. PICK q : q = [op |-> d, gen |-> row.generation + 1, secret |-> fresh + 1]
    OBVIOUS
  <2>2. /\ DOMAIN calls' = Callers /\ \A b \in Callers \ {c} : calls'[b] = calls[b]
        /\ calls'[c] = [pc |-> "save", req |-> q, on |-> FALSE]
    BY <1>0, <1>1, <2>1, AsksIs DEF Proxy!BeginSecret
  <2>3. UNCHANGED <<row, newest, worker, late>> /\ fresh' = fresh + 1
    BY <1>1 DEF Proxy!BeginSecret, Proxy!local
  <2>4. InPlay' \subseteq InPlay \cup {q}
    <3>1. calls'[c].req \in InPlay \cup {q} \cup {Proxy!NoPending}
      BY <2>2
    <3>2. row'.pending \in InPlay \cup {q} \cup {Proxy!NoPending} /\ \A r \in late' : r \in late \cup InPlay
      BY <2>3, InPlayIs
    <3> QED BY <1>0, <2>2, <3>1, <3>2, OneMoves
  <2>5. \A b \in Callers : Calm(calls[b], calls'[b])
    BY <2>2 DEF Calm
  <2> QED BY <2>1, <2>3, <2>4, <2>5 DEF Begins
<1>2. CASE Proxy!BeginDeprovision(c)
  <2>1. PICK q : q = [op |-> "deprovision", gen |-> row.generation + 1, secret |-> Proxy!NoSecret]
    OBVIOUS
  <2>2. /\ DOMAIN calls' = Callers /\ \A b \in Callers \ {c} : calls'[b] = calls[b]
        /\ calls'[c] = [pc |-> "sent", req |-> q, on |-> FALSE]
    BY <1>0, <1>2, <2>1, AsksIs DEF Proxy!BeginDeprovision
  <2>3. UNCHANGED <<row, newest, worker, late, fresh>>
    BY <1>2 DEF Proxy!BeginDeprovision, Proxy!local
  <2>4. InPlay' \subseteq InPlay \cup {q}
    <3>1. calls'[c].req \in InPlay \cup {q} \cup {Proxy!NoPending}
      BY <2>2
    <3>2. row'.pending \in InPlay \cup {q} \cup {Proxy!NoPending} /\ \A r \in late' : r \in late \cup InPlay
      BY <2>3, InPlayIs
    <3> QED BY <1>0, <2>2, <3>1, <3>2, OneMoves
  <2>5. \A b \in Callers : Calm(calls[b], calls'[b])
    BY <2>2 DEF Calm
  <2> QED BY <2>1, <2>3, <2>4, <2>5 DEF Begins
<1> QED BY <1>1, <1>2

LEMMA QuietMoves ==
  ASSUME ProxyTyped, NEW c \in load.callers,
         \/ Proxy!BeginReconcile(c) \/ Proxy!SavePending(c) \/ Proxy!ReadPending(c)
         \/ Proxy!Refused(c) \/ Proxy!HealthRejected(c) \/ Proxy!GivesUp(c)
         \/ Proxy!HealthVerified(c) \/ Proxy!PromoteReads(c)
  PROVE  Quiet
<1>0. c \in Callers /\ DOMAIN calls = Callers /\ calls[c] \in Proxy!Calls
  BY CalledIs
<1>1. /\ \A b \in Callers \ {c} : calls'[b] = calls[b]
      /\ calls'[c].req \in InPlay \cup {Proxy!NoPending}
      /\ Calm(calls[c], calls'[c])
  <2>1. CASE Proxy!BeginReconcile(c) \/ Proxy!SavePending(c)
    <3>1. /\ \A b \in Callers \ {c} : calls'[b] = calls[b]
          /\ calls'[c] = [pc |-> "read", req |-> calls[c].req, on |-> calls[c].on]
      BY <1>0, <2>1, GoesIs DEF Proxy!BeginReconcile, Proxy!SavePending
    <3> QED BY <1>0, <3>1, InPlayIs DEF Calm
  <2>2. CASE Proxy!ReadPending(c)
    <3>1. PICK q : q = IF row.pending = Proxy!NoPending THEN calls[c].req ELSE row.pending
      OBVIOUS
    <3>2. q \in InPlay \cup {Proxy!NoPending}
      BY <1>0, <3>1, InPlayIs
    <3>3. CASE q = Proxy!NoPending
      <4>1. Proxy!Returns(c)
        BY <2>2, <3>1, <3>3 DEF Proxy!ReadPending
      <4>2. (\A b \in Callers \ {c} : calls'[b] = calls[b]) /\ calls'[c] = Proxy!Idle
        BY <1>0, <4>1, ReturnsIs
      <4> QED BY <4>2, IdleIs DEF Calm
    <3>4. CASE q # Proxy!NoPending
      <4>1. Proxy!Asks(c, "sent", q.op, q.gen, q.secret)
        BY <2>2, <3>1, <3>4 DEF Proxy!ReadPending
      <4>2. q = [op |-> q.op, gen |-> q.gen, secret |-> q.secret]
        <5>1. RequestFits(q)
          BY <1>0, <3>1, <3>4, CarriesIs DEF ProxyTyped, RowFits
        <5> QED BY <5>1 DEF RequestFits
      <4>3. (\A b \in Callers \ {c} : calls'[b] = calls[b]) /\ calls'[c] = [pc |-> "sent", req |-> q, on |-> FALSE]
        BY <1>0, <4>1, <4>2, AsksIs
      <4> QED BY <3>2, <4>3 DEF Calm
    <3> QED BY <3>3, <3>4
  <2>3. CASE Proxy!Refused(c) \/ Proxy!HealthRejected(c) \/ Proxy!GivesUp(c)
    <3>1. (\A b \in Callers \ {c} : calls'[b] = calls[b]) /\ calls'[c] = Proxy!Idle
      BY <1>0, <2>3, ReturnsIs DEF Proxy!Refused, Proxy!HealthRejected, Proxy!GivesUp
    <3> QED BY <3>1, IdleIs DEF Calm
  <2>4. CASE Proxy!HealthVerified(c)
    <3>1. /\ \A b \in Callers \ {c} : calls'[b] = calls[b]
          /\ calls'[c] = [pc |-> "verified", req |-> calls[c].req, on |-> calls[c].on] /\ calls[c].pc = "accepted"
      BY <1>0, <2>4, GoesIs DEF Proxy!HealthVerified, Proxy!At
    <3> QED BY <1>0, <3>1, InPlayIs DEF Calm
  <2>5. CASE Proxy!PromoteReads(c)
    <3>1. PICK k : k = [calls[c] EXCEPT !.pc = "configure"]
      OBVIOUS
    <3>2. k = [pc |-> "configure", req |-> calls[c].req, on |-> calls[c].on]
      BY <1>0, <3>1 DEF Proxy!Calls
    <3>3. calls' = [calls EXCEPT ![c] = [k EXCEPT !.on = enabled]] /\ calls[c].pc = "verified"
      BY <2>5, <3>1 DEF Proxy!PromoteReads, Proxy!At
    <3>4. /\ \A b \in Callers \ {c} : calls'[b] = calls[b]
          /\ calls'[c].pc = "configure" /\ calls'[c].req = calls[c].req
      BY <1>0, <3>2, <3>3
    <3> QED BY <1>0, <3>3, <3>4, InPlayIs DEF Calm
  <2> QED BY <2>1, <2>2, <2>3, <2>4, <2>5
<1>2. /\ UNCHANGED <<newest, worker, fresh>> /\ row'.generation = row.generation
      /\ row'.pending \in InPlay \cup {Proxy!NoPending}
  <2>1. CASE Proxy!SavePending(c)
    <3>1. row' = [row EXCEPT !.pending = calls[c].req] /\ UNCHANGED <<newest, worker, fresh>>
      BY <2>1 DEF Proxy!SavePending
    <3>2. row'.generation = row.generation /\ row'.pending = calls[c].req
      BY <3>1 DEF ProxyTyped, RowFits
    <3> QED BY <1>0, <3>1, <3>2, InPlayIs
  <2>2. CASE ~Proxy!SavePending(c)
    <3>1. UNCHANGED <<row, newest, worker, fresh>>
      BY <2>2 DEF Proxy!BeginReconcile, Proxy!ReadPending, Proxy!Refused, Proxy!HealthRejected,
                  Proxy!GivesUp, Proxy!HealthVerified, Proxy!PromoteReads, Proxy!local
    <3> QED BY <3>1, InPlayIs
  <2> QED BY <2>1, <2>2
<1>3. \A q \in late' : q \in late \cup InPlay
  <2>1. CASE Proxy!GivesUp(c)
    <3>1. late' \subseteq late \cup {calls[c].req} /\ (late' # late => calls[c].pc = "sent")
      BY <2>1 DEF Proxy!GivesUp, Proxy!At
    <3>2. calls[c].pc = "sent" => calls[c].req \in InPlay
      BY <1>0, CarriesIs, InPlayIs, RequestTyped DEF ProxyTyped
    <3> QED BY <3>1, <3>2
  <2>2. CASE ~Proxy!GivesUp(c)
    BY <2>2 DEF Proxy!BeginReconcile, Proxy!SavePending, Proxy!ReadPending, Proxy!Refused, Proxy!HealthRejected,
                Proxy!HealthVerified, Proxy!PromoteReads, Proxy!local
  <2> QED BY <2>1, <2>2
<1>4. InPlay' \subseteq InPlay \cup {}
  BY <1>0, <1>1, <1>2, <1>3, OneMoves
<1>5. \A b \in Callers : Calm(calls[b], calls'[b])
  BY <1>1 DEF Calm
<1> QED BY <1>2, <1>4, <1>5 DEF Quiet

LEMMA HandlesMoves ==
  ASSUME ProxyTyped, NEW c \in load.callers, Proxy!WorkerHandles(c)
  PROVE  \E q : Handled(q)
<1>0. c \in Callers /\ DOMAIN calls = Callers /\ calls[c] \in Proxy!Calls
  BY CalledIs
<1>1. PICK q : q = calls[c].req
  OBVIOUS
<1>2. RequestFits(q) /\ q \in InPlay
  BY <1>0, <1>1, CarriesIs, InPlayIs, RequestTyped DEF ProxyTyped, Proxy!WorkerHandles, Proxy!At
<1>3. UNCHANGED <<row, newest, late, fresh>> /\ worker' = Proxy!After(worker, q)
  BY <1>1 DEF Proxy!WorkerHandles, Proxy!local
<1>4. PICK to : to = (IF Proxy!Accepts(worker, q) THEN "accepted" ELSE "refused")
  OBVIOUS
<1>5. /\ \A b \in Callers \ {c} : calls'[b] = calls[b]
      /\ calls'[c] = [pc |-> to, req |-> q, on |-> calls[c].on]
  <2>1. Proxy!Goes(c, to)
    BY <1>1, <1>4 DEF Proxy!WorkerHandles
  <2> QED BY <1>0, <1>1, <2>1, GoesIs
<1>6. InPlay' \subseteq InPlay \cup {}
  <2>1. calls'[c].req \in InPlay \cup {} \cup {Proxy!NoPending}
    BY <1>2, <1>5
  <2>2. row'.pending \in InPlay \cup {} \cup {Proxy!NoPending} /\ \A r \in late' : r \in late \cup InPlay
    BY <1>3, InPlayIs
  <2> QED BY <1>0, <1>5, <2>1, <2>2, OneMoves
<1>7. \A b \in Callers : Calm(calls[b], calls'[b]) \/
        (calls'[b].req = q /\ calls'[b].pc = "accepted" /\ Proxy!Accepts(worker, q))
  <2> TAKE b \in Callers
  <2>1. CASE b # c
    BY <1>5, <2>1 DEF Calm
  <2>2. CASE b = c
    BY <1>4, <1>5, <2>2 DEF Calm
  <2> QED BY <2>1, <2>2
<1> QED BY <1>2, <1>3, <1>6, <1>7 DEF Handled

LEMMA LateMoves ==
  ASSUME ProxyTyped, NEW q \in late, Proxy!WorkerHandlesLate(q)
  PROVE  Handled(q)
<1>1. RequestFits(q) /\ q \in InPlay
  BY InPlayIs, RequestTyped DEF ProxyTyped
<1>2. UNCHANGED <<row, newest, calls, fresh>> /\ worker' = Proxy!After(worker, q) /\ late' \subseteq late
  BY DEF Proxy!WorkerHandlesLate, Proxy!local
<1>3. InPlay' \subseteq InPlay
  BY <1>2 DEF InPlay
<1> QED BY <1>1, <1>2, <1>3 DEF Handled, Calm

LEMMA AroundMoves ==
  ASSUME ProxyTyped,
         \/ \E q \in late : Proxy!RequestDropped(q)
         \/ \E on \in BOOLEAN : Proxy!SetEnabled(on)
         \/ Proxy!GraceEnds \/ Proxy!Crash
  PROVE  Quiet
<1>1. CASE \E q \in late : Proxy!RequestDropped(q)
  <2>1. UNCHANGED <<row, newest, calls, worker, fresh>> /\ late' \subseteq late
    BY <1>1 DEF Proxy!RequestDropped, Proxy!local
  <2>2. InPlay' \subseteq InPlay
    BY <2>1 DEF InPlay
  <2> QED BY <2>1, <2>2 DEF Quiet, Calm
<1>2. CASE \E on \in BOOLEAN : Proxy!SetEnabled(on)
  <2>1. UNCHANGED <<row, newest, calls, worker, late, fresh>>
    BY <1>2 DEF Proxy!SetEnabled
  <2>2. InPlay' \subseteq InPlay
    BY <2>1 DEF InPlay
  <2> QED BY <2>1, <2>2 DEF Quiet, Calm
<1>3. CASE Proxy!GraceEnds
  <2>1. UNCHANGED <<row, newest, calls, late, fresh>> /\ worker' = [worker EXCEPT !.prev = Proxy!NoSecret]
    BY <1>3 DEF Proxy!GraceEnds, Proxy!local
  <2>2. InPlay' \subseteq InPlay
    BY <2>1 DEF InPlay
  <2>3. worker'.gen = worker.gen /\ worker'.active = worker.active /\ worker'.prev = Proxy!NoSecret
    BY <2>1 DEF ProxyTyped, SidesFit
  <2> QED BY <2>1, <2>2, <2>3 DEF Quiet, Calm
<1>4. CASE Proxy!Crash
  <2>1. /\ UNCHANGED <<row, newest, worker, fresh>>
        /\ late' = late \cup {calls[c].req : c \in {b \in Callers : Proxy!At(b, "sent")}}
        /\ calls' = [c \in Callers |-> Proxy!Idle]
    BY <1>4 DEF Proxy!Crash, Proxy!local
  <2>2. \A r \in late' : r \in InPlay \cup {} \cup {Proxy!NoPending}
    BY <2>1, InPlayIs
  <2>3. row'.pending \in InPlay \cup {} \cup {Proxy!NoPending}
    BY <2>1, InPlayIs
  <2>4. \A c \in Callers : calls'[c].req \in InPlay \cup {} \cup {Proxy!NoPending}
    BY <2>1, IdleIs
  <2>5. InPlay' \subseteq InPlay \cup {}
    BY <2>2, <2>3, <2>4, StaysInPlay
  <2>6. \A c \in Callers : Calm(calls[c], calls'[c])
    BY <2>1, IdleIs DEF Calm
  <2> QED BY <2>1, <2>5, <2>6 DEF Quiet
<1> QED BY <1>1, <1>2, <1>3, <1>4

LEMMA ConfigureMoves ==
  ASSUME ProxyTyped, NEW c \in load.callers, Proxy!PromoteConfigures(c) \/ Proxy!DeprovisionConfigures(c)
  PROVE  Configured(c)
<1>0. c \in Callers /\ DOMAIN calls = Callers /\ calls[c] \in Proxy!Calls
  BY CalledIs
<1>1. calls[c].pc \in {"accepted", "configure"} /\ RequestFits(calls[c].req)
  BY <1>0, CarriesIs DEF Proxy!PromoteConfigures, Proxy!DeprovisionConfigures, Proxy!At
<1>2. Proxy!Configures(c, calls[c].req.secret)
  BY <1>1 DEF Proxy!PromoteConfigures, Proxy!DeprovisionConfigures, RequestFits
<1>3. UNCHANGED <<row, worker, late, fresh>>
  BY DEF Proxy!PromoteConfigures, Proxy!DeprovisionConfigures
<1>4. PICK to \in {"promote", "finish"} : Proxy!Goes(c, to)
  BY DEF Proxy!PromoteConfigures, Proxy!DeprovisionConfigures
<1>5. /\ \A b \in Callers \ {c} : calls'[b] = calls[b]
      /\ calls'[c] = [pc |-> to, req |-> calls[c].req, on |-> calls[c].on]
  BY <1>0, <1>4, GoesIs
<1>6. InPlay' \subseteq InPlay \cup {}
  <2>1. calls'[c].req \in InPlay \cup {} \cup {Proxy!NoPending}
    BY <1>0, <1>5, InPlayIs
  <2>2. row'.pending \in InPlay \cup {} \cup {Proxy!NoPending} /\ \A r \in late' : r \in late \cup InPlay
    BY <1>3, InPlayIs
  <2> QED BY <1>0, <1>5, <2>1, <2>2, OneMoves
<1> QED BY <1>1, <1>2, <1>3, <1>4, <1>5, <1>6 DEF Configured

LEMMA SettleMoves ==
  ASSUME ProxyTyped, NEW c \in load.callers, Proxy!Promote(c) \/ Proxy!DeprovisionFinishes(c)
  PROVE  Settled(c)
<1>0. c \in Callers /\ DOMAIN calls = Callers /\ calls[c] \in Proxy!Calls
  BY CalledIs
<1>1. calls[c].pc \in {"promote", "finish"} /\ RequestFits(calls[c].req)
  BY <1>0, CarriesIs DEF Proxy!Promote, Proxy!DeprovisionFinishes, Proxy!At
<1>2. UNCHANGED <<newest, worker, late, fresh>>
  BY DEF Proxy!Promote, Proxy!DeprovisionFinishes
<1>3. row'.generation = calls[c].req.gen /\ row'.pending = Proxy!NoPending
  BY DEF Proxy!Promote, Proxy!DeprovisionFinishes
<1>4. (\A b \in Callers \ {c} : calls'[b] = calls[b]) /\ calls'[c] = Proxy!Idle
  BY <1>0, ReturnsIs DEF Proxy!Promote, Proxy!DeprovisionFinishes
<1>5. InPlay' \subseteq InPlay \cup {}
  <2>1. calls'[c].req \in InPlay \cup {} \cup {Proxy!NoPending}
    BY <1>4, IdleIs
  <2>2. row'.pending \in InPlay \cup {} \cup {Proxy!NoPending} /\ \A r \in late' : r \in late \cup InPlay
    BY <1>2, <1>3
  <2> QED BY <1>0, <1>4, <2>1, <2>2, OneMoves
<1> QED BY <1>1, <1>2, <1>3, <1>4, <1>5 DEF Settled

LEMMA ProxyMoves == ASSUME ProxyTyped, Proxy!Next PROVE Moves
<1>1. ASSUME NEW c \in load.callers,
             \/ \E d \in Changes : Proxy!BeginSecret(c, d)
             \/ Proxy!BeginReconcile(c) \/ Proxy!BeginDeprovision(c) \/ Proxy!Step(c) \/ Proxy!GivesUp(c)
      PROVE  Moves
  <2>1. c \in Callers
    BY CalledIs
  <2> QED BY <1>1, <2>1, BeginMoves, QuietMoves, HandlesMoves, ConfigureMoves, SettleMoves DEF Moves, Proxy!Step
<1> QED BY <1>1, LateMoves, AroundMoves DEF Moves, Proxy!Next, Changes

-----------------------------------------------------------------------------
(* The order of the generations, whoever calls. *)

ProxyOrder == OneRequest /\ Ordered /\ GraceKept

LEMMA InPlayFits ==
  ASSUME ProxyTyped PROVE \A q \in InPlay : RequestFits(q)
  BY CarriesIs DEF InPlay, ProxyTyped, RowFits

\* The numbers of the state.
LEMMA NumbersAre ==
  ASSUME ProxyTyped
  PROVE  /\ row.generation \in Nat /\ fresh \in Nat
         /\ newest.gen \in Nat /\ newest.secret \in 0..fresh
         /\ worker.gen \in Nat /\ worker.active \in 0..fresh /\ worker.prev \in 0..fresh
         /\ \A q : RequestFits(q) => q.gen \in Nat /\ q.secret \in 0..fresh /\ q.secret \in Nat
         /\ Proxy!NoSecret = 0
<1>1. fresh \in Nat /\ Top \in Nat
  BY ProxyConstants DEF ProxyTyped, Top
<1> QED BY <1>1 DEF ProxyTyped, RowFits, SidesFit, RequestFits, Proxy!NoSecret

LEMMA CallStaysTimely ==
  ASSUME NEW k, NEW l, Timely(k), Calm(k, l), worker'.gen = worker.gen, worker'.active = worker.active, newest' = newest
  PROVE  Timely(l)'
  BY DEF Timely, Calm

LEMMA QuietKeeps == ASSUME ProxyTyped, ProxyOrder, Quiet PROVE ProxyOrder'
<1>1. OneRequest'
  BY DEF ProxyOrder, OneRequest, Quiet
<1>2. \A c \in Callers : Timely(calls[c])'
  <2> TAKE c \in Callers
  <2>1. PICK l : l = calls'[c]
    OBVIOUS
  <2>2. Timely(l)'
    BY <2>1, CallStaysTimely DEF ProxyOrder, Ordered, Quiet
  <2> QED BY <2>1, <2>2
<1>3. Ordered'
  BY <1>2 DEF ProxyOrder, Ordered, Quiet
<1>4. GraceKept'
  BY DEF ProxyOrder, GraceKept, Quiet
<1> QED BY <1>1, <1>3, <1>4 DEF ProxyOrder

LEMMA BeginsKeeps == ASSUME ProxyTyped, ProxyOrder, NEW q, Begins(q) PROVE ProxyOrder'
<1>0. \A p \in InPlay : p.gen \in Nat /\ p.secret \in 0..fresh
  BY InPlayFits, NumbersAre
<1>1. OneRequest'
  <2>1. CASE q.secret = fresh + 1
    <3>1. \A p \in InPlay : p.secret # q.secret
      BY <1>0, <2>1, NumbersAre
    <3>2. worker.active # q.secret
      BY <2>1, NumbersAre
    <3> QED BY <3>1, <3>2 DEF ProxyOrder, OneRequest, Begins
  <2>2. CASE q.secret = Proxy!NoSecret
    BY <2>2 DEF ProxyOrder, OneRequest, Begins
  <2> QED BY <2>1, <2>2 DEF Begins
<1>2. \A c \in Callers : Timely(calls[c])'
  <2> TAKE c \in Callers
  <2>1. PICK l : l = calls'[c]
    OBVIOUS
  <2>2. Timely(l)'
    BY <2>1, CallStaysTimely DEF ProxyOrder, Ordered, Begins
  <2> QED BY <2>1, <2>2
<1>3. q.gen <= newest.gen + 1
  BY NumbersAre DEF ProxyOrder, Ordered, Begins
<1>4. Ordered'
  BY <1>2, <1>3 DEF ProxyOrder, Ordered, Begins
<1>5. GraceKept'
  BY DEF ProxyOrder, GraceKept, Begins
<1> QED BY <1>1, <1>4, <1>5 DEF ProxyOrder

\* What a request that advances makes of the Worker.
LEMMA AdvanceIs ==
  ASSUME ProxyTyped, ProxyOrder, NEW q \in InPlay, Proxy!Advances(worker, q), worker' = Proxy!After(worker, q)
  PROVE  /\ q.gen = worker.gen + 1 /\ worker'.gen = q.gen /\ worker'.active = q.secret
         /\ newest.gen = worker.gen /\ newest.secret = worker.active
         /\ worker'.prev \in {Proxy!NoSecret, worker.active}
         /\ worker'.prev # Proxy!NoSecret => q.secret # Proxy!NoSecret
<1>0. RequestFits(q) /\ q.gen \in Nat /\ worker.gen \in Nat /\ newest.gen \in Nat
  BY InPlayFits, NumbersAre
<1>1. q.gen = worker.gen + 1 /\ q.gen <= newest.gen + 1 /\ newest.gen <= worker.gen
  BY DEF Proxy!Advances, ProxyOrder, Ordered
<1>2. newest.gen = worker.gen
  BY <1>0, <1>1
<1>3. newest.secret = worker.active
  BY <1>2 DEF ProxyOrder, Ordered
<1>4. CASE q.op = "deprovision"
  <2>1. worker' = [Proxy!EmptyWorker EXCEPT !.gen = q.gen]
    BY <1>4 DEF Proxy!After
  <2>2. worker' = [gen |-> q.gen, active |-> Proxy!NoSecret, prev |-> Proxy!NoSecret]
    BY <2>1 DEF Proxy!EmptyWorker
  <2>3. q.secret = Proxy!NoSecret
    BY <1>0, <1>4 DEF RequestFits
  <2> QED BY <1>1, <1>2, <1>3, <2>2, <2>3
<1>5. CASE q.op # "deprovision"
  <2>1. worker' = [gen |-> q.gen, active |-> q.secret,
                   prev |-> IF worker.active = Proxy!NoSecret THEN worker.prev ELSE worker.active]
    BY <1>5 DEF Proxy!After
  <2>2. worker.active = Proxy!NoSecret => worker.prev = Proxy!NoSecret
    BY DEF ProxyOrder, GraceKept
  <2>3. q.secret # Proxy!NoSecret
    BY <1>0, <1>5, NumbersAre DEF RequestFits
  <2> QED BY <1>1, <1>2, <1>3, <2>1, <2>2, <2>3
<1> QED BY <1>4, <1>5

LEMMA HandledKeeps == ASSUME ProxyTyped, ProxyOrder, NEW q, Handled(q) PROVE ProxyOrder'
<1>0. q \in InPlay /\ RequestFits(q) /\ q.gen \in Nat /\ worker.gen \in Nat /\ newest.gen \in Nat
  BY NumbersAre DEF Handled
<1>1. CASE Proxy!Advances(worker, q)
  <2>1. /\ q.gen = worker.gen + 1 /\ worker'.gen = q.gen /\ worker'.active = q.secret
        /\ newest.gen = worker.gen /\ newest.secret = worker.active
        /\ worker'.prev \in {Proxy!NoSecret, worker.active}
        /\ worker'.prev # Proxy!NoSecret => q.secret # Proxy!NoSecret
    BY <1>0, <1>1, AdvanceIs DEF Handled
  <2>2. OneRequest'
    <3>1. \A p \in InPlay : p.secret = q.secret /\ p.secret # Proxy!NoSecret => p = q
      BY <1>0 DEF ProxyOrder, OneRequest
    <3>2. \A p \in InPlay' : p \in InPlay
      BY DEF Handled
    <3> QED BY <2>1, <3>1, <3>2 DEF ProxyOrder, OneRequest
  <2>3. \A c \in Callers : Timely(calls[c])'
    <3> TAKE c \in Callers
    <3>1. PICK k, l : k = calls[c] /\ l = calls'[c]
      OBVIOUS
    <3>2. CASE l.req = q /\ l.pc = "accepted"
      BY <1>0, <2>1, <3>1, <3>2 DEF Timely
    <3>3. CASE Calm(k, l) /\ l.pc \in {"accepted", "verified", "configure"}
      <4>1. l.req = k.req /\ k.req.gen <= worker.gen /\ RequestFits(k.req)
        BY <3>1, <3>3, CarriesIs DEF ProxyOrder, Ordered, Timely, Calm
      <4>2. l.req.gen \in Nat /\ l.req.gen <= worker.gen
        BY <4>1, NumbersAre
      <4>3. l.req.gen <= worker'.gen /\ l.req.gen # worker'.gen
        BY <1>0, <2>1, <4>2
      <4> QED BY <3>1, <3>3, <4>3 DEF Timely
    <3>4. CASE Calm(k, l) /\ l.pc \notin {"accepted", "verified", "configure"}
      BY <3>1, <3>4 DEF ProxyOrder, Ordered, Timely, Calm, Handled
    <3> QED BY <3>1, <3>2, <3>3, <3>4 DEF Handled
  <2>4. Ordered'
    <3>1. newest.gen <= worker'.gen /\ worker'.gen <= newest.gen + 1 /\ newest.gen # worker'.gen
      BY <1>0, <2>1
    <3>2. newest' = newest /\ row' = row /\ \A p \in InPlay' : p \in InPlay
      BY DEF Handled
    <3> QED BY <2>3, <3>1, <3>2 DEF ProxyOrder, Ordered
  <2>5. GraceKept'
    BY <2>1 DEF GraceKept, Handled
  <2> QED BY <2>2, <2>4, <2>5 DEF ProxyOrder
<1>2. CASE ~Proxy!Advances(worker, q)
  <2>1. worker' = worker
    BY <1>2 DEF Handled, Proxy!After
  <2>2. OneRequest' /\ GraceKept'
    BY <2>1 DEF ProxyOrder, OneRequest, GraceKept, Handled
  <2>3. \A c \in Callers : Timely(calls[c])'
    <3> TAKE c \in Callers
    <3>1. PICK k, l : k = calls[c] /\ l = calls'[c]
      OBVIOUS
    <3>2. CASE l.req = q /\ l.pc = "accepted" /\ Proxy!Accepts(worker, q)
      <4>1. q.gen = worker.gen /\ q.secret = worker.active
        BY <1>2, <3>2 DEF Proxy!Accepts, Proxy!Repeats
      <4> QED BY <1>0, <2>1, <3>1, <3>2, <4>1 DEF Timely
    <3>3. CASE Calm(k, l)
      <4>1. Timely(l)'
        BY <2>1, <3>1, <3>3, CallStaysTimely DEF ProxyOrder, Ordered, Handled
      <4> QED BY <3>1, <4>1
    <3> QED BY <3>1, <3>2, <3>3 DEF Handled
  <2>4. Ordered'
    BY <2>1, <2>3 DEF ProxyOrder, Ordered, Handled
  <2> QED BY <2>2, <2>4 DEF ProxyOrder
<1> QED BY <1>1, <1>2

LEMMA ConfiguredKeeps == ASSUME ProxyTyped, ProxyOrder, NEW c \in Callers, Configured(c) PROVE ProxyOrder'
<1>0. PICK q : q = calls[c].req
  OBVIOUS
<1>1. /\ q.gen \in Nat /\ worker.gen \in Nat /\ newest.gen \in Nat /\ row.generation \in Nat
      /\ \A p \in InPlay : p.gen \in Nat
  BY <1>0, NumbersAre, InPlayFits DEF Configured
<1>2. q.gen <= worker.gen /\ (q.gen = worker.gen => worker.active = q.secret)
  BY <1>0 DEF ProxyOrder, Ordered, Timely, Configured
<1>3. newest' = IF q.gen > newest.gen THEN [gen |-> q.gen, secret |-> q.secret] ELSE newest
  BY <1>0 DEF Configured, Proxy!Configures
<1>4. /\ newest.gen <= newest'.gen /\ newest'.gen <= worker.gen /\ worker.gen <= newest'.gen + 1 /\ q.gen <= newest'.gen
      /\ newest'.gen \in Nat
      /\ newest'.gen = worker.gen => newest'.secret = worker.active
      /\ newest' = newest \/ newest'.secret = worker.active
  <2>1. newest.gen <= worker.gen /\ worker.gen <= newest.gen + 1 /\ (newest.gen = worker.gen => newest.secret = worker.active)
    BY DEF ProxyOrder, Ordered
  <2>2. CASE q.gen > newest.gen
    <3>1. q.gen = worker.gen
      BY <1>1, <1>2, <2>1, <2>2
    <3>2. newest'.gen = q.gen /\ newest'.secret = worker.active
      BY <1>2, <1>3, <2>2, <3>1
    <3> QED BY <1>1, <2>1, <2>2, <3>1, <3>2
  <2>3. CASE ~(q.gen > newest.gen)
    BY <1>1, <1>3, <2>1, <2>3
  <2> QED BY <2>2, <2>3
<1>5. OneRequest'
  BY DEF ProxyOrder, OneRequest, Configured
<1>6. GraceKept'
  BY <1>4 DEF ProxyOrder, GraceKept, Configured
<1>7. \A b \in Callers : Timely(calls[b])'
  <2> TAKE b \in Callers
  <2>1. CASE b = c
    BY <1>0, <1>4, <2>1 DEF Timely, Configured
  <2>2. CASE b # c
    <3>1. PICK k : k = calls[b]
      OBVIOUS
    <3>2. calls'[b] = k /\ worker' = worker
      BY <2>2, <3>1 DEF Configured
    <3>3. k.pc \in {"promote", "finish"} => k.req.gen <= newest'.gen
      <4>1. k.pc \in {"promote", "finish"} => k.req.gen \in Nat /\ k.req.gen <= newest.gen
        BY <3>1, CarriesIs, NumbersAre DEF ProxyOrder, Ordered, Timely
      <4> QED BY <1>1, <1>4, <4>1
    <3> QED BY <3>1, <3>2, <3>3 DEF ProxyOrder, Ordered, Timely
  <2> QED BY <2>1, <2>2
<1>8. Ordered'
  <2>1. \A p \in InPlay' : p.gen <= newest'.gen + 1
    BY <1>1, <1>4 DEF ProxyOrder, Ordered, Configured
  <2>2. row'.generation <= newest'.gen
    BY <1>1, <1>4 DEF ProxyOrder, Ordered, Configured
  <2>3. worker' = worker
    BY DEF Configured
  <2> QED BY <1>4, <1>7, <2>1, <2>2, <2>3 DEF Ordered
<1> QED BY <1>5, <1>6, <1>8 DEF ProxyOrder

LEMMA SettledKeeps == ASSUME ProxyTyped, ProxyOrder, NEW c \in Callers, Settled(c) PROVE ProxyOrder'
<1>1. OneRequest' /\ GraceKept'
  BY DEF ProxyOrder, OneRequest, GraceKept, Settled
<1>2. row'.generation <= newest.gen
  BY DEF ProxyOrder, Ordered, Timely, Settled
<1>3. \A b \in Callers : Timely(calls[b])'
  BY IdleIs DEF ProxyOrder, Ordered, Timely, Settled
<1>4. Ordered'
  BY <1>2, <1>3 DEF ProxyOrder, Ordered, Settled
<1> QED BY <1>1, <1>4 DEF ProxyOrder

LEMMA OrderKeeps == ASSUME ProxyTyped, ProxyOrder, Proxy!Next PROVE ProxyOrder'
  BY ProxyMoves, QuietKeeps, BeginsKeeps, HandledKeeps, ConfiguredKeeps, SettledKeeps DEF Moves

-----------------------------------------------------------------------------
(* One call at a time. *)

\* Nothing either side stores moves, and no new request is under way.
LEMMA StandingStays ==
  ASSUME Standing, UNCHANGED <<row, secret, newest>>, worker'.gen = worker.gen, worker'.active = worker.active,
         \A q \in late' : q \in late
  PROVE  Standing'
  BY DEF Standing

LEMMA UnderwayStays ==
  ASSUME NEW k, Underway(k), UNCHANGED <<row, secret>>, worker'.gen = worker.gen, worker'.active = worker.active
  PROVE  Underway(k)'
  BY DEF Underway

LEMMA IdleUnderway == Underway(Proxy!Idle) /\ Underway(Proxy!Idle)'
  BY IdleIs DEF Underway

\* The others are not at work.
LEMMA OneUnderway ==
  ASSUME ProxyTyped, Proxy!Alone, NEW c \in load.callers, \A b \in Callers \ {c} : calls'[b] = calls[b],
         NEW k, calls'[c] = k, Underway(k)'
  PROVE  \A b \in Callers : Underway(calls[b])'
<1> TAKE b \in Callers
<1>1. CASE b = c
  BY <1>1
<1>2. CASE b # c
  <2>1. b \notin load.callers
    BY <1>2 DEF Proxy!Alone
  <2>2. calls'[b] = Proxy!Idle
    BY <1>2, <2>1, CarriesIs
  <2> QED BY <2>2, IdleUnderway
<1> QED BY <1>1, <1>2

\* The call goes a step that neither side stores anything of.
LEMMA CallGoes ==
  ASSUME ProxyTyped, Proxy!Alone, StepByStep, NEW c \in load.callers, UNCHANGED <<row, secret, newest, worker>>,
         \A q \in late' : q \in late, \A b \in Callers \ {c} : calls'[b] = calls[b],
         NEW k, calls'[c] = k, Underway(k)
  PROVE  StepByStep'
<1>1. Standing'
  BY StandingStays DEF StepByStep
<1>2. Underway(k)'
  BY UnderwayStays
<1> QED BY <1>1, <1>2, OneUnderway DEF StepByStep

LEMMA BeginsAlone ==
  ASSUME ProxyTyped, Proxy!Alone, StepByStep, NEW c \in load.callers,
         \/ \E d \in Changes : Proxy!BeginSecret(c, d)
         \/ Proxy!BeginReconcile(c) \/ Proxy!BeginDeprovision(c)
  PROVE  StepByStep'
<1>0. c \in Callers /\ DOMAIN calls = Callers /\ calls[c] \in Proxy!Calls
  BY CalledIs
<1>1. ASSUME NEW d \in Changes, Proxy!BeginSecret(c, d) PROVE StepByStep'
  <2>1. PICK k : k = [pc |-> "save", req |-> [op |-> d, gen |-> row.generation + 1, secret |-> fresh + 1], on |-> FALSE]
    OBVIOUS
  <2>2. (\A b \in Callers \ {c} : calls'[b] = calls[b]) /\ calls'[c] = k
    BY <1>0, <1>1, <2>1, AsksIs DEF Proxy!BeginSecret
  <2>3. UNCHANGED <<row, secret, newest, worker, late>> /\ row.pending = Proxy!NoPending
    BY <1>1 DEF Proxy!BeginSecret, Proxy!local, Proxy!Binds, Changes
  <2>4. Underway(k)
    BY <2>1, <2>3 DEF Underway
  <2> QED BY <2>2, <2>3, <2>4, CallGoes
<1>2. CASE Proxy!BeginReconcile(c)
  <2>1. PICK k : k = [pc |-> "read", req |-> calls[c].req, on |-> calls[c].on]
    OBVIOUS
  <2>2. (\A b \in Callers \ {c} : calls'[b] = calls[b]) /\ calls'[c] = k
    BY <1>0, <1>2, <2>1, GoesIs DEF Proxy!BeginReconcile
  <2>3. UNCHANGED <<row, secret, newest, worker, late>> /\ row.pending # Proxy!NoPending
    BY <1>2 DEF Proxy!BeginReconcile, Proxy!local, Proxy!Binds
  <2>4. calls[c].req = Proxy!NoPending
    BY <1>0, <1>2, CarriesIs, IdleIs DEF Proxy!BeginReconcile, Proxy!At
  <2>5. Underway(k)
    BY <2>1, <2>3, <2>4 DEF Underway
  <2> QED BY <2>2, <2>3, <2>5, CallGoes
<1>3. CASE Proxy!BeginDeprovision(c)
  <2>1. PICK k : k = [pc |-> "sent", on |-> FALSE,
                      req |-> [op |-> "deprovision", gen |-> row.generation + 1, secret |-> Proxy!NoSecret]]
    OBVIOUS
  <2>2. (\A b \in Callers \ {c} : calls'[b] = calls[b]) /\ calls'[c] = k
    BY <1>0, <1>3, <2>1, AsksIs DEF Proxy!BeginDeprovision
  <2>3. UNCHANGED <<row, secret, newest, worker, late>> /\ row.pending = Proxy!NoPending
    BY <1>3 DEF Proxy!BeginDeprovision, Proxy!local, Proxy!Binds
  <2>4. Underway(k)
    BY <2>1, <2>3 DEF Underway
  <2> QED BY <2>2, <2>3, <2>4, CallGoes
<1> QED BY <1>1, <1>2, <1>3

LEMMA SavesAlone ==
  ASSUME ProxyTyped, Proxy!Alone, StepByStep, NEW c \in load.callers, Proxy!SavePending(c)
  PROVE  StepByStep'
<1>0. c \in Callers /\ DOMAIN calls = Callers /\ calls[c] \in Proxy!Calls
  BY CalledIs
<1>1. PICK q : q = calls[c].req
  OBVIOUS
<1>2. calls[c].pc = "save" /\ RequestFits(q) /\ q # Proxy!NoPending /\ q.gen = row.generation + 1 /\ row.pending = Proxy!NoPending
  BY <1>0, <1>1, CarriesIs, RequestTyped DEF ProxyTyped, Proxy!SavePending, Proxy!At, StepByStep, Underway
<1>3. row' = [row EXCEPT !.pending = q] /\ UNCHANGED <<secret, newest, worker, late>>
  BY <1>1 DEF Proxy!SavePending
<1>4. row' = [generation |-> row.generation, provisioned |-> row.provisioned, pending |-> q]
  BY <1>3 DEF ProxyTyped, RowFits
<1>5. Standing'
  <2>1. \A r \in late : r.gen = row.generation + 1 /\ r.op \in Changes => FALSE
    BY <1>2, IdleIs DEF StepByStep, Standing, Changes
  <2>2. worker.gen # row.generation => worker.active = Proxy!NoSecret
    BY <1>2, IdleIs DEF StepByStep, Standing
  <2>3. /\ row'.generation = row.generation /\ row'.pending = q
        /\ worker.gen = row.generation => worker.active = (IF row'.provisioned THEN secret ELSE Proxy!NoSecret)
    BY <1>4 DEF StepByStep, Standing
  <2> QED BY <1>2, <1>3, <2>1, <2>2, <2>3 DEF StepByStep, Standing
<1>6. PICK k : k = [pc |-> "read", req |-> q, on |-> calls[c].on]
  OBVIOUS
<1>7. (\A b \in Callers \ {c} : calls'[b] = calls[b]) /\ calls'[c] = k
  BY <1>0, <1>1, <1>6, GoesIs DEF Proxy!SavePending
<1>8. Underway(k)'
  BY <1>2, <1>4, <1>6 DEF Underway
<1> QED BY <1>5, <1>7, <1>8, OneUnderway DEF StepByStep

LEMMA ReadsAlone ==
  ASSUME ProxyTyped, Proxy!Alone, StepByStep, NEW c \in load.callers, Proxy!ReadPending(c)
  PROVE  StepByStep'
<1>0. c \in Callers /\ DOMAIN calls = Callers /\ calls[c] \in Proxy!Calls
  BY CalledIs
<1>1. PICK q : q = row.pending
  OBVIOUS
<1>2. q # Proxy!NoPending /\ q.gen = row.generation + 1 /\ RequestFits(q) /\ q.op \in Changes
  BY <1>0, <1>1 DEF ProxyTyped, RowFits, Proxy!ReadPending, Proxy!At, StepByStep, Standing, Underway
<1>3. PICK k : k = [pc |-> "sent", req |-> q, on |-> FALSE]
  OBVIOUS
<1>4. (\A b \in Callers \ {c} : calls'[b] = calls[b]) /\ calls'[c] = k
  <2>1. Proxy!Asks(c, "sent", q.op, q.gen, q.secret)
    BY <1>1, <1>2 DEF Proxy!ReadPending
  <2>2. q = [op |-> q.op, gen |-> q.gen, secret |-> q.secret]
    BY <1>2 DEF RequestFits
  <2> QED BY <1>0, <1>3, <2>1, <2>2, AsksIs
<1>5. Underway(k)
  BY <1>1, <1>2, <1>3 DEF Underway, Changes
<1>6. UNCHANGED <<row, secret, newest, worker, late>>
  BY DEF Proxy!ReadPending, Proxy!local
<1> QED BY <1>4, <1>5, <1>6, CallGoes

LEMMA ReturnsAlone ==
  ASSUME ProxyTyped, Proxy!Alone, StepByStep, NEW c \in load.callers,
         Proxy!Refused(c) \/ Proxy!HealthRejected(c) \/ Proxy!HealthVerified(c) \/ Proxy!PromoteReads(c)
  PROVE  StepByStep'
<1>0. c \in Callers /\ DOMAIN calls = Callers /\ calls[c] \in Proxy!Calls
  BY CalledIs
<1>1. UNCHANGED <<row, secret, newest, worker, late>>
  BY DEF Proxy!Refused, Proxy!HealthRejected, Proxy!HealthVerified, Proxy!PromoteReads, Proxy!local
<1>2. CASE Proxy!Refused(c) \/ Proxy!HealthRejected(c)
  <2>1. (\A b \in Callers \ {c} : calls'[b] = calls[b]) /\ calls'[c] = Proxy!Idle
    BY <1>0, <1>2, ReturnsIs DEF Proxy!Refused, Proxy!HealthRejected
  <2> QED BY <1>1, <2>1, IdleUnderway, CallGoes
<1>3. CASE Proxy!HealthVerified(c)
  <2>1. PICK k : k = [pc |-> "verified", req |-> calls[c].req, on |-> calls[c].on]
    OBVIOUS
  <2>2. (\A b \in Callers \ {c} : calls'[b] = calls[b]) /\ calls'[c] = k /\ calls[c].pc = "accepted"
    BY <1>0, <1>3, <2>1, GoesIs DEF Proxy!HealthVerified, Proxy!At
  <2>3. Underway(k)
    BY <1>0, <2>1, <2>2 DEF StepByStep, Underway
  <2> QED BY <1>1, <2>2, <2>3, CallGoes
<1>4. CASE Proxy!PromoteReads(c)
  <2>1. PICK k : k = [[calls[c] EXCEPT !.pc = "configure"] EXCEPT !.on = enabled]
    OBVIOUS
  <2>2. k.pc = "configure" /\ k.req = calls[c].req
    BY <1>0, <2>1 DEF Proxy!Calls
  <2>3. (\A b \in Callers \ {c} : calls'[b] = calls[b]) /\ calls'[c] = k /\ calls[c].pc = "verified"
    BY <1>0, <1>4, <2>1 DEF Proxy!PromoteReads, Proxy!At
  <2>4. Underway(k)
    BY <1>0, <2>2, <2>3 DEF StepByStep, Underway
  <2> QED BY <1>1, <2>3, <2>4, CallGoes
<1> QED BY <1>2, <1>3, <1>4

LEMMA HandlesAlone ==
  ASSUME ProxyTyped, ProxyOrder, Proxy!Alone, StepByStep, NEW c \in load.callers, Proxy!WorkerHandles(c)
  PROVE  StepByStep'
<1>0. c \in Callers /\ DOMAIN calls = Callers /\ calls[c] \in Proxy!Calls
  BY CalledIs
<1>1. PICK q : q = calls[c].req
  OBVIOUS
<1>2. /\ RequestFits(q) /\ q # Proxy!NoPending /\ q \in InPlay /\ q.gen = row.generation + 1
      /\ row.pending = IF q.op = "deprovision" THEN Proxy!NoPending ELSE q
  BY <1>0, <1>1, CarriesIs, InPlayIs, RequestTyped DEF ProxyTyped, Proxy!WorkerHandles, Proxy!At, StepByStep, Underway
<1>3. UNCHANGED <<row, secret, newest, late>> /\ worker' = Proxy!After(worker, q)
  BY <1>1 DEF Proxy!WorkerHandles, Proxy!local
<1>4. PICK k : k = [pc |-> IF Proxy!Accepts(worker, q) THEN "accepted" ELSE "refused", req |-> q, on |-> calls[c].on]
  OBVIOUS
<1>5. (\A b \in Callers \ {c} : calls'[b] = calls[b]) /\ calls'[c] = k
  BY <1>0, <1>1, <1>4, GoesIs DEF Proxy!WorkerHandles
<1>6. row.generation \in Nat /\ worker.gen \in Nat
  BY NumbersAre
<1>7. CASE Proxy!Advances(worker, q)
  <2>1. worker'.gen = row.generation + 1 /\ worker'.active = q.secret
    BY <1>2, <1>3, <1>7, AdvanceIs
  <2>2. worker'.active \in {Proxy!NoSecret, row.pending.secret}
    BY <1>2, <2>1 DEF RequestFits
  <2>3. Standing'
    BY <1>3, <1>6, <2>1, <2>2 DEF StepByStep, Standing
  <2>4. Underway(k)'
    BY <1>2, <1>3, <1>4, <2>1 DEF Underway
  <2> QED BY <1>5, <2>3, <2>4, OneUnderway DEF StepByStep
<1>8. CASE ~Proxy!Advances(worker, q)
  <2>1. worker' = worker
    BY <1>3, <1>8 DEF Proxy!After
  <2>2. Proxy!Accepts(worker, q) => worker.gen = row.generation + 1 /\ worker.active = q.secret
    BY <1>2, <1>8 DEF Proxy!Accepts, Proxy!Repeats
  <2>3. Underway(k)
    BY <1>2, <1>4, <2>2 DEF Underway
  <2> QED BY <1>3, <1>5, <2>1, <2>3, CallGoes
<1> QED BY <1>7, <1>8

\* The calls go on while a request that was given up is handled or lost.
LEMMA LateAlone ==
  ASSUME ProxyTyped, ProxyOrder, Proxy!Alone, StepByStep, NEW q \in late, Proxy!WorkerHandlesLate(q)
  PROVE  StepByStep'
<1>1. /\ RequestFits(q) /\ q \in InPlay /\ q.gen <= row.generation + 1
      /\ q.gen = row.generation + 1 /\ q.op \in Changes => q = row.pending
  BY InPlayIs, RequestTyped DEF ProxyTyped, StepByStep, Standing
<1>2. UNCHANGED <<row, secret, newest, calls>> /\ worker' = Proxy!After(worker, q) /\ \A r \in late' : r \in late
  BY DEF Proxy!WorkerHandlesLate, Proxy!local
<1>3. row.generation \in Nat /\ worker.gen \in Nat /\ q.gen \in Nat
  BY <1>1, NumbersAre
<1>4. CASE Proxy!Advances(worker, q)
  <2>1. worker'.gen = q.gen /\ worker'.active = q.secret /\ q.gen = worker.gen + 1
    BY <1>1, <1>2, <1>4, AdvanceIs
  <2>2. worker.gen = row.generation /\ q.gen = row.generation + 1
    BY <1>1, <1>3, <2>1 DEF StepByStep, Standing
  <2>3. worker'.active \in {Proxy!NoSecret, row.pending.secret}
    BY <1>1, <2>1, <2>2 DEF RequestFits
  <2>4. Standing'
    BY <1>2, <1>3, <2>1, <2>2, <2>3 DEF StepByStep, Standing
  <2>5. \A c \in Callers : Underway(calls[c])'
    BY <1>2, <1>3, <2>2 DEF StepByStep, Underway
  <2> QED BY <2>4, <2>5 DEF StepByStep
<1>5. CASE ~Proxy!Advances(worker, q)
  <2>1. worker' = worker
    BY <1>2, <1>5 DEF Proxy!After
  <2>2. Standing'
    BY <1>2, <2>1, StandingStays DEF StepByStep
  <2>3. \A c \in Callers : Underway(calls[c])'
    BY <1>2, <2>1 DEF StepByStep, Underway
  <2> QED BY <2>2, <2>3 DEF StepByStep
<1> QED BY <1>4, <1>5

LEMMA AroundAlone ==
  ASSUME ProxyTyped, Proxy!Alone, StepByStep,
         \/ \E q \in late : Proxy!RequestDropped(q)
         \/ \E on \in BOOLEAN : Proxy!SetEnabled(on)
         \/ Proxy!GraceEnds
  PROVE  StepByStep'
<1>1. UNCHANGED <<row, secret, newest, calls>> /\ \A r \in late' : r \in late
  BY DEF Proxy!RequestDropped, Proxy!SetEnabled, Proxy!GraceEnds, Proxy!local
<1>2. worker'.gen = worker.gen /\ worker'.active = worker.active
  BY DEF Proxy!RequestDropped, Proxy!SetEnabled, Proxy!GraceEnds, Proxy!local, ProxyTyped, SidesFit
<1>3. Standing'
  BY <1>1, <1>2, StandingStays DEF StepByStep
<1>4. \A c \in Callers : Underway(calls[c])'
  BY <1>1, <1>2 DEF StepByStep, Underway
<1> QED BY <1>3, <1>4 DEF StepByStep

\* The request of a call that is cut short is as the late ones are.
LEMMA CutAlone ==
  ASSUME ProxyTyped, Proxy!Alone, StepByStep, (\E c \in load.callers : Proxy!GivesUp(c)) \/ Proxy!Crash
  PROVE  StepByStep'
<1>1. UNCHANGED <<row, secret, newest, worker>>
  BY DEF Proxy!GivesUp, Proxy!Crash, Proxy!local
<1>2. \A r \in late' : r \in late \/ \E c \in Callers : calls[c].pc = "sent" /\ r = calls[c].req
  <2>1. ASSUME NEW c \in load.callers, Proxy!GivesUp(c)
        PROVE  \A r \in late' : r \in late \/ \E b \in Callers : calls[b].pc = "sent" /\ r = calls[b].req
    <3>1. late' = IF calls[c].pc = "sent" THEN late \cup {calls[c].req} ELSE late
      BY <2>1 DEF Proxy!GivesUp, Proxy!At
    <3> QED BY <3>1, CalledIs
  <2>2. CASE Proxy!Crash
    BY <2>2 DEF Proxy!Crash, Proxy!At
  <2> QED BY <2>1, <2>2
<1>3. \A c \in Callers : calls[c].pc = "sent" =>
        calls[c].req.gen = row.generation + 1 /\ (calls[c].req.op \in Changes => calls[c].req = row.pending)
  <2> TAKE c \in Callers
  <2>1. calls[c].pc = "sent" => RequestFits(calls[c].req) /\ calls[c].req # Proxy!NoPending
    BY CarriesIs, RequestTyped DEF ProxyTyped
  <2> QED BY <2>1 DEF StepByStep, Underway, Changes
<1>4. row.generation \in Nat
  BY NumbersAre
<1>5. Standing'
  <2>1. \A q \in late' : q.gen <= row.generation + 1 /\ (q.gen = row.generation + 1 /\ q.op \in Changes => q = row.pending)
    BY <1>2, <1>3, <1>4 DEF StepByStep, Standing
  <2> QED BY <1>1, <2>1 DEF StepByStep, Standing
<1>6. \A b \in Callers : calls'[b] = calls[b] \/ calls'[b] = Proxy!Idle
  <2>1. ASSUME NEW c \in load.callers, Proxy!GivesUp(c) PROVE \A b \in Callers : calls'[b] = calls[b] \/ calls'[b] = Proxy!Idle
    BY <2>1, CalledIs, ReturnsIs DEF Proxy!GivesUp
  <2>2. CASE Proxy!Crash
    BY <2>2 DEF Proxy!Crash
  <2> QED BY <2>1, <2>2
<1>7. \A b \in Callers : Underway(calls[b])'
  BY <1>1, <1>6, IdleUnderway DEF StepByStep, Underway
<1> QED BY <1>5, <1>7 DEF StepByStep

LEMMA ConfiguresAlone ==
  ASSUME ProxyTyped, ProxyOrder, Proxy!Alone, StepByStep, NEW c \in load.callers,
         Proxy!PromoteConfigures(c) \/ Proxy!DeprovisionConfigures(c)
  PROVE  StepByStep'
<1>0. c \in Callers /\ DOMAIN calls = Callers /\ calls[c] \in Proxy!Calls
  BY CalledIs
<1>1. PICK q : q = calls[c].req
  OBVIOUS
<1>2. calls[c].pc \in {"accepted", "configure"} /\ RequestFits(q) /\ q # Proxy!NoPending
  BY <1>0, <1>1, CarriesIs, RequestTyped DEF ProxyTyped, Proxy!PromoteConfigures, Proxy!DeprovisionConfigures, Proxy!At
<1>3. /\ q.gen = row.generation + 1 /\ worker.gen = row.generation + 1 /\ worker.active = q.secret
      /\ row.pending = IF q.op = "deprovision" THEN Proxy!NoPending ELSE q
  BY <1>0, <1>1, <1>2 DEF StepByStep, Underway
<1>4. secret' = q.secret /\ newest' = IF q.gen > newest.gen THEN [gen |-> q.gen, secret |-> q.secret] ELSE newest
  BY <1>1, <1>2 DEF Proxy!PromoteConfigures, Proxy!DeprovisionConfigures, Proxy!Configures, RequestFits
<1>5. UNCHANGED <<row, worker, late>>
  BY DEF Proxy!PromoteConfigures, Proxy!DeprovisionConfigures
<1>6. row.generation \in Nat /\ newest.gen \in Nat
  BY NumbersAre
<1>7. secret' = newest'.secret
  <2>1. CASE q.gen > newest.gen
    BY <1>4, <2>1
  <2>2. CASE ~(q.gen > newest.gen)
    <3>1. newest.gen = worker.gen
      BY <1>3, <1>6, <2>2 DEF ProxyOrder, Ordered
    <3> QED BY <1>3, <1>4, <2>2, <3>1 DEF ProxyOrder, Ordered
  <2> QED BY <2>1, <2>2
<1>8. Standing'
  BY <1>3, <1>5, <1>6, <1>7 DEF StepByStep, Standing
<1>9. PICK to \in {"promote", "finish"} : Proxy!Goes(c, to)
  BY DEF Proxy!PromoteConfigures, Proxy!DeprovisionConfigures
<1>10. PICK k : k = [pc |-> to, req |-> q, on |-> calls[c].on]
  OBVIOUS
<1>11. (\A b \in Callers \ {c} : calls'[b] = calls[b]) /\ calls'[c] = k
  BY <1>0, <1>1, <1>9, <1>10, GoesIs
<1>12. Underway(k)'
  BY <1>3, <1>4, <1>5, <1>10 DEF Underway
<1> QED BY <1>8, <1>11, <1>12, OneUnderway DEF StepByStep

LEMMA SettlesAlone ==
  ASSUME ProxyTyped, ProxyOrder, Proxy!Alone, StepByStep, NEW c \in load.callers,
         Proxy!Promote(c) \/ Proxy!DeprovisionFinishes(c)
  PROVE  StepByStep'
<1>0. c \in Callers /\ DOMAIN calls = Callers /\ calls[c] \in Proxy!Calls
  BY CalledIs
<1>1. PICK q : q = calls[c].req
  OBVIOUS
<1>2. calls[c].pc \in {"promote", "finish"} /\ RequestFits(q) /\ q # Proxy!NoPending
  BY <1>0, <1>1, CarriesIs, RequestTyped DEF ProxyTyped, Proxy!Promote, Proxy!DeprovisionFinishes, Proxy!At
<1>3. q.gen = row.generation + 1 /\ worker.gen = row.generation + 1 /\ worker.active = q.secret /\ secret = q.secret
  BY <1>0, <1>1, <1>2 DEF StepByStep, Underway
<1>4. /\ row'.generation = q.gen /\ row'.pending = Proxy!NoPending
      /\ ~row'.provisioned => q.op = "deprovision"
  BY <1>0, <1>1, CarriesIs DEF Proxy!Promote, Proxy!DeprovisionFinishes, Proxy!At
<1>5. UNCHANGED <<secret, newest, worker, late>>
  BY DEF Proxy!Promote, Proxy!DeprovisionFinishes
<1>6. row.generation \in Nat /\ \A r \in late : r.gen \in Nat
  BY NumbersAre DEF ProxyTyped
<1>7. worker.active = (IF row'.provisioned THEN secret ELSE Proxy!NoSecret)
  BY <1>2, <1>3, <1>4 DEF RequestFits
<1>8. \A r \in late : r.gen <= row'.generation + 1 /\ r.gen # row'.generation + 1
  BY <1>3, <1>4, <1>6 DEF StepByStep, Standing
<1>9. Standing'
  BY <1>3, <1>4, <1>5, <1>7, <1>8 DEF StepByStep, Standing
<1>10. (\A b \in Callers \ {c} : calls'[b] = calls[b]) /\ calls'[c] = Proxy!Idle
  BY <1>0, ReturnsIs DEF Proxy!Promote, Proxy!DeprovisionFinishes
<1> QED BY <1>9, <1>10, IdleUnderway, OneUnderway DEF StepByStep

LEMMA AloneKeeps ==
  ASSUME ProxyTyped, ProxyOrder, Proxy!Alone, StepByStep, Proxy!Next
  PROVE  StepByStep'
<1>1. ASSUME NEW c \in load.callers, Proxy!Step(c) PROVE StepByStep'
  BY <1>1, SavesAlone, ReadsAlone, ReturnsAlone, HandlesAlone, ConfiguresAlone, SettlesAlone DEF Proxy!Step
<1> QED BY <1>1, BeginsAlone, LateAlone, AroundAlone, CutAlone DEF Proxy!Next, Changes

LEMMA LoadStays == Proxy!Next => load' = load
  BY DEF Proxy!Next, Proxy!Step, Proxy!BeginSecret, Proxy!BeginReconcile, Proxy!BeginDeprovision, Proxy!SavePending,
         Proxy!ReadPending, Proxy!WorkerHandles, Proxy!WorkerHandlesLate, Proxy!RequestDropped, Proxy!GivesUp,
         Proxy!Refused, Proxy!HealthVerified, Proxy!HealthRejected, Proxy!PromoteReads, Proxy!PromoteConfigures,
         Proxy!Promote, Proxy!DeprovisionConfigures, Proxy!DeprovisionFinishes, Proxy!SetEnabled, Proxy!GraceEnds,
         Proxy!Crash, Proxy!local

LEMMA TypedStarts == Proxy!Init => ProxyTyped
<1> SUFFICES ASSUME Proxy!Init PROVE ProxyTyped
  OBVIOUS
<1>1. /\ load \in Loads /\ row = [generation |-> 0, provisioned |-> FALSE, pending |-> Proxy!NoPending]
      /\ secret = 0 /\ newest = [gen |-> 0, secret |-> 0] /\ worker = [gen |-> 0, active |-> 0, prev |-> 0]
      /\ late = {} /\ fresh = 0 /\ calls = [c \in Callers |-> Proxy!Idle] /\ ppFaults = 0 /\ enabled = FALSE
  BY DEF Proxy!Init, Proxy!EmptyWorker, Proxy!NoSecret
<1>2. Top = 1
  BY <1>1 DEF Top
<1>3. CallsFit
  BY <1>1, IdleIs DEF CallsFit
<1>4. RowFits
  BY <1>1, <1>2 DEF RowFits, Proxy!Pendings
<1>5. SidesFit
  <2>1. 0 \in 0..Top /\ 0 \in 0..fresh
    BY <1>1, <1>2
  <2> QED BY <1>1, <2>1 DEF SidesFit
<1> QED BY <1>1, <1>3, <1>4, <1>5, ProxyConstants DEF ProxyTyped

LEMMA ShapeKeeps == Shaped /\ Proxy!Next => Shaped'
<1>1. ASSUME Shaped, NEW c, NEW k, calls' = [calls EXCEPT ![c] = k] PROVE Shaped'
  BY <1>1 DEF Shaped
<1>2. ASSUME Shaped, NEW c, Proxy!Step(c) PROVE Shaped'
  BY <1>1, <1>2 DEF Proxy!Step, Proxy!SavePending, Proxy!ReadPending, Proxy!WorkerHandles,
       Proxy!Refused, Proxy!HealthVerified, Proxy!HealthRejected, Proxy!PromoteReads, Proxy!PromoteConfigures,
       Proxy!Promote, Proxy!DeprovisionConfigures, Proxy!DeprovisionFinishes, Proxy!Goes, Proxy!Asks, Proxy!Returns
<1>3. ASSUME Shaped, NEW c,
             (\E d \in {"provision", "rotate"} : Proxy!BeginSecret(c, d)) \/ Proxy!BeginReconcile(c)
               \/ Proxy!BeginDeprovision(c) \/ Proxy!GivesUp(c)
      PROVE  Shaped'
  BY <1>1, <1>3 DEF Proxy!BeginSecret, Proxy!BeginReconcile, Proxy!BeginDeprovision, Proxy!GivesUp,
       Proxy!Goes, Proxy!Asks, Proxy!Returns
<1>4. ASSUME Shaped, Proxy!Crash PROVE Shaped'
  BY <1>4 DEF Proxy!Crash, Shaped
<1>5. ASSUME Shaped,
             \/ \E q \in late : Proxy!WorkerHandlesLate(q) \/ Proxy!RequestDropped(q)
             \/ (\E on \in BOOLEAN : Proxy!SetEnabled(on)) \/ Proxy!GraceEnds
      PROVE  Shaped'
  BY <1>5 DEF Proxy!WorkerHandlesLate, Proxy!RequestDropped, Proxy!SetEnabled, Proxy!GraceEnds, Proxy!local, Shaped
<1> QED BY <1>2, <1>3, <1>4, <1>5 DEF Proxy!Next

LEMMA ProxyStarts == Proxy!Init => ProxyInv
<1> SUFFICES ASSUME Proxy!Init PROVE ProxyInv
  OBVIOUS
<1>1. /\ row = [generation |-> 0, provisioned |-> FALSE, pending |-> Proxy!NoPending]
      /\ secret = 0 /\ newest = [gen |-> 0, secret |-> 0] /\ worker = [gen |-> 0, active |-> 0, prev |-> 0]
      /\ late = {} /\ fresh = 0 /\ \A c \in Callers : calls[c] = Proxy!Idle
  BY DEF Proxy!Init, Proxy!EmptyWorker, Proxy!NoSecret
<1>2. InPlay = {}
  BY <1>1, IdleIs DEF InPlay
<1>3. OneRequest /\ Ordered /\ GraceKept
  <2>1. \A c \in Callers : Timely(calls[c])
    BY <1>1, IdleIs DEF Timely
  <2> QED BY <1>1, <1>2, <2>1, IdleIs DEF OneRequest, Ordered, GraceKept
<1>4. StepByStep
  <2>1. \A c \in Callers : Underway(calls[c])
    BY <1>1, IdleUnderway
  <2> QED BY <1>1, <2>1, IdleIs DEF StepByStep, Standing
<1>5. Shaped
  BY DEF Proxy!Init, Shaped
<1> QED BY <1>3, <1>4, <1>5, TypedStarts DEF ProxyInv

LEMMA ProxyTurns == ProxyInv /\ [Next]_allVars => ProxyInv'
<1> SUFFICES ASSUME ProxyInv, [Next]_allVars PROVE ProxyInv'
  OBVIOUS
<1>1. CASE Proxy!Next
  <2>1. ProxyTyped' /\ ProxyOrder' /\ load' = load
    BY <1>1, TypedKeeps, OrderKeeps, LoadStays DEF ProxyInv, ProxyOrder
  <2>2. Proxy!Alone' => StepByStep'
    BY <1>1, <2>1, AloneKeeps DEF ProxyInv, ProxyOrder, Proxy!Alone
  <2>3. Shaped'
    BY <1>1, ShapeKeeps DEF ProxyInv
  <2> QED BY <2>1, <2>2, <2>3 DEF ProxyInv, ProxyOrder
<1>2. CASE UNCHANGED provisioningVars
  BY <1>2 DEF provisioningVars, ProxyInv, Shaped, ProxyTyped, CallsFit, ExecuteFits, RowFits, SidesFit, RequestFits, Top,
              OneRequest, Ordered, Timely, GraceKept, InPlay, Proxy!Alone, StepByStep, Standing, Underway
<1> QED BY <1>1, <1>2 DEF Next, allVars

\* The invariant says what the run checks.
LEMMA ProxyShows == ProxyInv => ProxySafety
<1> SUFFICES ASSUME ProxyInv PROVE Proxy!TypeOK /\ Proxy!InStep /\ Proxy!SecretHeld /\ Proxy!DuringGrace
  BY DEF ProxySafety
<1>0. ProxyTyped /\ ProxyOrder /\ (Proxy!Alone => StepByStep)
  BY DEF ProxyInv, ProxyOrder
<1>1. Proxy!TypeOK
  <2>1. fresh \in 0..MaxSecret /\ 0..fresh \subseteq Proxy!Secrets /\ 0..Top \subseteq Proxy!Gens
    BY <1>0, ProxyConstants DEF ProxyTyped, Top, Proxy!Secrets, Proxy!Gens
  <2>2. row \in [generation : Proxy!Gens, provisioned : BOOLEAN, pending : Proxy!Pendings]
    BY <1>0, <2>1 DEF ProxyTyped, RowFits
  <2>3. secret \in Proxy!Secrets /\ enabled \in BOOLEAN /\ newest \in [gen : Proxy!Gens, secret : Proxy!Secrets]
        /\ worker \in [gen : Proxy!Gens, active : Proxy!Secrets, prev : Proxy!Secrets]
    BY <1>0, <2>1 DEF ProxyTyped, SidesFit
  <2>4. late \subseteq Proxy!Requests(Proxy!Gens, Proxy!Secrets)
    BY <1>0, <2>1, RequestTyped DEF ProxyTyped
  <2>5. calls \in [Callers -> Proxy!Calls]
    BY <1>0 DEF ProxyInv, Shaped, ProxyTyped, CallsFit, ExecuteFits
  <2> QED BY <1>0, <2>1, <2>2, <2>3, <2>4, <2>5 DEF Proxy!TypeOK, ProxyTyped, Proxy!WorkerStates, Proxy!Secrets
<1>2. Proxy!InStep
  BY <1>0, NumbersAre DEF StepByStep, Standing, Proxy!InStep
<1>3. Proxy!SecretHeld
  <2> SUFFICES ASSUME Proxy!Alone, worker.active # Proxy!NoSecret PROVE worker.active \in {secret, row.pending.secret}
    BY DEF Proxy!SecretHeld
  <2> QED BY <1>0 DEF StepByStep, Standing
<1>4. Proxy!DuringGrace
  <2>1. worker.prev # Proxy!NoSecret => newest.secret \in Proxy!Valid(worker)
    BY <1>0 DEF ProxyOrder, GraceKept, Proxy!Valid
  <2> QED BY <1>0, <2>1 DEF StepByStep, Standing, Proxy!DuringGrace
<1> QED BY <1>1, <1>2, <1>3, <1>4

(* The Worker and Postmaster, whatever is lost, late or cut short: with    *)
(* one call at a time they are never more than one generation apart, the   *)
(* secret in use is held, and during a grace the newest configured secret  *)
(* is accepted, however many calls overlap.                                *)
THEOREM ProxyHolds == Spec => []ProxySafety
<1>1. Init => ProxyInv
  BY ProxyStarts DEF Init
<1> QED BY <1>1, ProxyTurns, ProxyShows, PTL DEF Spec

-----------------------------------------------------------------------------
(***************************************************************************)
(* A secret that was given up.                                             *)
(***************************************************************************)

\* No request that carries it can be the next one.
GivenUp(s) ==
  /\ worker.active # s /\ s <= fresh
  /\ \A q \in InPlay : q.secret = s => q.gen <= worker.gen

\* The Worker does not move.
Stands ==
  /\ worker'.gen = worker.gen /\ worker'.active = worker.active /\ fresh <= fresh'
  /\ \A q \in InPlay' : q \in InPlay \/ q.secret = Proxy!NoSecret \/ q.secret = fresh + 1

LEMMA StandsOrAdvances ==
  ASSUME ProxyInv, [Next]_allVars
  PROVE  Stands \/ \E q \in InPlay : Handled(q) /\ Proxy!Advances(worker, q)
<1>1. CASE Proxy!Next
  <2>1. fresh \in Nat
    BY NumbersAre DEF ProxyInv
  <2>2. Quiet => Stands
    BY <2>1 DEF Quiet, Stands
  <2>3. \A q : Begins(q) => Stands
    BY <2>1 DEF Begins, Stands
  <2>4. \A c \in Callers : Configured(c) \/ Settled(c) => Stands
    BY <2>1 DEF Configured, Settled, Stands
  <2>5. ASSUME NEW q, Handled(q) PROVE Stands \/ (q \in InPlay /\ Proxy!Advances(worker, q))
    BY <2>1, <2>5 DEF Handled, Stands, Proxy!After
  <2> QED BY <1>1, <2>2, <2>3, <2>4, <2>5, ProxyMoves DEF Moves, ProxyInv
<1>2. CASE UNCHANGED provisioningVars
  <2>1. fresh \in Nat
    BY NumbersAre DEF ProxyInv
  <2> QED BY <1>2, <2>1 DEF provisioningVars, Stands, InPlay
<1> QED BY <1>1, <1>2 DEF Next, allVars

LEMMA ActiveGoes ==
  ASSUME ProxyInv, [Next]_allVars, NEW s \in 1..MaxSecret, worker.active = s
  PROVE  worker'.active = s \/ GivenUp(s)'
<1>0. fresh \in Nat /\ worker.gen \in Nat /\ s \in Nat /\ s # Proxy!NoSecret /\ s <= fresh
  BY NumbersAre, ProxyConstants DEF ProxyInv
<1>1. ASSUME NEW q \in InPlay, Handled(q), Proxy!Advances(worker, q) PROVE worker'.active = s \/ GivenUp(s)'
  <2>1. worker'.gen = worker.gen + 1 /\ fresh' = fresh /\ \A p \in InPlay' : p \in InPlay
    BY <1>1, AdvanceIs DEF Handled, ProxyInv, ProxyOrder
  <2>2. \A p \in InPlay : p.secret = s => p.gen = worker.gen
    BY <1>0 DEF ProxyInv, OneRequest
  <2>3. \A p \in InPlay' : p.secret = s => p.gen <= worker'.gen
    BY <1>0, <2>1, <2>2
  <2> QED BY <1>0, <2>1, <2>3 DEF GivenUp
<1> QED BY <1>1, StandsOrAdvances DEF Stands

LEMMA GivenUpStays ==
  ASSUME ProxyInv, [Next]_allVars, NEW s \in 1..MaxSecret, GivenUp(s)
  PROVE  GivenUp(s)'
<1>0. fresh \in Nat /\ worker.gen \in Nat /\ s \in Nat /\ s # Proxy!NoSecret /\ \A q \in InPlay : q.gen \in Nat
  BY NumbersAre, InPlayFits, ProxyConstants DEF ProxyInv
<1>1. ASSUME NEW q \in InPlay, Handled(q), Proxy!Advances(worker, q) PROVE GivenUp(s)'
  <2>1. /\ q.gen = worker.gen + 1 /\ worker'.gen = worker.gen + 1 /\ worker'.active = q.secret /\ fresh' = fresh
        /\ \A p \in InPlay' : p \in InPlay
    BY <1>1, AdvanceIs DEF Handled, ProxyInv, ProxyOrder
  <2>2. q.secret # s
    BY <1>0, <2>1 DEF GivenUp
  <2>3. \A p \in InPlay' : p.secret = s => p.gen <= worker'.gen
    BY <1>0, <2>1 DEF GivenUp
  <2> QED BY <2>1, <2>2, <2>3 DEF GivenUp
<1>2. CASE Stands
  <2>1. fresh' \in Nat \/ fresh' >= fresh
    BY <1>2 DEF Stands
  <2>2. s <= fresh'
    <3>1. fresh' \in Nat
      BY ProxyTurns, ProxyConstants DEF ProxyInv, ProxyTyped
    <3> QED BY <1>0, <1>2, <3>1 DEF Stands, GivenUp
  <2>3. \A q \in InPlay' : q.secret = s => q \in InPlay
    BY <1>0, <1>2 DEF Stands, GivenUp
  <2> QED BY <1>2, <2>2, <2>3 DEF Stands, GivenUp
<1> QED BY <1>1, <1>2, StandsOrAdvances

(* A secret the Worker gave up never becomes its active one again: every   *)
(* request that carries it, stored, under way or late, is of a generation  *)
(* the Worker has left behind.                                             *)
THEOREM NothingReinstated == Spec => NeverReinstated
<1>1. ASSUME NEW s \in 1..MaxSecret
      PROVE  Spec => []((worker.active = s) => [](worker.active # s => [](worker.active # s)))
  <2>1. Init => ProxyInv
    BY ProxyStarts DEF Init
  <2>2. ProxyInv /\ worker.active = s /\ [Next]_allVars => (worker.active = s)' \/ GivenUp(s)'
    BY ActiveGoes
  <2>3. ProxyInv /\ GivenUp(s) /\ [Next]_allVars => GivenUp(s)'
    BY GivenUpStays
  <2>4. GivenUp(s) => worker.active # s
    BY DEF GivenUp
  <2>5. (worker.active # s) <=> ~(worker.active = s)
    OBVIOUS
  <2> QED BY <2>1, <2>2, <2>3, <2>4, <2>5, ProxyTurns, PTL DEF Spec
<1> QED BY <1>1 DEF NeverReinstated, Proxy!NeverReinstated

=============================================================================
