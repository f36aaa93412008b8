----------------------------- MODULE MailProofs -----------------------------
(***************************************************************************)
(* What the parts of MCMail keep, for every value of their constants.      *)
(***************************************************************************)
EXTENDS MCMail, FiniteSets, FiniteSetTheorems, TLAPS, WellFoundedInduction

-----------------------------------------------------------------------------
(* Moves.  A message is lost when the only copies left of it are marked,   *)
(* or about to be: a caller between its COPY and its STORE marks the copy  *)
(* it read, and an EXPUNGE of anybody takes what is marked.  So a copy     *)
(* remains that is neither marked nor the source of such a caller: a new   *)
(* copy has a UID above every UID a call can name.                         *)

Copies == [uid : Nat, msg : Messages, deleted : BOOLEAN, junk : BOOLEAN, seen : BOOLEAN]
Moving == [at : {"move", "copy", "store", "expunge"}, from : Boxes, uid : Nat, to : Boxes]

BoxesTyped ==
  /\ last \in [Boxes -> 0..MaxUid]
  /\ box \in [Boxes -> SUBSET Copies]
  /\ \A b \in Boxes : \A x \in box[b] : x.uid \in 1..last[b]

CallsTyped ==
  /\ mmCall \in [Callers -> Moving \cup {Moves!Idle}]
  /\ \A c \in Callers : mmCall[c] # Moves!Idle => mmCall[c].uid <= last[mmCall[c].from]

\* somebody is about to mark what is there
Doomed(b, u) ==
  \E c \in Callers : mmCall[c].at = "store" /\ mmCall[c].from = b /\ mmCall[c].uid = u

CopyRemains ==
  \A m \in Messages \ discarded :
    \E b \in Boxes : \E x \in box[b] : x.msg = m /\ ~x.deleted /\ ~Doomed(b, x.uid)

MovesInv == BoxesTyped /\ CallsTyped /\ CopyRemains

LEMMA MovesConstants == Moves!MovesAssumption
  BY MailAssumption

LEMMA MovesInit == Moves!Init => MovesInv
<1> SUFFICES ASSUME Moves!Init PROVE MovesInv
  OBVIOUS
<1> USE MovesConstants
<1>1. Moves!Cardinality(Messages) = Cardinality(Messages) /\ Moves!IsFiniteSet(Messages) = IsFiniteSet(Messages)
  BY DEF Moves!Cardinality, Cardinality, Moves!IsFiniteSet, IsFiniteSet
<1>2. Cardinality(Messages) \in Nat /\ Cardinality(Messages) <= MaxUid /\ MaxUid \in Nat
  BY <1>1, FS_CardinalityType DEF Moves!MovesAssumption
<1>3. First \in [Messages -> 1..Cardinality(Messages)] /\ Inbox \in Boxes
  BY <1>1 DEF Moves!MovesAssumption
<1>4. last = [b \in Boxes |-> IF b = Inbox THEN Cardinality(Messages) ELSE 0]
  BY <1>1 DEF Moves!Init
<1> DEFINE start(m) == [uid |-> First[m], msg |-> m, deleted |-> FALSE, junk |-> FALSE, seen |-> FALSE]
<1>5. box = [b \in Boxes |-> IF b = Inbox THEN {start(m) : m \in Messages} ELSE {}]
  BY DEF Moves!Init
<1>6. \A m \in Messages : start(m) \in Copies /\ start(m).uid \in 1..Cardinality(Messages)
  BY <1>2, <1>3 DEF Copies
<1>7. BoxesTyped
  <2>1. last \in [Boxes -> 0..MaxUid]
    BY <1>2, <1>4
  <2>2. box \in [Boxes -> SUBSET Copies]
    BY <1>5, <1>6
  <2>3. \A b \in Boxes : \A x \in box[b] : x.uid \in 1..last[b]
    BY <1>3, <1>4, <1>5, <1>6
  <2> QED
    BY <2>1, <2>2, <2>3 DEF BoxesTyped
<1>8. mmCall = [c \in Callers |-> Moves!Idle]
  BY DEF Moves!Init
<1>9. CallsTyped
  BY <1>8 DEF CallsTyped
<1>10. CopyRemains
  <2> SUFFICES ASSUME NEW m \in Messages
               PROVE \E b \in Boxes : \E x \in box[b] : x.msg = m /\ ~x.deleted /\ ~Doomed(b, x.uid)
    BY DEF CopyRemains
  <2>1. start(m) \in box[Inbox] /\ start(m).msg = m /\ ~start(m).deleted
    BY <1>3, <1>5
  <2>2. ~Doomed(Inbox, start(m).uid)
    BY <1>8 DEF Doomed, Moves!Idle
  <2> QED
    BY <1>3, <2>1, <2>2
<1> QED
  BY <1>7, <1>9, <1>10 DEF MovesInv

\* STORE replaces the copies under one UID and leaves everything else where it is.
LEMMA FlagsChange ==
  ASSUME BoxesTyped, NEW b \in Boxes, NEW u, NEW marked \in SUBSET Copies,
         Moves!Flagged(b, u, marked), \A y \in marked : y.uid = u /\ Moves!At(b, u) # {}
  PROVE  /\ BoxesTyped' /\ last' = last
         /\ marked \subseteq box'[b]
         /\ \A d \in Boxes : \A x \in box[d] : x \in box'[d] \/ (d = b /\ x \in Moves!At(b, u))
<1>1. last' = last /\ box' = [box EXCEPT ![b] = (@ \ Moves!At(b, u)) \cup marked]
  BY DEF Moves!Flagged
<1>2. box \in [Boxes -> SUBSET Copies] /\ last \in [Boxes -> 0..MaxUid]
      /\ \A d \in Boxes : \A x \in box[d] : x.uid \in 1..last[d]
  BY DEF BoxesTyped
<1>3. box' \in [Boxes -> SUBSET Copies]
  BY <1>1, <1>2
<1>4. ASSUME NEW d \in Boxes, NEW x \in box'[d] PROVE x.uid \in 1..last[d]
  <2>1. CASE x \in box[d]
    BY <1>2, <2>1
  <2>2. CASE x \notin box[d]
    <3>1. d = b /\ x \in marked
      BY <1>1, <1>2, <2>2
    <3>2. PICK y \in Moves!At(b, u) : TRUE
      BY <3>1
    <3>3. y \in box[b] /\ y.uid = u
      BY DEF Moves!At
    <3> QED
      BY <1>2, <3>1, <3>3
  <2> QED
    BY <2>1, <2>2
<1>5. BoxesTyped'
  BY <1>1, <1>2, <1>3, <1>4 DEF BoxesTyped
<1>6. marked \subseteq box'[b]
  BY <1>1, <1>2
<1>7. \A d \in Boxes : \A x \in box[d] : x \in box'[d] \/ (d = b /\ x \in Moves!At(b, u))
  BY <1>1, <1>2
<1> QED
  BY <1>1, <1>5, <1>6, <1>7

\* COPY adds copies under the next UID.
LEMMA CopyChanges ==
  ASSUME BoxesTyped, NEW b \in Boxes, NEW u, NEW d \in Boxes, Moves!Copied(b, u, d)
  PROVE  /\ BoxesTyped' /\ \A e \in Boxes : last[e] <= last'[e] /\ box[e] \subseteq box'[e]
         /\ \A x \in Moves!At(b, u) :
              \E y \in box'[d] : y.msg = x.msg /\ y.deleted = x.deleted /\ y.uid > last[d]
<1>1. /\ last \in [Boxes -> 0..MaxUid] /\ MaxUid \in Nat
      /\ box \in [Boxes -> SUBSET Copies]
      /\ \A e \in Boxes : \A x \in box[e] : x.uid \in 1..last[e]
  BY MovesConstants DEF BoxesTyped, Moves!MovesAssumption
<1>2. CASE Moves!At(b, u) = {}
  BY <1>1, <1>2 DEF Moves!Copied, BoxesTyped, Moves!imap
<1>3. CASE Moves!At(b, u) # {}
  <2> DEFINE new(x) == [x EXCEPT !.uid = last[d] + 1]
  <2>1. /\ last[d] < MaxUid /\ last' = [last EXCEPT ![d] = last[d] + 1]
        /\ box' = [box EXCEPT ![d] = box[d] \cup {new(x) : x \in Moves!At(b, u)}]
    BY <1>3 DEF Moves!Copied
  <2>2. \A x \in Moves!At(b, u) : x \in Copies
    BY <1>1 DEF Moves!At
  <2>3. \A x \in Moves!At(b, u) : new(x) \in Copies /\ new(x).uid = last[d] + 1
                                 /\ new(x).msg = x.msg /\ new(x).deleted = x.deleted
    BY <1>1, <2>2 DEF Copies
  <2>4. last' \in [Boxes -> 0..MaxUid] /\ \A e \in Boxes : last[e] <= last'[e]
    BY <1>1, <2>1
  <2>5. box' \in [Boxes -> SUBSET Copies] /\ \A e \in Boxes : box[e] \subseteq box'[e]
    BY <1>1, <2>1, <2>3
  <2>6. ASSUME NEW e \in Boxes, NEW x \in box'[e] PROVE x.uid \in 1..last'[e]
    <3>1. CASE x \in box[e]
      BY <1>1, <2>1, <2>4, <3>1
    <3>2. CASE x \notin box[e]
      <4>1. e = d /\ x \in {new(y) : y \in Moves!At(b, u)}
        BY <1>1, <2>1, <3>2
      <4>2. x.uid = last[d] + 1
        BY <4>1, <2>3
      <4> QED
        BY <1>1, <2>1, <4>1, <4>2
    <3> QED
      BY <3>1, <3>2
  <2>7. \A x \in Moves!At(b, u) : new(x) \in box'[d]
    BY <1>1, <2>1
  <2>8. BoxesTyped'
    BY <2>4, <2>5, <2>6 DEF BoxesTyped
  <2>9. last[d] + 1 > last[d]
    BY <1>1
  <2> HIDE DEF new
  <2> QED
    BY <2>3, <2>4, <2>5, <2>7, <2>8, <2>9
<1> QED
  BY <1>2, <1>3

\* MOVE does the same in one step, and takes the source away.
LEMMA MoveChanges ==
  ASSUME BoxesTyped, NEW b \in Boxes, NEW u, NEW d \in Boxes, Moves!Moved(b, u, d)
  PROVE  /\ BoxesTyped' /\ \A e \in Boxes : last[e] <= last'[e]
         /\ \A e \in Boxes : \A x \in box[e] :
              x \in box'[e] \/
              \E y \in box'[d] : y.msg = x.msg /\ y.deleted = x.deleted /\ y.uid > last[d]
<1>1. /\ last \in [Boxes -> 0..MaxUid] /\ MaxUid \in Nat
      /\ box \in [Boxes -> SUBSET Copies]
      /\ \A e \in Boxes : \A x \in box[e] : x.uid \in 1..last[e]
  BY MovesConstants DEF BoxesTyped, Moves!MovesAssumption
<1>2. CASE Moves!At(b, u) = {}
  BY <1>1, <1>2 DEF Moves!Moved, BoxesTyped, Moves!imap
<1>3. CASE Moves!At(b, u) # {}
  <2> DEFINE new(x) == [x EXCEPT !.uid = last[d] + 1]
             left(e) == box[e] \ (IF e = b THEN Moves!At(b, u) ELSE {})
             come(e) == IF e = d THEN {new(x) : x \in Moves!At(b, u)} ELSE {}
  <2>1. /\ last[d] < MaxUid /\ last' = [last EXCEPT ![d] = last[d] + 1]
        /\ box' = [e \in Boxes |-> left(e) \cup come(e)]
    BY <1>3 DEF Moves!Moved
  <2>2. \A x \in Moves!At(b, u) : x \in Copies /\ x \in box[b]
    BY <1>1 DEF Moves!At
  <2>3. \A x \in Moves!At(b, u) : new(x) \in Copies /\ new(x).uid = last[d] + 1
                                 /\ new(x).msg = x.msg /\ new(x).deleted = x.deleted
    BY <1>1, <2>2 DEF Copies
  <2>4. last' \in [Boxes -> 0..MaxUid] /\ \A e \in Boxes : last[e] <= last'[e]
    BY <1>1, <2>1
  <2>5. \A e \in Boxes : left(e) \subseteq box[e]
                         /\ \A x \in come(e) : e = d /\ x \in Copies /\ x.uid = last[d] + 1
    BY <2>3
  <2>6. \A x \in Moves!At(b, u) : new(x) \in come(d)
    OBVIOUS
  <2>7. \A e \in Boxes : \A x \in box[e] : x \in left(e) \/ (e = b /\ x \in Moves!At(b, u))
    OBVIOUS
  <2> HIDE DEF left, come
  <2>8. box' \in [Boxes -> SUBSET Copies]
    BY <1>1, <2>1, <2>5
  <2>9. ASSUME NEW e \in Boxes, NEW x \in box'[e] PROVE x.uid \in 1..last'[e]
    <3>1. x \in left(e) \/ x \in come(e)
      BY <2>1
    <3>2. CASE x \in left(e)
      BY <1>1, <2>1, <2>4, <2>5, <3>2
    <3>3. CASE x \in come(e)
      BY <1>1, <2>1, <2>5, <3>3
    <3> QED
      BY <3>1, <3>2, <3>3
  <2>10. BoxesTyped'
    BY <2>4, <2>8, <2>9 DEF BoxesTyped
  <2>11. last[d] + 1 > last[d]
    BY <1>1
  <2>12. ASSUME NEW e \in Boxes, NEW x \in box[e], x \notin box'[e]
         PROVE  \E y \in box'[d] : y.msg = x.msg /\ y.deleted = x.deleted /\ y.uid > last[d]
    <3>1. x \in Moves!At(b, u)
      BY <2>1, <2>7, <2>12
    <3>2. new(x) \in box'[d]
      BY <2>1, <2>6, <3>1
    <3> QED
      BY <2>3, <2>11, <3>1, <3>2
  <2> QED
    BY <2>4, <2>10, <2>12
<1> QED
  BY <1>2, <1>3

LEMMA CallChanges ==
  ASSUME BoxesTyped, BoxesTyped', CallsTyped, \A e \in Boxes : last[e] <= last'[e],
         NEW c \in Callers, NEW k \in Moving \cup {Moves!Idle},
         k # Moves!Idle => k.uid <= last'[k.from], Moves!Goes(c, k)
  PROVE  CallsTyped' /\ mmCall' = [mmCall EXCEPT ![c] = k]
<1>1. mmCall' = [mmCall EXCEPT ![c] = k]
  BY DEF Moves!Goes
<1>2. mmCall' \in [Callers -> Moving \cup {Moves!Idle}]
  BY <1>1 DEF CallsTyped
<1>3. ASSUME NEW e \in Callers, mmCall'[e] # Moves!Idle
      PROVE  mmCall'[e].uid <= last'[mmCall'[e].from]
  <2>1. CASE e = c
    BY <1>1, <1>3, <2>1 DEF CallsTyped
  <2>2. CASE e # c
    <3>1. mmCall'[e] = mmCall[e] /\ mmCall[e] \in Moving
      BY <1>1, <1>3, <2>2 DEF CallsTyped
    <3>2. PICK q \in Moving : q = mmCall[e]
      BY <3>1
    <3>3. q.uid <= last[q.from] /\ q.from \in Boxes /\ q.uid \in Nat
      BY <1>3, <3>1, <3>2 DEF CallsTyped, Moving
    <3>4. last[q.from] \in Nat /\ last'[q.from] \in Nat /\ last[q.from] <= last'[q.from]
      BY <3>3 DEF BoxesTyped
    <3> QED
      BY <3>1, <3>2, <3>3, <3>4
  <2> QED
    BY <2>1, <2>2
<1> QED
  BY <1>1, <1>2, <1>3 DEF CallsTyped

\* Nothing new is doomed unless a COPY has succeeded.
LEMMA DoomChanges ==
  ASSUME CallsTyped, NEW c \in Callers, NEW k, Moves!Goes(c, k), NEW b, NEW u, Doomed(b, u)'
  PROVE  Doomed(b, u) \/ (k.at = "store" /\ k.from = b /\ k.uid = u)
  BY DEF Doomed, CallsTyped, Moves!Goes

LEMMA NothingElseDoomed ==
  ASSUME BoxesTyped, CallsTyped, NEW b \in Boxes, NEW u \in Nat, u > last[b]
  PROVE  ~Doomed(b, u)
<1> SUFFICES ASSUME NEW c \in Callers, mmCall[c].at = "store", mmCall[c].from = b, mmCall[c].uid = u
             PROVE FALSE
  BY DEF Doomed
<1>1. mmCall[c] # Moves!Idle
  BY DEF Moves!Idle
<1> QED
  BY <1>1 DEF CallsTyped, BoxesTyped

\* every copy is where it was, under its UID, marked or not as it was
Stays ==
  /\ BoxesTyped' /\ last' = last
  /\ \A d \in Boxes : \A x \in box[d] :
       \E y \in box'[d] : y.msg = x.msg /\ y.deleted = x.deleted /\ y.uid = x.uid

LEMMA RemainsElsewhere ==
  ASSUME CopyRemains, discarded \subseteq discarded',
         \A b \in Boxes : \A x \in box[b] :
           x.msg \notin discarded' /\ ~x.deleted /\ ~Doomed(b, x.uid) =>
             \E d \in Boxes : \E y \in box'[d] : y.msg = x.msg /\ ~y.deleted /\ ~Doomed(d, y.uid)'
  PROVE  CopyRemains'
<1> SUFFICES ASSUME NEW m \in Messages \ discarded'
             PROVE \E d \in Boxes : \E y \in box'[d] : y.msg = m /\ ~y.deleted /\ ~Doomed(d, y.uid)'
  BY DEF CopyRemains
<1>1. PICK b \in Boxes : \E x \in box[b] : x.msg = m /\ ~x.deleted /\ ~Doomed(b, x.uid)
  BY DEF CopyRemains
<1>2. PICK x \in box[b] : x.msg = m /\ ~x.deleted /\ ~Doomed(b, x.uid)
  BY <1>1
<1> QED
  BY <1>2

LEMMA FlagsStay ==
  ASSUME BoxesTyped, NEW b \in Boxes, NEW u, NEW marked \in SUBSET Copies,
         Moves!Flagged(b, u, marked), \A y \in marked : y.uid = u /\ Moves!At(b, u) # {},
         \A x \in Moves!At(b, u) : \E y \in marked : y.msg = x.msg /\ y.deleted = x.deleted
  PROVE  Stays
<1>1. /\ BoxesTyped' /\ last' = last /\ marked \subseteq box'[b]
      /\ \A d \in Boxes : \A x \in box[d] : x \in box'[d] \/ (d = b /\ x \in Moves!At(b, u))
  BY FlagsChange
<1>2. \A x \in Moves!At(b, u) : x.uid = u
  BY DEF Moves!At
<1> QED
  BY <1>1, <1>2 DEF Stays

LEMMA NothingStays == ASSUME BoxesTyped, UNCHANGED Moves!imap PROVE Stays
  BY DEF BoxesTyped, Stays, Moves!imap

\* A step that leaves the copies alone and brings nobody before a STORE.
LEMMA StayKeeps ==
  ASSUME MovesInv, Stays, UNCHANGED discarded, NEW c \in Callers, NEW k \in Moving \cup {Moves!Idle},
         k.at # "store", k # Moves!Idle => k.uid <= last[k.from], Moves!Goes(c, k)
  PROVE  MovesInv'
<1> USE DEF MovesInv
<1>1. BoxesTyped' /\ last' = last /\ \A e \in Boxes : last[e] <= last'[e]
  BY DEF Stays, BoxesTyped
<1>2. CallsTyped'
  BY <1>1, CallChanges
<1>3. ASSUME NEW b \in Boxes, NEW x \in box[b], ~x.deleted, ~Doomed(b, x.uid)
      PROVE  \E y \in box'[b] : y.msg = x.msg /\ ~y.deleted /\ ~Doomed(b, y.uid)'
  <2>1. PICK y \in box'[b] : y.msg = x.msg /\ y.deleted = x.deleted /\ y.uid = x.uid
    BY DEF Stays
  <2>2. ~Doomed(b, y.uid)'
    <3> SUFFICES ASSUME Doomed(b, y.uid)' PROVE FALSE
      OBVIOUS
    <3> DEFINE u == x.uid
    <3>1. Doomed(b, u)'
      BY <2>1
    <3> QED
      BY <1>3, <3>1, DoomChanges
  <2> QED
    BY <1>3, <2>1, <2>2
<1>4. CopyRemains'
  BY <1>3, RemainsElsewhere
<1> QED
  BY <1>1, <1>2, <1>4

LEMMA StartKeeps ==
  ASSUME MovesInv, NEW c \in Callers, NEW b \in Boxes, NEW u \in 1..MaxUid, NEW d \in Boxes,
         Moves!Move(c, b, u, d) \/ Moves!MarkAsSpam(c, b, u) \/ Moves!MarkNotSpam(c, b, u)
  PROVE  MovesInv'
<1> USE DEF MovesInv
<1> DEFINE first(to) == [at |-> IF canMove THEN "move" ELSE "copy", from |-> b, uid |-> u, to |-> to]
           styled(j) == {[x EXCEPT !.junk = j] : x \in Moves!At(b, u)}
<1>1. \A x \in Moves!At(b, u) : x \in Copies /\ x.uid = u
  BY DEF BoxesTyped, Moves!At
<1>2. ASSUME NEW j \in BOOLEAN, Moves!Flagged(b, u, styled(j)) PROVE Stays
  <2>1. \A x \in Moves!At(b, u) : [x EXCEPT !.junk = j] \in Copies /\ [x EXCEPT !.junk = j].uid = u
           /\ [x EXCEPT !.junk = j].msg = x.msg /\ [x EXCEPT !.junk = j].deleted = x.deleted
    BY <1>1 DEF Copies
  <2>2. styled(j) \in SUBSET Copies /\ \A y \in styled(j) : y.uid = u /\ Moves!At(b, u) # {}
    BY <2>1
  <2>3. \A x \in Moves!At(b, u) : \E y \in styled(j) : y.msg = x.msg /\ y.deleted = x.deleted
    BY <2>1
  <2> QED
    BY <1>2, <2>2, <2>3, FlagsStay
<1>3. u <= last[b] /\ UNCHANGED discarded
  BY DEF Moves!Move, Moves!MarkAsSpam, Moves!MarkNotSpam, Moves!Starts
<1>4. Stays /\ \E to \in Boxes : Moves!Goes(c, first(to))
  <2>1. CASE Moves!Move(c, b, u, d)
    <3>1. UNCHANGED Moves!imap /\ Moves!Goes(c, first(d))
      BY <2>1 DEF Moves!Move
    <3> QED
      BY <3>1, NothingStays
  <2>2. CASE Moves!MarkAsSpam(c, b, u)
    <3>1. Moves!Goes(c, first(Junk)) /\ (UNCHANGED Moves!imap \/ Moves!Flagged(b, u, styled(TRUE)))
      BY <2>2 DEF Moves!MarkAsSpam
    <3>2. Junk \in Boxes
      BY MovesConstants DEF Moves!MovesAssumption
    <3> QED
      BY <1>2, <3>1, <3>2, NothingStays
  <2>3. CASE Moves!MarkNotSpam(c, b, u)
    <3>1. Moves!Goes(c, first(Inbox)) /\ (UNCHANGED Moves!imap \/ Moves!Flagged(b, u, styled(FALSE)))
      BY <2>3 DEF Moves!MarkNotSpam
    <3>2. Inbox \in Boxes
      BY MovesConstants DEF Moves!MovesAssumption
    <3> QED
      BY <1>2, <3>1, <3>2, NothingStays
  <2> QED
    BY <2>1, <2>2, <2>3
<1>5. PICK to \in Boxes : Moves!Goes(c, first(to))
  BY <1>4
<1>6. first(to) \in Moving /\ first(to).at # "store" /\ first(to).uid = u /\ first(to).from = b
  BY MovesConstants DEF Moving, Moves!MovesAssumption
<1> HIDE DEF first
<1> QED
  BY <1>3, <1>4, <1>5, <1>6, StayKeeps

LEMMA SetSeenKeeps ==
  ASSUME MovesInv, NEW c \in Callers, NEW b \in Boxes, NEW u \in 1..MaxUid, NEW seen \in BOOLEAN,
         Moves!SetSeen(c, b, u, seen)
  PROVE  MovesInv'
<1> USE DEF MovesInv
<1> DEFINE styled == {[x EXCEPT !.seen = seen] : x \in Moves!At(b, u)}
<1>1. \A x \in Moves!At(b, u) : x \in Copies /\ x.uid = u
  BY DEF BoxesTyped, Moves!At
<1>2. \A x \in Moves!At(b, u) : [x EXCEPT !.seen = seen] \in Copies /\ [x EXCEPT !.seen = seen].uid = u
         /\ [x EXCEPT !.seen = seen].msg = x.msg /\ [x EXCEPT !.seen = seen].deleted = x.deleted
  BY <1>1 DEF Copies
<1>3. styled \in SUBSET Copies /\ \A y \in styled : y.uid = u /\ Moves!At(b, u) # {}
  BY <1>2
<1>4. \A x \in Moves!At(b, u) : \E y \in styled : y.msg = x.msg /\ y.deleted = x.deleted
  BY <1>2
<1>5. Moves!Flagged(b, u, styled) /\ UNCHANGED <<mmCall, discarded>> /\ mmCall[c] = Moves!Idle
  BY DEF Moves!SetSeen, Moves!Starts
<1>6. Stays
  BY <1>3, <1>4, <1>5, FlagsStay
<1>7. Moves!Goes(c, Moves!Idle)
  BY <1>5 DEF Moves!Goes, CallsTyped
<1> QED
  BY <1>5, <1>6, <1>7, StayKeeps DEF Moves!Idle

LEMMA CallOf ==
  ASSUME CallsTyped, NEW c \in Callers, mmCall[c].at # "idle"
  PROVE  mmCall[c] \in Moving /\ mmCall[c].uid <= last[mmCall[c].from]
  BY DEF CallsTyped, Moves!Idle

LEMMA UidMoveKeeps ==
  ASSUME MovesInv, NEW c \in Callers, Moves!UidMove(c)
  PROVE  MovesInv'
<1> USE DEF MovesInv
<1>1. PICK k \in Moving : k = mmCall[c]
  BY CallOf DEF Moves!UidMove
<1>2. k.from \in Boxes /\ k.to \in Boxes
  BY DEF Moving
<1>3. Moves!Goes(c, Moves!Idle) /\ UNCHANGED discarded /\ Moves!Idle.at # "store"
  BY DEF Moves!UidMove, Moves!Idle
<1>4. CASE UNCHANGED Moves!imap
  BY <1>3, <1>4, NothingStays, StayKeeps
<1>5. CASE Moves!Moved(k.from, k.uid, k.to)
  <2>1. /\ BoxesTyped' /\ \A e \in Boxes : last[e] <= last'[e]
        /\ \A e \in Boxes : \A x \in box[e] :
             x \in box'[e] \/
             \E y \in box'[k.to] : y.msg = x.msg /\ y.deleted = x.deleted /\ y.uid > last[k.to]
    BY <1>2, <1>5, MoveChanges
  <2>2. CallsTyped'
    BY <1>3, <2>1, CallChanges
  <2>3. \A b, u : Doomed(b, u)' => Doomed(b, u)
    BY <1>3, DoomChanges
  <2>4. ASSUME NEW b \in Boxes, NEW x \in box[b], ~x.deleted, ~Doomed(b, x.uid)
        PROVE  \E d \in Boxes : \E y \in box'[d] : y.msg = x.msg /\ ~y.deleted /\ ~Doomed(d, y.uid)'
    <3>1. CASE x \in box'[b]
      <4> DEFINE u == x.uid
      <4>1. ~Doomed(b, u)'
        BY <2>3, <2>4
      <4> QED
        BY <2>4, <3>1, <4>1
    <3>2. CASE x \notin box'[b]
      <4>1. PICK y \in box'[k.to] : y.msg = x.msg /\ y.deleted = x.deleted /\ y.uid > last[k.to]
        BY <2>1, <3>2
      <4>2. PICK v \in Nat : v = y.uid
        BY <1>2, <2>1 DEF BoxesTyped, Copies
      <4>3. ~Doomed(k.to, v)
        BY <1>2, <4>1, <4>2, NothingElseDoomed
      <4>4. ~Doomed(k.to, v)'
        BY <2>3, <4>3
      <4> QED
        BY <1>2, <2>4, <4>1, <4>2, <4>4
    <3> QED
      BY <3>1, <3>2
  <2>5. CopyRemains'
    BY <1>3, <2>4, RemainsElsewhere
  <2> QED
    BY <2>1, <2>2, <2>5
<1> QED
  BY <1>1, <1>4, <1>5 DEF Moves!UidMove

LEMMA UidCopyKeeps ==
  ASSUME MovesInv, NEW c \in Callers, Moves!UidCopy(c)
  PROVE  MovesInv'
<1> USE DEF MovesInv
<1>1. PICK k \in Moving : k = mmCall[c]
  BY CallOf DEF Moves!UidCopy
<1>2. k.from \in Boxes /\ k.to \in Boxes /\ k.uid \in Nat /\ k.uid <= last[k.from]
  BY <1>1, CallOf DEF Moving, Moves!UidCopy
<1>3. UNCHANGED discarded /\ Moves!Idle.at # "store"
  BY DEF Moves!UidCopy, Moves!Idle
<1> DEFINE next == [k EXCEPT !.at = "store"]
<1>4. CASE Moves!Goes(c, Moves!Idle) /\ UNCHANGED Moves!imap
  BY <1>3, <1>4, NothingStays, StayKeeps
<1>5. CASE Moves!Goes(c, next) /\ Moves!Copied(k.from, k.uid, k.to)
  <2>1. next \in Moving /\ next.at = "store" /\ next.from = k.from /\ next.uid = k.uid
    BY DEF Moving
  <2> HIDE DEF next
  <2>2. /\ BoxesTyped' /\ \A e \in Boxes : last[e] <= last'[e] /\ box[e] \subseteq box'[e]
        /\ \A x \in Moves!At(k.from, k.uid) :
             \E y \in box'[k.to] : y.msg = x.msg /\ y.deleted = x.deleted /\ y.uid > last[k.to]
    BY <1>2, <1>5, CopyChanges
  <2>3. last[k.from] \in Nat /\ last'[k.from] \in Nat /\ last[k.to] \in Nat
    BY <1>2, <2>2 DEF BoxesTyped
  <2>4. next.uid <= last'[next.from]
    BY <1>2, <2>1, <2>2, <2>3
  <2>5. CallsTyped'
    BY <1>5, <2>1, <2>2, <2>4, CallChanges
  <2>6. \A b, u : Doomed(b, u)' => Doomed(b, u) \/ (b = k.from /\ u = k.uid)
    BY <1>5, <2>1, DoomChanges
  <2>7. ASSUME NEW b \in Boxes, NEW x \in box[b], ~x.deleted, ~Doomed(b, x.uid)
        PROVE  \E d \in Boxes : \E y \in box'[d] : y.msg = x.msg /\ ~y.deleted /\ ~Doomed(d, y.uid)'
    <3>1. CASE x \notin Moves!At(k.from, k.uid) \/ b # k.from
      <4> DEFINE u == x.uid
      <4>1. ~Doomed(b, u)'
        BY <1>1, <2>6, <2>7, <3>1 DEF Moves!At
      <4>2. x \in box'[b]
        BY <2>2
      <4> QED
        BY <2>7, <4>1, <4>2
    <3>2. CASE x \in Moves!At(k.from, k.uid)
      <4>1. PICK y \in box'[k.to] : y.msg = x.msg /\ y.deleted = x.deleted /\ y.uid > last[k.to]
        BY <2>2, <3>2
      <4>2. PICK v \in Nat : v = y.uid
        BY <1>2, <2>2 DEF BoxesTyped, Copies
      <4>3. ~Doomed(k.to, v)
        BY <1>2, <4>1, <4>2, NothingElseDoomed
      <4>4. ~(k.to = k.from /\ v = k.uid)
        BY <1>2, <2>3, <4>1, <4>2
      <4>5. ~Doomed(k.to, v)'
        BY <2>6, <4>3, <4>4
      <4> QED
        BY <1>2, <2>7, <4>1, <4>2, <4>5
    <3> QED
      BY <3>1, <3>2
  <2>8. CopyRemains'
    BY <1>3, <2>7, RemainsElsewhere
  <2> QED
    BY <2>2, <2>5, <2>8
<1> QED
  BY <1>1, <1>4, <1>5 DEF Moves!UidCopy

LEMMA UidStoreKeeps ==
  ASSUME MovesInv, NEW c \in Callers, Moves!UidStore(c)
  PROVE  MovesInv'
<1> USE DEF MovesInv
<1>1. PICK k \in Moving : k = mmCall[c]
  BY CallOf DEF Moves!UidStore
<1>2. k.from \in Boxes /\ k.uid \in Nat /\ k.uid <= last[k.from] /\ k.at = "store"
  BY <1>1, CallOf DEF Moving, Moves!UidStore
<1>3. UNCHANGED discarded /\ Moves!Idle.at # "store"
  BY DEF Moves!UidStore, Moves!Idle
<1> DEFINE next == [k EXCEPT !.at = "expunge"]
           marked == {[x EXCEPT !.deleted = TRUE] : x \in Moves!At(k.from, k.uid)}
<1>4. CASE Moves!Goes(c, Moves!Idle) /\ UNCHANGED Moves!imap
  BY <1>3, <1>4, NothingStays, StayKeeps
<1>5. CASE Moves!Goes(c, next) /\ Moves!Flagged(k.from, k.uid, marked)
  <2>1. next \in Moving /\ next.at # "store" /\ next.from = k.from /\ next.uid = k.uid
    BY DEF Moving
  <2>2. \A x \in Moves!At(k.from, k.uid) : x \in Copies /\ x.uid = k.uid /\ x \in box[k.from]
    BY <1>2 DEF BoxesTyped, Moves!At
  <2>3. marked \in SUBSET Copies /\ \A y \in marked : y.uid = k.uid /\ Moves!At(k.from, k.uid) # {}
    <3>1. \A x \in Moves!At(k.from, k.uid) :
            [x EXCEPT !.deleted = TRUE] \in Copies /\ [x EXCEPT !.deleted = TRUE].uid = k.uid
      BY <2>2 DEF Copies
    <3> DEFINE set(x) == [x EXCEPT !.deleted = TRUE]
    <3>2. \A x \in Moves!At(k.from, k.uid) : set(x) \in Copies /\ set(x).uid = k.uid
      BY <3>1
    <3>3. marked = {set(x) : x \in Moves!At(k.from, k.uid)}
      OBVIOUS
    <3> HIDE DEF set, marked
    <3>4. \A y \in marked : y \in Copies /\ y.uid = k.uid /\ Moves!At(k.from, k.uid) # {}
      BY <3>2, <3>3
    <3> QED
      BY <3>4
  <2> HIDE DEF next, marked
  <2>4. /\ BoxesTyped' /\ last' = last
        /\ \A d \in Boxes : \A x \in box[d] :
             x \in box'[d] \/ (d = k.from /\ x \in Moves!At(k.from, k.uid))
    BY <1>2, <1>5, <2>3, FlagsChange
  <2>5. \A e \in Boxes : last[e] <= last'[e]
    BY <2>4 DEF BoxesTyped
  <2>6. CallsTyped'
    BY <1>2, <1>5, <2>1, <2>4, <2>5, CallChanges
  <2>7. \A b, u : Doomed(b, u)' => Doomed(b, u)
    BY <1>5, <2>1, DoomChanges
  <2>8. Doomed(k.from, k.uid)
    BY <1>1, <1>2 DEF Doomed
  <2>9. ASSUME NEW b \in Boxes, NEW x \in box[b], ~x.deleted, ~Doomed(b, x.uid)
        PROVE  \E d \in Boxes : \E y \in box'[d] : y.msg = x.msg /\ ~y.deleted /\ ~Doomed(d, y.uid)'
    <3>1. x \in box'[b]
      BY <2>2, <2>4, <2>8, <2>9
    <3> DEFINE u == x.uid
    <3>2. ~Doomed(b, u)'
      BY <2>7, <2>9
    <3> QED
      BY <2>9, <3>1, <3>2
  <2>10. CopyRemains'
    BY <1>3, <2>9, RemainsElsewhere
  <2> QED
    BY <2>4, <2>6, <2>10
<1> QED
  BY <1>1, <1>4, <1>5 DEF Moves!UidStore

LEMMA ExpungeKeeps ==
  ASSUME MovesInv, NEW c \in Callers, Moves!Expunge(c)
  PROVE  MovesInv'
<1> USE DEF MovesInv
<1>1. PICK k \in Moving : k = mmCall[c]
  BY CallOf DEF Moves!Expunge
<1>2. Moves!Goes(c, Moves!Idle) /\ UNCHANGED discarded /\ Moves!Idle.at # "store"
  BY DEF Moves!Expunge, Moves!Idle
<1> DEFINE out == {x \in box[k.from] : x.deleted}
<1>3. CASE UNCHANGED Moves!imap
  BY <1>2, <1>3, NothingStays, StayKeeps
<1>4. CASE box' = [box EXCEPT ![k.from] = @ \ out] /\ UNCHANGED last
  <2>1. k.from \in Boxes
    BY DEF Moving
  <2>2. \A b \in Boxes : /\ box'[b] \subseteq box[b]
                         /\ \A x \in box[b] : ~x.deleted => x \in box'[b]
    BY <1>4, <2>1 DEF BoxesTyped
  <2>3. BoxesTyped' /\ \A e \in Boxes : last[e] <= last'[e]
    <3>1. box \in [Boxes -> SUBSET Copies] /\ last' = last /\ last \in [Boxes -> 0..MaxUid]
      BY <1>4 DEF BoxesTyped
    <3>2. box' \in [Boxes -> SUBSET Copies]
      BY <1>4, <2>1, <3>1
    <3>3. \A b \in Boxes : \A x \in box'[b] : x.uid \in 1..last'[b]
      BY <2>2, <3>1 DEF BoxesTyped
    <3> QED
      BY <3>1, <3>2, <3>3 DEF BoxesTyped
  <2>4. CallsTyped'
    BY <1>2, <2>3, CallChanges
  <2>5. \A b, u : Doomed(b, u)' => Doomed(b, u)
    BY <1>2, DoomChanges
  <2>6. ASSUME NEW b \in Boxes, NEW x \in box[b], ~x.deleted, ~Doomed(b, x.uid)
        PROVE  \E d \in Boxes : \E y \in box'[d] : y.msg = x.msg /\ ~y.deleted /\ ~Doomed(d, y.uid)'
    <3> DEFINE u == x.uid
    <3>1. ~Doomed(b, u)' /\ x \in box'[b]
      BY <2>2, <2>5, <2>6
    <3> QED
      BY <2>6, <3>1
  <2>7. CopyRemains'
    BY <1>2, <2>6, RemainsElsewhere
  <2> QED
    BY <2>3, <2>4, <2>7
<1> QED
  BY <1>1, <1>3, <1>4 DEF Moves!Expunge

LEMMA OtherMarksKeeps ==
  ASSUME MovesInv, NEW b \in Boxes, NEW u \in 1..MaxUid, Moves!OtherMarks(b, u)
  PROVE  MovesInv'
<1> USE DEF MovesInv
<1> DEFINE marked == {[x EXCEPT !.deleted = ~@] : x \in Moves!At(b, u)}
<1>1. /\ Moves!Flagged(b, u, marked) /\ UNCHANGED mmCall /\ Moves!At(b, u) # {}
      /\ discarded' = discarded \cup {x.msg : x \in Moves!At(b, u)}
  BY DEF Moves!OtherMarks
<1>2. \A x \in Moves!At(b, u) : x \in Copies /\ x.uid = u
  BY DEF BoxesTyped, Moves!At
<1>3. \A x \in Moves!At(b, u) : [x EXCEPT !.deleted = ~@] \in Copies /\ [x EXCEPT !.deleted = ~@].uid = u
  BY <1>2 DEF Copies
<1>4. marked \in SUBSET Copies /\ \A y \in marked : y.uid = u /\ Moves!At(b, u) # {}
  BY <1>1, <1>3
<1> HIDE DEF marked
<1>5. /\ BoxesTyped' /\ last' = last
      /\ \A d \in Boxes : \A x \in box[d] : x \in box'[d] \/ (d = b /\ x \in Moves!At(b, u))
  BY <1>1, <1>4, FlagsChange
<1>6. CallsTyped'
  BY <1>1, <1>5 DEF CallsTyped
<1>7. ASSUME NEW d \in Boxes, NEW x \in box[d], x.msg \notin discarded', ~x.deleted, ~Doomed(d, x.uid)
      PROVE  \E e \in Boxes : \E y \in box'[e] : y.msg = x.msg /\ ~y.deleted /\ ~Doomed(e, y.uid)'
  <2>1. x \in box'[d]
    BY <1>1, <1>5, <1>7
  <2> DEFINE v == x.uid
  <2>2. ~Doomed(d, v)'
    BY <1>1, <1>7 DEF Doomed
  <2> QED
    BY <1>7, <2>1, <2>2
<1>8. CopyRemains'
  BY <1>1, <1>7, RemainsElsewhere
<1> QED
  BY <1>5, <1>6, <1>8

LEMMA MovesStep == MovesInv /\ [Moves!Next]_(Moves!vars) => MovesInv'
<1> SUFFICES ASSUME MovesInv, [Moves!Next]_(Moves!vars) PROVE MovesInv'
  OBVIOUS
<1>1. CASE UNCHANGED Moves!vars
  BY <1>1 DEF MovesInv, BoxesTyped, CallsTyped, CopyRemains, Doomed, Moves!vars
<1>2. ASSUME NEW c \in Callers,
             Moves!UidMove(c) \/ Moves!UidCopy(c) \/ Moves!UidStore(c) \/ Moves!Expunge(c)
      PROVE  MovesInv'
  BY <1>2, UidMoveKeeps, UidCopyKeeps, UidStoreKeeps, ExpungeKeeps
<1>3. ASSUME NEW c \in Callers, NEW b \in Boxes, NEW u \in 1..MaxUid,
             \/ Moves!MarkAsSpam(c, b, u) \/ Moves!MarkNotSpam(c, b, u)
             \/ \E seen \in BOOLEAN : Moves!SetSeen(c, b, u, seen)
             \/ \E d \in Boxes : Moves!Move(c, b, u, d)
      PROVE  MovesInv'
  BY <1>3, StartKeeps, SetSeenKeeps
<1>4. ASSUME NEW b \in Boxes, NEW u \in 1..MaxUid, Moves!OtherMarks(b, u) PROVE MovesInv'
  BY <1>4, OtherMarksKeeps
<1> QED
  BY <1>1, <1>2, <1>3, <1>4 DEF Moves!Next

LEMMA MovesSafe == MovesInv => Moves!TypeOK /\ Moves!NothingLost
<1> SUFFICES ASSUME MovesInv PROVE Moves!TypeOK /\ Moves!NothingLost
  OBVIOUS
<1>1. Moves!TypeOK
  BY DEF MovesInv, BoxesTyped, Moves!TypeOK, Copies
<1>2. Moves!NothingLost
  BY DEF MovesInv, CopyRemains, Moves!NothingLost
<1> QED
  BY <1>1, <1>2

\* However moves of a message overlap, fail half-way and meet the EXPUNGE of others, a message
\* nobody else marked stays in some mailbox (mail_extensions.py, _move_uid).
THEOREM MovesKeepEveryMessage == Moves!Spec => [](Moves!TypeOK /\ Moves!NothingLost)
  BY MovesInit, MovesStep, MovesSafe, PTL DEF Moves!Spec

LEMMA MovesBeside == Spec => Moves!Spec
<1>1. Init => Moves!Init
  BY DEF Init
<1>2. [Next]_allVars => [Moves!Next]_(Moves!vars)
  BY DEF Next, allVars, movesVars, Moves!vars
<1> QED
  BY <1>1, <1>2, PTL DEF Spec, Moves!Spec

\* No move loses a message.
THEOREM MovesLoseNothing == Spec => []NothingLost
<1>1. Moves!TypeOK /\ Moves!NothingLost => NothingLost
  BY DEF NothingLost
<1> QED
  BY <1>1, MovesBeside, MovesKeepEveryMessage, PTL

-----------------------------------------------------------------------------
(* The mailbox cache.  What makes a quiet pass enough to mirror the server *)
(* is that the cached headers are of the known UIDVALIDITY whenever that   *)
(* is still the server's, those aside that went unnoticed: through passes  *)
(* that failed half-way and mailboxes recreated under a running one.       *)

Passing == [at : {"status", "select", "headers", "done"}, by : Callers, told : 0..MaxValidity,
            in : 0..MaxValidity, live : SUBSET Uids, new : SUBSET Uids, clean : BOOLEAN]

CacheTyped ==
  /\ Cache!TypeOK
  /\ mcPass \in Passing \cup {Cache!Idle}
  /\ mcKnown <= mailbox.validity

HeadersOf(v) == \A u \in DOMAIN mcRows \ unnoticed : mcRows[u].of = v

\* as long as the mailbox is the one that is known, every header is of it
KnownIsCurrent == mcKnown = mailbox.validity => HeadersOf(mailbox.validity)

ToldIsCurrent ==
  mcPass.at \in {"select", "headers", "done"} =>
    /\ mcPass.told \in 0..mailbox.validity
    /\ mcPass.told = mailbox.validity => HeadersOf(mailbox.validity)
    /\ mcPass.at = "done" => mcKnown = mcPass.told

\* what a pass that was not disturbed has reached
CleanPass ==
  /\ mcPass.at = "select" /\ mcPass.clean => mcPass.told = mailbox.validity
  /\ mcPass.at = "headers" /\ mcPass.clean =>
       /\ mcPass.told = mailbox.validity
       /\ mcPass.live = mailbox.live
       /\ DOMAIN mcRows \subseteq mcPass.live
       /\ mcPass.new = mcPass.live \ DOMAIN mcRows
  /\ mcPass.at = "done" /\ mcPass.clean =>
       /\ mcPass.told = mailbox.validity
       /\ DOMAIN mcRows = mailbox.live
       /\ \A u \in DOMAIN mcRows : mcRows[u].seen = (u \in mailbox.seen)

CacheInv == CacheTyped /\ KnownIsCurrent /\ ToldIsCurrent /\ CleanPass

\* whether something is in a set is one of the two truth values
LEMMA Membership == ASSUME NEW x, NEW S PROVE \E s \in BOOLEAN : s = (x \in S)
<1>1. CASE x \in S
  <2>1. TRUE = (x \in S)
    BY <1>1
  <2> QED
    BY <2>1
<1>2. CASE x \notin S
  <2>1. FALSE = (x \in S)
    BY <1>2
  <2> QED
    BY <2>1
<1> QED
  BY <1>1, <1>2

LEMMA CacheConstants == MaxValidity \in Nat \ {0}
  BY MailAssumption DEF Cache!CacheAssumption

LEMMA CacheInit == Cache!Init => CacheInv
<1> SUFFICES ASSUME Cache!Init PROVE CacheInv
  OBVIOUS
<1> USE CacheConstants
<1>1. /\ mailbox = [validity |-> 1, live |-> {}, seen |-> {}, used |-> {}]
      /\ mcKnown = 0 /\ mcPass = Cache!Idle /\ waiting = {} /\ asked = {} /\ unnoticed = {}
      /\ fetch = [u \in Uids |-> 0]
  BY DEF Cache!Init
<1>2. DOMAIN mcRows = {}
  BY DEF Cache!Init, Cache!NoRows
<1>3. mailbox \in Cache!Server /\ mailbox.validity = 1
  BY <1>1 DEF Cache!Server
<1>4. Cache!TypeOK
  BY <1>1, <1>2, <1>3 DEF Cache!TypeOK, Cache!Cached
<1>5. mcPass.at = "idle"
  BY <1>1 DEF Cache!Idle
<1> QED
  BY <1>1, <1>2, <1>3, <1>4, <1>5
  DEF CacheInv, CacheTyped, KnownIsCurrent, ToldIsCurrent, CleanPass

LEMMA ServerOf ==
  ASSUME CacheTyped
  PROVE  /\ mailbox.validity \in 1..MaxValidity /\ mailbox.live \subseteq Uids
         /\ mailbox.seen \subseteq Uids /\ mailbox.used \subseteq Uids
         /\ mailbox.validity \in Nat /\ mcKnown \in Nat
  BY CacheConstants DEF CacheTyped, Cache!TypeOK, Cache!Server

LEMMA PassOf ==
  ASSUME CacheTyped, mcPass.at # "idle"
  PROVE  mcPass \in Passing
  BY DEF CacheTyped, Cache!Idle

\* Whatever the server does, a pass that runs is no longer clean.
LEMMA ServerActsKeep ==
  ASSUME CacheInv, Cache!ServerActs
  PROVE  CacheInv'
<1> USE DEF CacheInv
<1>1. /\ UNCHANGED <<mcRows, mcKnown, waiting, fetch, asked, unnoticed>>
      /\ mcPass' = IF mcPass = Cache!Idle THEN Cache!Idle ELSE [mcPass EXCEPT !.clean = FALSE]
  BY DEF Cache!ServerActs, Cache!Arrive, Cache!Expunge, Cache!ToggleSeen, Cache!Recreate, Cache!Touched
<1>2. PICK m \in Cache!Server : m = mailbox
  BY DEF CacheTyped, Cache!TypeOK
<1>3. mailbox' \in Cache!Server /\ mailbox'.validity >= mailbox.validity
  <2> USE CacheConstants, <1>2 DEF Cache!Server
  <2>1. ASSUME NEW u \in Uids, Cache!Arrive(u) PROVE <1>3
    <3>1. mailbox' = [validity |-> m.validity, live |-> m.live \cup {u}, seen |-> m.seen,
                      used |-> m.used \cup {u}]
      BY <2>1 DEF Cache!Arrive
    <3> QED
      BY <3>1
  <2>2. ASSUME NEW u \in Uids, Cache!Expunge(u) PROVE <1>3
    <3>1. mailbox' = [validity |-> m.validity, live |-> m.live \ {u}, seen |-> m.seen \ {u},
                      used |-> m.used]
      BY <2>2 DEF Cache!Expunge
    <3> QED
      BY <3>1
  <2>3. ASSUME NEW u \in Uids, Cache!ToggleSeen(u) PROVE <1>3
    BY <2>3 DEF Cache!ToggleSeen
  <2>4. ASSUME NEW us \in SUBSET Uids, Cache!Recreate(us) PROVE <1>3
    BY <2>4 DEF Cache!Recreate
  <2> QED
    BY <2>1, <2>2, <2>3, <2>4 DEF Cache!ServerActs
<1>4. mailbox.validity \in Nat /\ mcKnown \in Nat /\ mailbox'.validity \in Nat
  BY <1>3, ServerOf, CacheConstants DEF Cache!Server
<1>5. mcPass' \in Passing \cup {Cache!Idle}
  BY <1>1 DEF CacheTyped, Passing
<1>6. /\ mcPass'.at = mcPass.at
      /\ mcPass.at # "idle" => mcPass'.told = mcPass.told /\ mcPass'.clean = FALSE
  BY <1>1, PassOf DEF CacheTyped, Passing, Cache!Idle
<1>7. CacheTyped'
  BY <1>1, <1>3, <1>4, <1>5 DEF CacheTyped, Cache!TypeOK, Cache!Cached
<1>8. KnownIsCurrent'
  BY <1>1, <1>3, <1>4 DEF KnownIsCurrent, HeadersOf, CacheTyped
<1>10. ToldIsCurrent'
  BY <1>1, <1>3, <1>4, <1>6 DEF ToldIsCurrent, HeadersOf
<1>11. CleanPass'
  BY <1>6 DEF CleanPass
<1> QED
  BY <1>7, <1>8, <1>10, <1>11

LEMMA RequestKeeps ==
  ASSUME CacheInv, NEW c \in Callers, Cache!Request(c)
  PROVE  CacheInv'
<1> USE DEF CacheInv
<1>1. CASE Cache!Lead(c)
  <2> DEFINE p == [at |-> "status", by |-> c, told |-> 0, in |-> 0, live |-> {}, new |-> {}, clean |-> TRUE]
  <2>1. /\ mcPass = Cache!Idle /\ mcPass' = p
        /\ UNCHANGED <<mailbox, mcRows, mcKnown, waiting, fetch, asked, unnoticed>>
    BY <1>1 DEF Cache!Lead
  <2>2. p \in Passing /\ p.at = "status"
    BY CacheConstants DEF Passing
  <2> HIDE DEF p
  <2>3. CacheTyped'
    BY <2>1, <2>2 DEF CacheTyped, Cache!TypeOK, Cache!Cached
  <2> QED
    BY <2>1, <2>2, <2>3 DEF KnownIsCurrent, HeadersOf, ToldIsCurrent, CleanPass, Cache!Idle
<1>2. CASE Cache!Follow(c) \/ Cache!FollowerTimesOut(c)
  <2>1. /\ UNCHANGED <<mailbox, mcRows, mcKnown, mcPass, fetch, asked, unnoticed>>
        /\ waiting' \subseteq Callers
    BY <1>2 DEF Cache!Follow, Cache!FollowerTimesOut, Cache!Unchanged, CacheTyped, Cache!TypeOK
  <2> QED
    BY <2>1 DEF CacheTyped, Cache!TypeOK, Cache!Cached, KnownIsCurrent, HeadersOf,
                ToldIsCurrent, CleanPass
<1> QED
  BY <1>1, <1>2 DEF Cache!Request

LEMMA ValidityKeeps ==
  ASSUME CacheInv, Cache!Validity
  PROVE  CacheInv'
<1> USE DEF CacheInv
<1>1. PICK told \in {mailbox.validity, 0}, reset \in BOOLEAN :
        /\ mcPass.at = "status" /\ reset = (mcKnown # 0 /\ told # 0 /\ mcKnown # told)
        /\ mcPass' = [mcPass EXCEPT !.at = "select", !.told = told, !.clean = @ /\ told # 0]
        /\ mcRows' = IF reset THEN Cache!NoRows ELSE mcRows
        /\ mcKnown' = IF reset THEN told ELSE mcKnown
        /\ unnoticed' = CASE reset -> {}
                          [] mcKnown = 0 /\ told # 0 -> unnoticed \cup {u \in DOMAIN mcRows : mcRows[u].of # told}
                          [] OTHER -> unnoticed
  BY DEF Cache!Validity, Cache!Cached
<1>0. UNCHANGED <<mailbox, waiting, fetch, asked>>
  BY DEF Cache!Validity, Cache!Unchanged
<1>2. PICK p \in Passing : p = mcPass
  BY <1>1, PassOf
<1>3. mailbox.validity \in 1..MaxValidity /\ mailbox.validity \in Nat /\ mcKnown \in Nat
  BY ServerOf
<1>4. /\ mcPass' \in Passing /\ mcPass'.at = "select" /\ mcPass'.told = told
      /\ mcPass'.clean => told # 0
  <2>1. PICK b \in BOOLEAN : b = (mcPass.clean /\ told # 0)
    OBVIOUS
  <2>2. mcPass' = [at |-> "select", by |-> p.by, told |-> told, in |-> p.in,
                   live |-> p.live, new |-> p.new, clean |-> b]
    BY <1>1, <1>2, <2>1 DEF Passing
  <2>3. told \in 0..MaxValidity
    BY <1>1, <1>3, CacheConstants
  <2> QED
    BY <2>1, <2>2, <2>3 DEF Passing
<1>5. DOMAIN mcRows' \subseteq DOMAIN mcRows /\ \A u \in DOMAIN mcRows' : mcRows'[u] = mcRows[u]
  BY <1>1 DEF Cache!NoRows
<1>6. CacheTyped'
  <2>1. unnoticed' \subseteq Uids
    BY <1>1 DEF CacheTyped, Cache!TypeOK, Cache!Cached
  <2>2. mcKnown' \in 0..MaxValidity /\ mcKnown' <= mailbox'.validity
    BY <1>0, <1>1, <1>3, CacheConstants DEF CacheTyped, Cache!TypeOK
  <2> QED
    BY <1>0, <1>4, <1>5, <2>1, <2>2 DEF CacheTyped, Cache!TypeOK, Cache!Cached
<1>7. told = mailbox.validity => HeadersOf(mailbox.validity)'
  <2>1. CASE reset
    BY <1>1, <2>1 DEF HeadersOf, Cache!NoRows
  <2>2. CASE ~reset /\ mcKnown = 0
    BY <1>0, <1>1, <1>3, <2>2 DEF HeadersOf
  <2>3. CASE ~reset /\ mcKnown # 0
    <3> SUFFICES ASSUME told = mailbox.validity
                 PROVE  HeadersOf(mailbox.validity)'
      OBVIOUS
    <3>4. mcKnown = 0 \/ told = 0 \/ mcKnown = told
      BY <1>1, <2>3, Zenon
    <3>5. mailbox.validity # 0
      BY <1>3
    <3>1. told # 0 /\ mcKnown = mailbox.validity
      BY <2>3, <3>4, <3>5
    <3>2. mcRows' = mcRows
      BY <1>1, <2>3
    <3>3. unnoticed' = unnoticed
      BY <1>1, <2>3
    <3> QED
      BY <1>0, <3>1, <3>2, <3>3 DEF HeadersOf, KnownIsCurrent
  <2> QED
    BY <2>1, <2>2, <2>3
<1>8. KnownIsCurrent'
  <2>1. CASE told = mailbox.validity
    BY <1>0, <1>7, <2>1 DEF KnownIsCurrent
  <2>2. CASE told = 0
    <3>1. UNCHANGED <<mcRows, mcKnown, unnoticed>>
      BY <1>1, <2>2
    <3> QED
      BY <1>0, <3>1 DEF KnownIsCurrent, HeadersOf
  <2> QED
    BY <1>1, <2>1, <2>2
<1>9. ToldIsCurrent' /\ CleanPass'
  BY <1>0, <1>1, <1>3, <1>4, <1>7 DEF ToldIsCurrent, CleanPass
<1> QED
  BY <1>6, <1>8, <1>9

LEMMA SearchKeeps ==
  ASSUME CacheInv, Cache!Search
  PROVE  CacheInv'
<1> USE DEF CacheInv
<1>1. PICK live \in {mailbox.live, {}} :
        /\ mcPass' = [mcPass EXCEPT !.at = "headers", !.in = mailbox.validity, !.live = live,
                                    !.new = live \ DOMAIN mcRows, !.clean = @ /\ live = mailbox.live]
        /\ mcRows' = [u \in DOMAIN mcRows \cap live |-> mcRows[u]]
        /\ unnoticed' = unnoticed \cap live
  BY DEF Cache!Search, Cache!Cached, Cache!Kept
<1>2. mcPass.at = "select" /\ UNCHANGED <<mailbox, mcKnown, waiting, fetch, asked>>
  BY DEF Cache!Search, Cache!Unchanged
<1>3. PICK p \in Passing : p = mcPass
  BY <1>2, PassOf
<1>4. live \subseteq Uids /\ mailbox.validity \in 1..MaxValidity /\ mailbox.validity \in Nat
  BY <1>1, ServerOf
<1>5. /\ mcPass' \in Passing /\ mcPass'.at = "headers" /\ mcPass'.told = mcPass.told
      /\ mcPass'.live = live /\ mcPass'.new = live \ DOMAIN mcRows
      /\ mcPass'.clean = (mcPass.clean /\ live = mailbox.live)
  <2>1. PICK b \in BOOLEAN : b = (mcPass.clean /\ live = mailbox.live)
    OBVIOUS
  <2>2. mcPass' = [at |-> "headers", by |-> p.by, told |-> p.told, in |-> mailbox.validity,
                   live |-> live, new |-> live \ DOMAIN mcRows, clean |-> b]
    BY <1>1, <1>3, <2>1 DEF Passing
  <2>4. mailbox.validity \in 0..MaxValidity
    BY <1>4, CacheConstants
  <2>3. /\ mcPass' \in Passing /\ mcPass'.at = "headers" /\ mcPass'.told = p.told
        /\ mcPass'.live = live /\ mcPass'.new = live \ DOMAIN mcRows /\ mcPass'.clean = b
    BY <1>4, <2>2, <2>4 DEF Passing
  <2> QED
    BY <1>3, <2>1, <2>3
<1>6. DOMAIN mcRows' = DOMAIN mcRows \cap live /\ \A u \in DOMAIN mcRows' : mcRows'[u] = mcRows[u]
  BY <1>1
<1>7. CacheTyped'
  BY <1>1, <1>2, <1>5, <1>6 DEF CacheTyped, Cache!TypeOK, Cache!Cached
<1>10. \A u \in DOMAIN mcRows' \ unnoticed' : u \in DOMAIN mcRows \ unnoticed
  BY <1>1, <1>6
<1>8. KnownIsCurrent' /\ ToldIsCurrent'
  BY <1>2, <1>5, <1>6, <1>10 DEF KnownIsCurrent, HeadersOf, ToldIsCurrent
<1>9. CleanPass'
  BY <1>2, <1>5, <1>6 DEF CleanPass
<1> QED
  BY <1>7, <1>8, <1>9

LEMMA HeaderKeeps ==
  ASSUME CacheInv, NEW u \in Uids, Cache!Header(u)
  PROVE  CacheInv'
<1> USE DEF CacheInv
<1>1. /\ mcPass.at = "headers" /\ mcPass.in = mailbox.validity /\ u \in mcPass.new
      /\ UNCHANGED <<mailbox, mcKnown, waiting, fetch, asked, unnoticed>>
  BY DEF Cache!Header, Cache!Open, Cache!Unchanged
<1>2. PICK p \in Passing : p = mcPass
  BY <1>1, PassOf
<1>3. mailbox.validity \in 1..MaxValidity /\ mailbox.validity \in Nat
  BY ServerOf
<1>4. CASE /\ u \in mailbox.live
           /\ mcRows' = [v \in DOMAIN mcRows \cup {u} |->
                IF v # u THEN mcRows[v]
                ELSE [of |-> mailbox.validity, seen |-> u \in mailbox.seen,
                      body |-> IF u \in DOMAIN mcRows THEN mcRows[u].body ELSE 0]]
           /\ mcPass' = [mcPass EXCEPT !.new = @ \ {u}]
  <2> DEFINE body == IF u \in DOMAIN mcRows THEN mcRows[u].body ELSE 0
  <2>1. mcPass' = [at |-> p.at, by |-> p.by, told |-> p.told, in |-> p.in, live |-> p.live,
                   new |-> p.new \ {u}, clean |-> p.clean]
    BY <1>2, <1>4 DEF Passing
  <2>2. /\ mcPass' \in Passing /\ mcPass'.at = "headers" /\ mcPass'.told = mcPass.told
        /\ mcPass'.live = mcPass.live /\ mcPass'.new = mcPass.new \ {u} /\ mcPass'.clean = mcPass.clean
    BY <1>1, <1>2, <2>1 DEF Passing
  <2>3. body \in 0..MaxValidity
    BY CacheConstants DEF CacheTyped, Cache!TypeOK, Cache!Cached, Cache!Row
  <2>4. PICK s \in BOOLEAN : s = (u \in mailbox.seen)
    BY Membership
  <2> HIDE DEF body
  <2>5. /\ DOMAIN mcRows' = DOMAIN mcRows \cup {u}
        /\ mcRows'[u] = [of |-> mailbox.validity, seen |-> s, body |-> body]
        /\ \A v \in DOMAIN mcRows : v # u => mcRows'[v] = mcRows[v]
    BY <1>4, <2>4 DEF body
  <2>6. mcRows'[u] \in Cache!Row /\ mcRows'[u].of = mailbox.validity
    BY <1>3, <2>3, <2>5 DEF Cache!Row
  <2>7. CacheTyped'
    BY <1>1, <2>2, <2>5, <2>6 DEF CacheTyped, Cache!TypeOK, Cache!Cached
  <2>8. HeadersOf(mailbox.validity) => HeadersOf(mailbox.validity)'
    BY <1>1, <2>5, <2>6 DEF HeadersOf
  <2>9. KnownIsCurrent' /\ ToldIsCurrent'
    BY <1>1, <2>2, <2>8 DEF KnownIsCurrent, ToldIsCurrent
  <2>10. CleanPass'
    BY <1>1, <1>4, <2>2, <2>5 DEF CleanPass
  <2> QED
    BY <2>7, <2>9, <2>10
<1>5. CASE mcPass' = [mcPass EXCEPT !.new = @ \ {u}, !.clean = FALSE] /\ UNCHANGED mcRows
  <2>1. mcPass' = [at |-> p.at, by |-> p.by, told |-> p.told, in |-> p.in, live |-> p.live,
                   new |-> p.new \ {u}, clean |-> FALSE]
    BY <1>2, <1>5 DEF Passing
  <2>2. mcPass' \in Passing /\ mcPass'.at = "headers" /\ mcPass'.told = mcPass.told /\ ~mcPass'.clean
    BY <1>1, <1>2, <2>1 DEF Passing
  <2>3. CacheTyped'
    BY <1>1, <1>5, <2>2 DEF CacheTyped, Cache!TypeOK, Cache!Cached
  <2> QED
    BY <1>1, <1>5, <2>2, <2>3
    DEF KnownIsCurrent, HeadersOf, ToldIsCurrent, CleanPass
<1> QED
  BY <1>4, <1>5 DEF Cache!Header, Cache!Cached

LEMMA FinishKeeps ==
  ASSUME CacheInv, Cache!Finish
  PROVE  CacheInv'
<1> USE DEF CacheInv
<1>1. /\ mcPass.at = "headers" /\ mcPass.new = {} /\ mcKnown' = mcPass.told
      /\ UNCHANGED <<mailbox, waiting, fetch, asked, unnoticed>>
  BY DEF Cache!Finish, Cache!Unchanged
<1>2. PICK heard \in BOOLEAN :
        /\ mcRows' = [u \in DOMAIN mcRows |->
             IF heard /\ mcPass.live # {} /\ u \in mailbox.live
             THEN [mcRows[u] EXCEPT !.seen = u \in mailbox.seen] ELSE mcRows[u]]
        /\ mcPass' = [mcPass EXCEPT !.at = "done", !.clean = @ /\ heard]
  BY DEF Cache!Finish, Cache!Cached
<1>3. PICK p \in Passing : p = mcPass
  BY <1>1, PassOf
<1>4. mailbox.validity \in 1..MaxValidity /\ mailbox.validity \in Nat
  BY ServerOf
<1>5. mcPass.told \in 0..mailbox.validity
  BY <1>1 DEF ToldIsCurrent
<1>6. PICK b \in BOOLEAN : b = (mcPass.clean /\ heard)
  OBVIOUS
<1>7. mcPass' = [at |-> "done", by |-> p.by, told |-> p.told, in |-> p.in, live |-> p.live,
                 new |-> p.new, clean |-> b]
  BY <1>2, <1>3, <1>6 DEF Passing
<1>8. mcPass' \in Passing /\ mcPass'.at = "done" /\ mcPass'.told = mcPass.told /\ mcPass'.clean = b
  BY <1>3, <1>7 DEF Passing
<1>9. DOMAIN mcRows' = DOMAIN mcRows
  BY <1>2
<1>10. ASSUME NEW u \in DOMAIN mcRows
       PROVE  /\ mcRows'[u] \in Cache!Row /\ mcRows'[u].of = mcRows[u].of
              /\ heard /\ mcPass.live # {} /\ u \in mailbox.live => mcRows'[u].seen = (u \in mailbox.seen)
  <2>1. mcRows[u] \in Cache!Row
    BY DEF CacheTyped, Cache!TypeOK, Cache!Cached
  <2>2. PICK s \in BOOLEAN : s = (u \in mailbox.seen)
    BY Membership
  <2>3. \/ mcRows'[u] = [mcRows[u] EXCEPT !.seen = s]
        \/ mcRows'[u] = mcRows[u] /\ ~(heard /\ mcPass.live # {} /\ u \in mailbox.live)
    BY <1>2, <2>2
  <2> QED
    BY <2>1, <2>2, <2>3 DEF Cache!Row
<1>11. CacheTyped'
  BY <1>1, <1>4, <1>5, <1>8, <1>9, <1>10, CacheConstants DEF CacheTyped, Cache!TypeOK, Cache!Cached
<1>12. HeadersOf(mailbox.validity) => HeadersOf(mailbox.validity)'
  BY <1>1, <1>9, <1>10 DEF HeadersOf
<1>13. KnownIsCurrent' /\ ToldIsCurrent'
  BY <1>1, <1>4, <1>5, <1>8, <1>12 DEF KnownIsCurrent, ToldIsCurrent
<1>14. CleanPass'
  <2> SUFFICES ASSUME b PROVE CleanPass'
    BY <1>8 DEF CleanPass
  <2>1. mcPass.clean /\ heard
    BY <1>6
  <2>2. /\ mcPass.told = mailbox.validity
        /\ mcPass.live = mailbox.live /\ DOMAIN mcRows \subseteq mcPass.live
        /\ mcPass.new = mcPass.live \ DOMAIN mcRows
    BY <1>1, <2>1 DEF CleanPass
  <2>3. DOMAIN mcRows = mailbox.live
    BY <1>1, <2>2
  <2>4. \A u \in DOMAIN mcRows : mcRows'[u].seen = (u \in mailbox.seen)
    BY <1>10, <2>1, <2>2, <2>3
  <2> QED
    BY <1>1, <1>8, <1>9, <2>2, <2>3, <2>4 DEF CleanPass
<1> QED
  BY <1>11, <1>13, <1>14

LEMMA ReleaseKeeps ==
  ASSUME CacheInv, Cache!Return \/ Cache!Fail
  PROVE  CacheInv'
<1> USE DEF CacheInv
<1>1. /\ mcPass' = Cache!Idle /\ waiting' = {} /\ mcPass.at # "idle"
      /\ UNCHANGED <<mailbox, mcRows, mcKnown, fetch, asked, unnoticed>>
  BY DEF Cache!Return, Cache!Fail, Cache!Release, Cache!Unchanged
<1>3. CacheTyped'
  BY <1>1 DEF CacheTyped, Cache!TypeOK, Cache!Cached
<1>4. mcPass'.at = "idle"
  BY <1>1 DEF Cache!Idle
<1> QED
  BY <1>1, <1>3, <1>4 DEF KnownIsCurrent, HeadersOf, ToldIsCurrent, CleanPass

LEMMA EnsureBodyKeeps ==
  ASSUME CacheInv, NEW u \in Uids, Cache!EnsureBody(u)
  PROVE  CacheInv'
<1> USE DEF CacheInv
<1>1. UNCHANGED <<mailbox, mcKnown, mcPass, waiting, unnoticed>>
  BY DEF Cache!EnsureBody, Cache!FetchBody, Cache!StoreBody
<1>2. /\ fetch \in [Uids -> 0..MaxValidity] /\ asked = {v \in Uids : fetch[v] # 0}
  BY DEF CacheTyped, Cache!TypeOK
<1>3. /\ DOMAIN mcRows' = DOMAIN mcRows
      /\ \A v \in DOMAIN mcRows : /\ mcRows'[v] \in Cache!Row
                                  /\ mcRows'[v].of = mcRows[v].of /\ mcRows'[v].seen = mcRows[v].seen
      /\ fetch' \in [Uids -> 0..MaxValidity] /\ asked' = {v \in Uids : fetch'[v] # 0}
  <2>1. \A v \in DOMAIN mcRows : mcRows[v] \in Cache!Row
    BY DEF CacheTyped, Cache!TypeOK, Cache!Cached
  <2>2. CASE Cache!FetchBody(u)
    <3>1. /\ mcRows' = mcRows /\ asked' = asked \cup {u}
          /\ fetch' = [fetch EXCEPT ![u] = mailbox.validity]
      BY <2>2 DEF Cache!FetchBody
    <3>2. mailbox.validity \in 0..MaxValidity /\ mailbox.validity # 0
      BY ServerOf, CacheConstants
    <3> QED
      BY <1>2, <2>1, <3>1, <3>2
  <2>3. CASE Cache!StoreBody(u)
    <3>1. /\ asked' = asked \ {u} /\ fetch' = [fetch EXCEPT ![u] = 0]
          /\ mcRows' = IF u \in DOMAIN mcRows THEN [mcRows EXCEPT ![u].body = fetch[u]] ELSE mcRows
      BY <2>3 DEF Cache!StoreBody, Cache!Cached
    <3>2. fetch' \in [Uids -> 0..MaxValidity] /\ asked' = {v \in Uids : fetch'[v] # 0}
      BY <1>2, <3>1, CacheConstants
    <3>3. DOMAIN mcRows' = DOMAIN mcRows
      BY <3>1
    <3>4. ASSUME NEW v \in DOMAIN mcRows
          PROVE  /\ mcRows'[v] \in Cache!Row
                 /\ mcRows'[v].of = mcRows[v].of /\ mcRows'[v].seen = mcRows[v].seen
      <4>1. mcRows'[v] = mcRows[v] \/ mcRows'[v] = [mcRows[v] EXCEPT !.body = fetch[u]]
        BY <3>1
      <4>2. fetch[u] \in 0..MaxValidity
        BY <1>2
      <4> QED
        BY <2>1, <4>1, <4>2 DEF Cache!Row
    <3> QED
      BY <3>2, <3>3, <3>4
  <2> QED
    BY <2>2, <2>3 DEF Cache!EnsureBody
<1>4. CacheTyped'
  BY <1>1, <1>3 DEF CacheTyped, Cache!TypeOK, Cache!Cached
<1> QED
  BY <1>1, <1>3, <1>4 DEF KnownIsCurrent, HeadersOf, ToldIsCurrent, CleanPass

LEMMA CacheStep == CacheInv /\ [Cache!Next]_(Cache!vars) => CacheInv'
<1> SUFFICES ASSUME CacheInv, [Cache!Next]_(Cache!vars) PROVE CacheInv'
  OBVIOUS
<1>1. CASE UNCHANGED Cache!vars
  BY <1>1 DEF CacheInv, CacheTyped, KnownIsCurrent, HeadersOf, ToldIsCurrent,
              CleanPass, Cache!TypeOK, Cache!Cached, Cache!vars
<1>2. CASE Cache!SyncMailbox
  BY <1>2, ValidityKeeps, SearchKeeps, HeaderKeeps, FinishKeeps, ReleaseKeeps DEF Cache!SyncMailbox
<1> QED
  BY <1>1, <1>2, ServerActsKeep, RequestKeeps, EnsureBodyKeeps DEF Cache!Next

LEMMA CacheSafe == CacheInv => Cache!TypeOK /\ Cache!MirrorsAfterQuietPass
  BY DEF CacheInv, CacheTyped, ToldIsCurrent, HeadersOf, CleanPass, Cache!MirrorsAfterQuietPass, Cache!Cached

\* Whatever commands failed in the passes before, STATUS included, a pass during which the server
\* did not change leaves the cache a mirror of it (mailbox_cache_v963.py, sync_mailbox), but for the
\* headers of a recreated mailbox that could not be noticed.
THEOREM QuietPassMirrors == Cache!Spec => [](Cache!TypeOK /\ Cache!MirrorsAfterQuietPass)
  BY CacheInit, CacheStep, CacheSafe, PTL DEF Cache!Spec

LEMMA CacheBeside == Spec => Cache!Spec
<1>1. Init => Cache!Init
  BY DEF Init
<1>2. [Next]_allVars => [Cache!Next]_(Cache!vars)
  BY DEF Next, allVars, cacheVars, Cache!vars
<1> QED
  BY <1>1, <1>2, PTL DEF Spec, Cache!Spec

\* After a pass that nothing disturbed the cache holds what the server holds, but for headers of a
\* recreated mailbox where no validity was known to compare with.
THEOREM MailMirrors == Spec => []MirrorsAfterQuietPass
<1>1. Cache!TypeOK /\ Cache!MirrorsAfterQuietPass => MirrorsAfterQuietPass
  BY DEF MirrorsAfterQuietPass
<1> QED
  BY <1>1, CacheBeside, QuietPassMirrors, PTL

-----------------------------------------------------------------------------
(* The content of one message.  A stylesheet is cached as it was served,   *)
(* so its text names remote origins for a while; whoever put it there has  *)
(* still to go over every stylesheet of the message, and leaves none       *)
(* behind before the cached text names nothing remote, unless ended first. *)

\* a call under way
Asking(k) ==
  /\ DOMAIN k = {"at", "refresh", "worked", "todo", "work", "out", "sheets", "refs", "left", "css"}
  /\ k.at \in {"top", "nested", "sheet"}
  /\ k.sheets \subseteq Content!Stylesheets /\ k.refs \subseteq Content!Urls
  /\ k.css \in Content!Row
  /\ k.at = "top" =>
       k.sheets = Content!Stylesheets /\ k.todo \cup k.work \cup k.out \subseteq Content!TopLevel

ContentTyped ==
  /\ Content!TypeOK
  /\ pcCall = [c \in Callers |-> pcCall[c]]
  /\ \A c \in Callers : pcCall[c] = Content!Idle \/ Asking(pcCall[c])

\* some call has still to go over the stylesheet under u
Pending(u) ==
  \E c \in Callers : pcCall[c] # Content!Idle /\ \E i \in pcCall[c].sheets : Inventory[i].url = u

\* a linked stylesheet that names remote origins though no call was ended over it
Raw(u) ==
  /\ u \in DOMAIN cache /\ cache[u].remote # {} /\ u \notin abandoned
  /\ \E i \in Content!Stylesheets : Inventory[i].url = u

RawIsPending == \A u : Raw(u) => cache[u].ok /\ cache[u].css /\ Pending(u)

ContentInv == ContentTyped /\ RawIsPending

LEMMA TopLevelUrls ==
  /\ Content!TopLevel \subseteq Content!Urls
  /\ \A i \in Content!Stylesheets : Inventory[i].url \in Content!Urls
<1>1. Content!Candidates \subseteq DOMAIN Inventory
  BY DEF Content!Candidates
<1> QED
  BY <1>1 DEF Content!TopLevel, Content!Stylesheets, Content!Urls

LEMMA BodyOf ==
  ASSUME NEW u
  PROVE  /\ Content!Body(u) \in Content!Row /\ Content!Negative \in Content!Row /\ Content!Usable \in Content!Row
         /\ Content!Body(u).ok /\ Content!Negative.remote = {} /\ Content!Usable.remote = {}
         /\ Content!Body(u).remote # {} => Content!Body(u).css
<1>1. Content!Usable \in Content!Row /\ Content!Usable.remote = {} /\ Content!Usable.ok
  BY DEF Content!Usable, Content!Row
<1>2. Content!Negative \in Content!Row /\ Content!Negative.remote = {}
  BY DEF Content!Negative, Content!Usable, Content!Row
<1>3. CASE u \in DOMAIN Sheet
  <2>1. Sheet[u] \subseteq Content!Urls
    BY <1>3 DEF Content!Urls
  <2>2. Content!Body(u) = [ok |-> TRUE, css |-> TRUE, remote |-> Sheet[u], local |-> {}, lost |-> {}]
    BY <1>3 DEF Content!Body, Content!Usable
  <2> QED
    BY <1>1, <1>2, <2>1, <2>2 DEF Content!Row
<1>4. CASE u \notin DOMAIN Sheet
  BY <1>1, <1>2, <1>4 DEF Content!Body
<1> QED
  BY <1>3, <1>4

LEMMA ContentInit == Content!Init => ContentInv
<1> SUFFICES ASSUME Content!Init PROVE ContentInv
  OBVIOUS
<1>1. DOMAIN cache = {} /\ sent = {} /\ abandoned = {} /\ pcCall = [c \in Callers |-> Content!Idle]
  BY DEF Content!Init
<1> QED
  BY <1>1 DEF ContentInv, ContentTyped, RawIsPending, Raw, Content!TypeOK

LEMMA RestKept == Content!Kept => \A u : Raw(u)' <=> Raw(u)
  BY DEF Content!Kept, Raw

\* A step of c that takes no stylesheet off its list, or one whose cached text names nothing
\* remote, and puts no text that does unless all stylesheets are still on the list.
LEMMA ContentChanges ==
  ASSUME ContentInv, Content!TypeOK', NEW c \in Callers, NEW k, k = Content!Idle \/ Asking(k),
         Content!Goes(c, k),
         \A u : Raw(u)' =>
           /\ cache'[u].ok /\ cache'[u].css
           /\ Raw(u) \/ (k # Content!Idle /\ \E i \in k.sheets : Inventory[i].url = u),
         \A u : Raw(u)' => \A i \in pcCall[c].sheets :
           pcCall[c] # Content!Idle /\ Inventory[i].url = u => k # Content!Idle /\ i \in k.sheets
  PROVE  ContentInv'
<1> USE DEF ContentInv
<1>1. pcCall' = [pcCall EXCEPT ![c] = k]
  BY DEF Content!Goes
<1>2. DOMAIN pcCall = Callers
  BY DEF ContentTyped
<1>3. pcCall'[c] = k /\ \A d \in Callers : d # c => pcCall'[d] = pcCall[d]
  BY <1>1, <1>2
<1>4. ContentTyped'
  <2>1. pcCall' = [d \in Callers |-> pcCall'[d]]
    BY <1>1, <1>2
  <2>2. ASSUME NEW d \in Callers PROVE pcCall'[d] = Content!Idle \/ Asking(pcCall'[d])
    <3>1. CASE d = c
      BY <1>3, <3>1
    <3>2. CASE d # c
      BY <1>3, <3>2 DEF ContentTyped
    <3> QED
      BY <3>1, <3>2
  <2>3. \A d \in Callers : pcCall'[d] = Content!Idle \/ Asking(pcCall[d])'
    BY <2>2 DEF Asking
  <2> QED
    BY <2>1, <2>3 DEF ContentTyped
<1>5. ASSUME NEW u, Raw(u)'
      PROVE  cache'[u].ok /\ cache'[u].css /\ Pending(u)'
  <2>1. CASE k # Content!Idle /\ \E i \in k.sheets : Inventory[i].url = u
    BY <1>3, <1>5, <2>1 DEF Pending
  <2>2. CASE Raw(u)
    <3>1. PICK d \in Callers : pcCall[d] # Content!Idle /\ \E i \in pcCall[d].sheets : Inventory[i].url = u
      BY <2>2 DEF RawIsPending, Pending
    <3>2. CASE d = c
      BY <1>3, <1>5, <3>1, <3>2 DEF Pending
    <3>3. CASE d # c
      BY <1>3, <1>5, <3>1, <3>3 DEF Pending
    <3> QED
      BY <3>2, <3>3
  <2> QED
    BY <1>5, <2>1, <2>2
<1>6. \A u : Raw(u)' => cache'[u].ok /\ cache'[u].css /\ Pending(u)'
  BY <1>5
<1> QED
  BY <1>4, <1>6 DEF RawIsPending

LEMMA PutChanges ==
  ASSUME Content!TypeOK, NEW u \in Content!Urls, NEW r \in Content!Row, Content!Put(u, r), UNCHANGED sent
  PROVE  /\ Content!TypeOK'
         /\ Raw(u)' => r.remote # {} /\ cache'[u] = r
         /\ \A v : v # u /\ Raw(v)' => Raw(v) /\ cache'[v] = cache[v]
<1>1. DOMAIN cache \subseteq Content!Urls /\ \A v \in DOMAIN cache : cache[v] \in Content!Row
  BY DEF Content!TypeOK
<1>2. /\ cache' = [v \in DOMAIN cache \cup {u} |-> IF v = u THEN r ELSE cache[v]]
      /\ abandoned' = abandoned \ {u}
  BY DEF Content!Put
<1>3. Content!TypeOK'
  BY <1>1, <1>2 DEF Content!TypeOK
<1> QED
  BY <1>2, <1>3 DEF Raw

LEMMA DropChanges ==
  ASSUME Content!TypeOK, NEW us, Content!Drop(us), UNCHANGED sent
  PROVE  Content!TypeOK' /\ \A v : Raw(v)' => Raw(v) /\ cache'[v] = cache[v]
<1>1. DOMAIN cache \subseteq Content!Urls /\ \A v \in DOMAIN cache : cache[v] \in Content!Row
  BY DEF Content!TypeOK
<1>2. cache' = [v \in DOMAIN cache \ us |-> cache[v]] /\ abandoned' = abandoned \ us
  BY DEF Content!Drop
<1>3. Content!TypeOK'
  BY <1>1, <1>2 DEF Content!TypeOK
<1> QED
  BY <1>2, <1>3 DEF Raw

LEMMA AskingOf ==
  ASSUME ContentTyped, NEW c \in Callers, pcCall[c].at # "idle"
  PROVE  pcCall[c] # Content!Idle /\ Asking(pcCall[c])
  BY DEF ContentTyped, Content!Idle

\* the top level, where every stylesheet is still to be gone over
LEMMA FetchKeeps ==
  ASSUME ContentInv, NEW c \in Callers, NEW refresh \in BOOLEAN, Content!Fetch(c, refresh)
  PROVE  ContentInv'
<1> USE DEF ContentInv
<1> DEFINE k == [at |-> "top", refresh |-> refresh, worked |-> FALSE, todo |-> Content!TopLevel,
                 work |-> {}, out |-> {}, sheets |-> Content!Stylesheets, refs |-> {}, left |-> 0,
                 css |-> Content!Negative]
           us == IF refresh THEN Content!TopLevel ELSE {}
<1>1. pcCall[c] = Content!Idle /\ Content!Goes(c, k) /\ Content!Drop(us) /\ UNCHANGED sent
  BY DEF Content!Fetch
<1>2. Asking(k)
  BY BodyOf DEF Asking
<1> HIDE DEF k, us
<1>3. Content!TypeOK' /\ \A v : Raw(v)' => Raw(v) /\ cache'[v] = cache[v]
  BY <1>1, DropChanges DEF ContentTyped
<1>4. \A v : Raw(v)' => cache'[v].ok /\ cache'[v].css /\ Raw(v)
  BY <1>3 DEF RawIsPending
<1> QED
  BY <1>1, <1>2, <1>3, <1>4, ContentChanges

\* a step of c that leaves the cache alone and takes nothing off its list
LEMMA CacheKept ==
  ASSUME ContentInv, Content!TypeOK', Content!Kept, NEW c \in Callers, NEW k,
         Asking(k) /\ k # Content!Idle, Content!Goes(c, k),
         pcCall[c] # Content!Idle => k.sheets = pcCall[c].sheets
  PROVE  ContentInv'
<1>1. \A u : Raw(u)' => Raw(u) /\ cache'[u].ok /\ cache'[u].css
  BY RestKept DEF ContentInv, RawIsPending, Content!Kept
<1> QED
  BY <1>1, ContentChanges

LEMMA LookKeeps ==
  ASSUME ContentInv, NEW c \in Callers, NEW u, Content!Look(c, u)
  PROVE  ContentInv'
<1> USE DEF ContentInv
<1> DEFINE k == [pcCall[c] EXCEPT !.todo = @ \ {u}, !.work = IF Content!Held(u) THEN @ ELSE @ \cup {u},
                                  !.worked = @ \/ ~Content!Held(u)]
<1>1. /\ pcCall[c].at = "top" /\ u \in pcCall[c].todo /\ Content!Goes(c, k) /\ Content!Kept /\ UNCHANGED sent
  BY DEF Content!Look
<1>2. pcCall[c] # Content!Idle /\ Asking(pcCall[c])
  BY <1>1, AskingOf
<1>3. u \in Content!TopLevel
  BY <1>1, <1>2 DEF Asking
<1>4. k.sheets = pcCall[c].sheets /\ Asking(k) /\ k # Content!Idle
  BY <1>1, <1>2, <1>3 DEF Asking, Content!Idle
<1> HIDE DEF k
<1>5. Content!TypeOK'
  BY <1>1 DEF ContentTyped, Content!TypeOK, Content!Kept
<1> QED
  BY <1>1, <1>2, <1>4, <1>5, CacheKept

\* a call that gets on with what it fetches
LEMMA Onward ==
  ASSUME NEW q, Asking(q), NEW k, DOMAIN k = DOMAIN q,
         k.at = q.at, k.todo = q.todo, k.sheets = q.sheets, k.refs = q.refs, k.css = q.css,
         k.work \cup k.out \subseteq q.work \cup q.out
  PROVE  Asking(k) /\ k # Content!Idle
<1>1. Asking(k)
  BY DEF Asking
<1> QED
  BY <1>1 DEF Asking, Content!Idle

LEMMA SendKeeps ==
  ASSUME ContentInv, NEW c \in Callers, NEW u \in Content!Urls, Content!Send(c, u)
  PROVE  ContentInv'
<1> USE DEF ContentInv
<1> PICK q : q = pcCall[c]
  OBVIOUS
<1>1. /\ q.at \in {"top", "nested"} /\ u \in q.work /\ Content!Goes(c, [q EXCEPT !.out = @ \cup {u}])
      /\ Content!Kept /\ sent' = {<<u, "render">>}
  BY DEF Content!Send, Content!Busy
<1>2. q # Content!Idle /\ Asking(q)
  BY <1>1, AskingOf
<1> DEFINE k == [q EXCEPT !.out = @ \cup {u}]
<1>3. /\ DOMAIN k = DOMAIN q /\ k.work = q.work /\ k.out = q.out \cup {u} /\ k.at = q.at /\ k.todo = q.todo
      /\ k.sheets = q.sheets /\ k.refs = q.refs /\ k.css = q.css
  BY <1>2 DEF Asking
<1>4. k.sheets = q.sheets /\ Asking(k) /\ k # Content!Idle
  <2>1. k.work \cup k.out \subseteq q.work \cup q.out
    BY <1>1, <1>3
  <2> HIDE DEF k
  <2>2. Asking(k) /\ k # Content!Idle
    BY <1>2, <1>3, <2>1, Onward
  <2> QED
    BY <1>3, <2>2
<1>5. Content!TypeOK'
  BY <1>1 DEF ContentTyped, Content!TypeOK, Content!Kept
<1>6. Content!Goes(c, k)
  BY <1>1
<1> HIDE DEF k
<1> QED
  BY <1>1, <1>2, <1>4, <1>5, <1>6, CacheKept

\* an error, or what a stylesheet names, is put where it was asked for
LEMMA LandedKeeps ==
  ASSUME ContentInv, NEW c \in Callers, NEW u \in Content!Urls,
         \/ Content!Refuse(c, u) \/ Content!GiveUp(c, u) \/ Content!Land(c, u) \/ Content!StoreNested(c, u)
  PROVE  ContentInv'
<1> USE DEF ContentInv
<1>1. /\ pcCall[c].at \in {"top", "nested"} /\ UNCHANGED sent
      /\ \/ Content!Goes(c, [pcCall[c] EXCEPT !.work = @ \ {u}])
         \/ Content!Goes(c, [pcCall[c] EXCEPT !.work = @ \ {u}, !.out = @ \ {u}])
  BY DEF Content!Refuse, Content!GiveUp, Content!Land, Content!StoreNested, Content!Landed, Content!Busy
<1>2. PICK r : /\ Content!Put(u, r)
               /\ \/ r \in {Content!Negative, Content!Usable}
                  \/ r = Content!Body(u) /\ pcCall[c].at = "top" /\ u \in pcCall[c].out
  BY DEF Content!Refuse, Content!GiveUp, Content!Land, Content!StoreNested, Content!Landed
<1>3. pcCall[c] # Content!Idle /\ Asking(pcCall[c])
  BY <1>1, AskingOf
<1>4. PICK k : k.sheets = pcCall[c].sheets /\ Asking(k) /\ k # Content!Idle /\ Content!Goes(c, k)
  <2> PICK q : q = pcCall[c]
    OBVIOUS
  <2>1. PICK k : /\ Content!Goes(c, k)
                 /\ \/ k = [q EXCEPT !.work = @ \ {u}]
                    \/ k = [q EXCEPT !.work = @ \ {u}, !.out = @ \ {u}]
    BY <1>1
  <2>2. /\ DOMAIN k = DOMAIN q /\ k.work \cup k.out \subseteq q.work \cup q.out /\ k.at = q.at
        /\ k.todo = q.todo /\ k.sheets = q.sheets /\ k.refs = q.refs /\ k.css = q.css
    <3>1. CASE k = [q EXCEPT !.work = @ \ {u}]
      BY <1>3, <3>1 DEF Asking
    <3>2. CASE k = [q EXCEPT !.work = @ \ {u}, !.out = @ \ {u}]
      <4>1. k.work = q.work \ {u} /\ k.out = q.out \ {u}
        BY <1>3, <3>2 DEF Asking
      <4> QED
        BY <1>3, <3>2, <4>1 DEF Asking
    <3> QED
      BY <2>1, <3>1, <3>2
  <2> QED
    BY <1>3, <2>1, <2>2, Onward
<1>5. r \in Content!Row
  BY <1>2, BodyOf
<1>6. /\ Content!TypeOK'
      /\ Raw(u)' => r.remote # {} /\ cache'[u] = r
      /\ \A v : v # u /\ Raw(v)' => Raw(v) /\ cache'[v] = cache[v]
  BY <1>1, <1>2, <1>5, PutChanges DEF ContentTyped
<1>7. Raw(u)' => r.ok /\ r.css /\ cache'[u] = r /\ \E i \in k.sheets : Inventory[i].url = u
  <2> SUFFICES ASSUME Raw(u)' PROVE r.ok /\ r.css /\ cache'[u] = r /\ \E i \in k.sheets : Inventory[i].url = u
    OBVIOUS
  <2>1. r.remote # {} /\ cache'[u] = r /\ \E i \in Content!Stylesheets : Inventory[i].url = u
    BY <1>6 DEF Raw
  <2>2. r = Content!Body(u) /\ pcCall[c].at = "top"
    BY <1>2, <2>1, BodyOf
  <2>3. pcCall[c].sheets = Content!Stylesheets
    BY <1>3, <2>2 DEF Asking
  <2> QED
    BY <1>4, <2>1, <2>2, <2>3, BodyOf
<1>8. \A v : Raw(v)' =>
        /\ cache'[v].ok /\ cache'[v].css
        /\ Raw(v) \/ (k # Content!Idle /\ \E i \in k.sheets : Inventory[i].url = v)
  <2> TAKE v
  <2>1. CASE v = u
    BY <1>4, <1>7, <2>1
  <2>2. CASE v # u
    BY <1>6, <2>2 DEF RawIsPending
  <2> QED
    BY <2>1, <2>2
<1> QED
  BY <1>4, <1>6, <1>8, ContentChanges

LEMMA DecoysKeep ==
  ASSUME ContentInv, NEW c \in Callers, Content!Decoys(c)
  PROVE  ContentInv'
<1> USE DEF ContentInv
<1> PICK q : q = pcCall[c]
  OBVIOUS
<1>1. PICK n : /\ q.at = "top" /\ Content!Goes(c, [q EXCEPT !.at = "sheet", !.left = n])
               /\ Content!Kept
  BY DEF Content!Decoys
<1>2. q # Content!Idle /\ Asking(q)
  BY <1>1, AskingOf
<1> DEFINE k == [q EXCEPT !.at = "sheet", !.left = n]
<1>3. k.sheets = q.sheets /\ Asking(k) /\ k # Content!Idle /\ Content!Goes(c, k)
  BY <1>1, <1>2 DEF Asking, Content!Idle
<1> HIDE DEF k
<1>4. \A us \in Content!Some(Content!TopLevel, MaxDecoys) : us \subseteq Content!Urls
  BY TopLevelUrls DEF Content!Some
<1>5. sent' \subseteq Content!Urls \X {"render", "decoy"}
  BY <1>4 DEF Content!Decoys, ContentTyped, Content!TypeOK
<1>6. Content!TypeOK'
  BY <1>1, <1>5 DEF ContentTyped, Content!TypeOK, Content!Kept
<1> QED
  BY <1>1, <1>2, <1>3, <1>6, CacheKept

\* the stylesheets, one after the other
LEMMA RenderKeeps ==
  ASSUME ContentInv, NEW c \in Callers, Content!Render(c)
  PROVE  ContentInv'
<1> USE DEF ContentInv
<1>1. PICK n : /\ pcCall[c] = Content!Idle /\ Content!Kept /\ UNCHANGED sent
               /\ Content!Goes(c, [at |-> "sheet", refresh |-> FALSE, worked |-> FALSE, todo |-> {},
                     work |-> {}, out |-> {}, sheets |-> Content!Stylesheets, refs |-> {},
                     css |-> Content!Negative, left |-> n])
  BY DEF Content!Render
<1> DEFINE k == [at |-> "sheet", refresh |-> FALSE, worked |-> FALSE, todo |-> {}, work |-> {}, out |-> {},
                 sheets |-> Content!Stylesheets, refs |-> {}, css |-> Content!Negative, left |-> n]
<1>2. Asking(k) /\ k # Content!Idle /\ Content!Goes(c, k)
  BY <1>1, BodyOf DEF Asking, Content!Idle
<1> HIDE DEF k
<1>3. Content!TypeOK'
  BY <1>1 DEF ContentTyped, Content!TypeOK, Content!Kept
<1> QED
  BY <1>1, <1>2, <1>3, CacheKept

\* a stylesheet taken off the list of c whose row, if it has one, names nothing remote
LEMMA DoneKeeps ==
  ASSUME ContentInv, Content!TypeOK', NEW c \in Callers, NEW i \in pcCall[c].sheets,
         pcCall[c].at = "sheet", Content!Done(c, i), ~Raw(Inventory[i].url)',
         \A v : Raw(v)' => Raw(v) /\ cache'[v] = cache[v]
  PROVE  ContentInv'
<1> USE DEF ContentInv
<1> PICK q : q = pcCall[c]
  OBVIOUS
<1>1. q # Content!Idle /\ Asking(q)
  BY AskingOf
<1> DEFINE k == [q EXCEPT !.sheets = @ \ {i}]
<1>2. k.sheets = q.sheets \ {i} /\ Asking(k) /\ k # Content!Idle /\ Content!Goes(c, k)
  BY <1>1 DEF Asking, Content!Idle, Content!Done
<1> HIDE DEF k
<1>3. \A u : Raw(u)' => \A j \in q.sheets : Inventory[j].url = u => j \in k.sheets
  BY <1>2
<1>4. \A u : Raw(u)' => cache'[u].ok /\ cache'[u].css /\ Raw(u)
  BY DEF RawIsPending
<1> QED
  BY <1>2, <1>3, <1>4, ContentChanges

LEMMA SkipSheetKeeps ==
  ASSUME ContentInv, NEW c \in Callers, NEW i, Content!SkipSheet(c, i)
  PROVE  ContentInv'
<1> USE DEF ContentInv
<1>1. /\ pcCall[c].at = "sheet" /\ i \in pcCall[c].sheets /\ UNCHANGED sent /\ Content!Done(c, i) /\ Content!Kept
      /\ ~(Content!Good(Inventory[i].url) /\ cache[Inventory[i].url].css)
  BY DEF Content!SkipSheet, Content!Turn
<1>2. Content!TypeOK'
  BY <1>1 DEF ContentTyped, Content!TypeOK, Content!Kept
<1>3. \A v : Raw(v)' => Raw(v) /\ cache'[v] = cache[v]
  BY <1>1, RestKept DEF Content!Kept
<1>4. ~Raw(Inventory[i].url)
  BY <1>1 DEF RawIsPending, Raw, Content!Good, Content!Held
<1> QED
  BY <1>1, <1>2, <1>3, <1>4, DoneKeeps

LEMMA DropSheetKeeps ==
  ASSUME ContentInv, NEW c \in Callers, NEW i, Content!DropSheet(c, i)
  PROVE  ContentInv'
<1> USE DEF ContentInv
<1>1. /\ pcCall[c].at = "sheet" /\ i \in pcCall[c].sheets /\ UNCHANGED sent /\ Content!Done(c, i)
      /\ Content!Put(Inventory[i].url, Content!Negative)
  BY DEF Content!DropSheet, Content!Turn
<1>2. Inventory[i].url \in Content!Urls
  BY <1>1, AskingOf, TopLevelUrls DEF Asking
<1>3. /\ Content!TypeOK' /\ ~Raw(Inventory[i].url)'
      /\ \A v : v # Inventory[i].url /\ Raw(v)' => Raw(v) /\ cache'[v] = cache[v]
  BY <1>1, <1>2, BodyOf, PutChanges DEF ContentTyped
<1>4. \A v : Raw(v)' => Raw(v) /\ cache'[v] = cache[v]
  BY <1>3
<1> QED
  BY <1>1, <1>3, <1>4, DoneKeeps

LEMMA OpenSheetKeeps ==
  ASSUME ContentInv, NEW c \in Callers, NEW i, Content!OpenSheet(c, i)
  PROVE  ContentInv'
<1> USE DEF ContentInv
<1> PICK q : q = pcCall[c]
  OBVIOUS
<1> DEFINE s == Inventory[i].url
<1>1. q.at = "sheet" /\ i \in q.sheets /\ UNCHANGED sent /\ s \in DOMAIN cache
  BY DEF Content!OpenSheet, Content!Turn, Content!Good, Content!Held
<1>2. q # Content!Idle /\ Asking(q)
  BY <1>1, AskingOf
<1>3. PICK refs, us, work, left :
        /\ refs \subseteq cache[s].remote /\ Content!Drop(us)
        /\ Content!Goes(c, [q EXCEPT !.at = "nested", !.css = cache[s], !.refs = refs,
                                    !.left = left, !.work = work])
  BY DEF Content!OpenSheet, Content!Some
<1> DEFINE k == [q EXCEPT !.at = "nested", !.css = cache[s], !.refs = refs, !.left = left, !.work = work]
<1>4. /\ DOMAIN k = DOMAIN q /\ k.at = "nested" /\ k.sheets = q.sheets /\ k.refs = refs
      /\ k.css = cache[s] /\ Content!Goes(c, k)
  BY <1>2, <1>3 DEF Asking
<1> HIDE DEF k
<1>5. cache[s] \in Content!Row /\ refs \subseteq Content!Urls
  BY <1>1, <1>3 DEF ContentTyped, Content!TypeOK, Content!Row
<1>6. Asking(k) /\ k # Content!Idle
  BY <1>2, <1>4, <1>5 DEF Asking, Content!Idle
<1>7. Content!TypeOK' /\ \A v : Raw(v)' => Raw(v) /\ cache'[v] = cache[v]
  BY <1>1, <1>3, DropChanges DEF ContentTyped
<1>8. \A u : Raw(u)' => cache'[u].ok /\ cache'[u].css /\ Raw(u)
  BY <1>7 DEF RawIsPending
<1> QED
  BY <1>2, <1>4, <1>6, <1>7, <1>8, ContentChanges

LEMMA RewriteKeeps ==
  ASSUME ContentInv, NEW c \in Callers, Content!Rewrite(c)
  PROVE  ContentInv'
<1> USE DEF ContentInv
<1> PICK q : q = pcCall[c]
  OBVIOUS
<1>1. q.at = "nested" /\ UNCHANGED sent
  BY DEF Content!Rewrite
<1>2. q # Content!Idle /\ Asking(q)
  BY <1>1, AskingOf
<1>3. PICK i \in q.sheets :
        /\ Content!Put(Inventory[i].url, Content!Rewritten(c))
        /\ Content!Goes(c, [q EXCEPT !.at = "sheet", !.sheets = @ \ {i}, !.refs = {}, !.css = Content!Negative])
  BY DEF Content!Rewrite
<1> DEFINE k == [q EXCEPT !.at = "sheet", !.sheets = @ \ {i}, !.refs = {}, !.css = Content!Negative]
           u == Inventory[i].url
           r == Content!Rewritten(c)
<1>4. Content!Goes(c, k) /\ Content!Put(u, r)
  BY <1>3
<1>5. /\ DOMAIN k = DOMAIN q /\ k.at = "sheet" /\ k.sheets = q.sheets \ {i} /\ k.refs = {}
      /\ k.css = Content!Negative
  BY <1>2 DEF Asking
<1>6. r.remote = {} /\ r \in Content!Row /\ u \in Content!Urls
  <2>1. q.refs \subseteq Content!Urls /\ q.css \in Content!Row /\ i \in Content!Stylesheets
    BY <1>2 DEF Asking
  <2>2. q.css.local \subseteq Content!Urls /\ q.css.lost \subseteq Content!Urls
    BY <2>1 DEF Content!Row
  <2> DEFINE usable == {v \in q.refs : Content!Good(v)}
  <2>3. r = [ok |-> TRUE, css |-> TRUE, remote |-> {}, local |-> q.css.local \cup usable, lost |-> q.css.lost \cup (q.refs \ usable)]
    BY DEF Content!Rewritten
  <2>4. usable \subseteq Content!Urls
    BY <2>1
  <2> HIDE DEF usable, r
  <2> QED
    BY <2>1, <2>2, <2>3, <2>4, TopLevelUrls DEF Content!Row
<1> HIDE DEF k, u, r
<1>7. Asking(k) /\ k # Content!Idle
  BY <1>2, <1>5, BodyOf DEF Asking, Content!Idle
<1>8. /\ Content!TypeOK' /\ ~Raw(u)'
      /\ \A v : v # u /\ Raw(v)' => Raw(v) /\ cache'[v] = cache[v]
  BY <1>1, <1>4, <1>6, PutChanges DEF ContentTyped
<1>9. \A v : Raw(v)' => v # u /\ cache'[v].ok /\ cache'[v].css /\ Raw(v)
  BY <1>8 DEF RawIsPending
<1>10. \A v : Raw(v)' => \A j \in q.sheets : Inventory[j].url = v => j \in k.sheets
  BY <1>5, <1>9 DEF u
<1> QED
  BY <1>4, <1>7, <1>8, <1>9, <1>10, ContentChanges

LEMMA ReturnKeeps ==
  ASSUME ContentInv, NEW c \in Callers, Content!Return(c)
  PROVE  ContentInv'
<1> USE DEF ContentInv
<1>1. pcCall[c].sheets = {} /\ Content!Goes(c, Content!Idle) /\ Content!Kept /\ UNCHANGED sent
  BY DEF Content!Return
<1>2. Content!TypeOK'
  BY <1>1 DEF ContentTyped, Content!TypeOK, Content!Kept
<1>3. \A u : Raw(u)' => Raw(u) /\ cache'[u].ok /\ cache'[u].css
  BY <1>1, RestKept DEF RawIsPending, Content!Kept
<1> QED
  BY <1>1, <1>2, <1>3, ContentChanges

\* what a call that is ended had still to go over is abandoned
LEMMA EndKeeps ==
  ASSUME ContentInv, NEW c \in Callers, Content!End(c)
  PROVE  ContentInv'
<1> USE DEF ContentInv
<1>1. /\ Content!Goes(c, Content!Idle) /\ UNCHANGED <<cache, sent>>
      /\ abandoned' = abandoned \cup {u \in DOMAIN cache :
                         cache[u].remote # {} /\ \E i \in pcCall[c].sheets : Inventory[i].url = u}
  BY DEF Content!End
<1>2. Content!TypeOK'
  BY <1>1 DEF ContentTyped, Content!TypeOK
<1>3. \A u : Raw(u)' => Raw(u) /\ ~\E i \in pcCall[c].sheets : Inventory[i].url = u
  BY <1>1 DEF Raw
<1>4. \A u : Raw(u)' => cache'[u].ok /\ cache'[u].css /\ Raw(u)
  BY <1>1, <1>3 DEF RawIsPending
<1> QED
  BY <1>1, <1>2, <1>3, <1>4, ContentChanges

LEMMA ContentStep == ContentInv /\ [Content!Next]_(Content!vars) => ContentInv'
<1> SUFFICES ASSUME ContentInv, [Content!Next]_(Content!vars) PROVE ContentInv'
  OBVIOUS
<1>1. CASE UNCHANGED <<cache, pcCall, sent, abandoned>>
  BY <1>1 DEF ContentInv, ContentTyped, Asking, RawIsPending, Raw, Pending, Content!TypeOK
<1>2. CASE Content!Configure \/ \E u \in Content!Urls : Content!Serve(u)
  BY <1>1, <1>2 DEF Content!Configure, Content!Serve, Content!Kept
<1>3. CASE UNCHANGED Content!vars
  BY <1>1, <1>3 DEF Content!vars
<1>4. ASSUME NEW c \in Callers,
             \/ Content!Ask(c)
             \/ \E u \in Content!Urls : \/ Content!Look(c, u) \/ Content!Send(c, u) \/ Content!Refuse(c, u)
                                       \/ Content!GiveUp(c, u) \/ Content!Land(c, u) \/ Content!StoreNested(c, u)
             \/ \E i \in DOMAIN Inventory :
                  Content!SkipSheet(c, i) \/ Content!DropSheet(c, i) \/ Content!OpenSheet(c, i)
             \/ Content!Decoys(c) \/ Content!Rewrite(c) \/ Content!Return(c) \/ Content!End(c)
      PROVE  ContentInv'
  BY <1>4, FetchKeeps, RenderKeeps, LookKeeps, SendKeeps, LandedKeeps, DecoysKeep, SkipSheetKeeps,
     DropSheetKeeps, OpenSheetKeeps, RewriteKeeps, ReturnKeeps, EndKeeps DEF Content!Ask
<1> QED
  BY <1>2, <1>3, <1>4 DEF Content!Next

LEMMA ContentSafe == ContentInv => Content!TypeOK /\ Content!CachedCssIsLocal
  BY DEF ContentInv, ContentTyped, RawIsPending, Raw, Pending, Content!CachedCssIsLocal, Content!Held

\* Whenever no call is under way, no cached stylesheet of the message names a remote origin,
\* whatever the calls overwrote, deleted or fetched raw under each other, except for one a call was
\* ended over and nothing has put again since (privacy_css_v969.py).
THEOREM NoRemoteOriginStays == Content!Spec => [](Content!TypeOK /\ Content!CachedCssIsLocal)
  BY ContentInit, ContentStep, ContentSafe, PTL DEF Content!Spec

LEMMA ContentBeside == Spec => Content!Spec
<1>1. Init => Content!Init
  BY DEF Init
<1>2. [Next]_allVars => [Content!Next]_(Content!vars)
  BY DEF Next, allVars, contentVars, Content!vars
<1> QED
  BY <1>1, <1>2, PTL DEF Spec, Content!Spec

\* The same of the run: what no call was ended over names no remote origin.
THEOREM MailCssIsLocal == Spec => []CachedCssIsLocal
<1>1. Content!TypeOK /\ Content!CachedCssIsLocal => CachedCssIsLocal
  BY DEF CachedCssIsLocal
<1> QED
  BY <1>1, ContentBeside, NoRemoteOriginStays, PTL

-----------------------------------------------------------------------------
(* Arriving mail.  Where a pass stands is told by its messages yet to be   *)
(* read and the highest one read: what lies below either, is still there   *)
(* and is not to be read any more, has been processed.                     *)

\* one message a pass may meet, of account a
Reading(a, p) ==
  /\ DOMAIN p = {"at", "uids", "high", "uid", "count"}
  /\ p.at \in {"fetch", "count", "write", "suppress"}
  /\ p.uids \subseteq 1..arrived[a] /\ p.high \in mark[a]..arrived[a] /\ p.count \in Nat
  /\ p.at # "fetch" => p.uid \in Arrivals!ServerUids(a) /\ Mail[a][p.uid].to \in Arrivals!Recipients

AccountsTyped ==
  /\ \A a \in Accounts : arrived[a] \in 0..Len(Mail[a]) /\ gone[a] \subseteq Arrivals!ServerUids(a)
                         /\ mark[a] \in -1..Len(Mail[a])
  /\ arrived = [a \in Accounts |-> arrived[a]] /\ gone = [a \in Accounts |-> gone[a]]
  /\ mark = [a \in Accounts |-> mark[a]] /\ iwPass = [a \in Accounts |-> iwPass[a]]
  /\ done = [a \in Accounts |-> done[a]] /\ base \in [Accounts -> Int]

DeliveryRows ==
  [Deliveries -> [state : {"sent", "temporarily_failed", "bounced"},
     bounce : Arrivals!Hard \cup Arrivals!Soft \cup Arrivals!Other \cup {""},
     conversation : {"awaiting_reply", "bounced", "auto_reply", "replied"}]]

SuppressionRows == [Arrivals!Recipients -> [active : BOOLEAN, count : Nat, reason : Arrivals!Reasons]]

RowsTyped == delivery \in DeliveryRows /\ row \in SuppressionRows /\ hard \subseteq Arrivals!Recipients

ArrivalsTyped == AccountsTyped /\ RowsTyped

\* the account's mark and what lies below it
Marked(a) ==
  mark[a] # -1 =>
    /\ mark[a] \in base[a]..arrived[a]
    /\ \A u \in Arrivals!Live(a) : u > base[a] /\ u <= mark[a] => u \in done[a]

\* a pass under way and what lies below what it has read or is to read
Underway(a) ==
  iwPass[a] # Arrivals!Idle =>
    /\ mark[a] # -1 /\ Reading(a, iwPass[a])
    /\ \A u \in Arrivals!Live(a) :
         u > base[a] /\ (u <= iwPass[a].high \/ \E v \in iwPass[a].uids : u <= v)
           => u \in done[a] \cup iwPass[a].uids

ArrivalsInv ==
  /\ ArrivalsTyped
  /\ \A a \in Accounts : Marked(a) /\ Underway(a)
  /\ Arrivals!HardBounceHolds

LEMMA ItemOf ==
  ASSUME NEW S, NEW s \in Seq(S), NEW i \in 1..Len(s)
  PROVE  s[i] \in S
  OBVIOUS

LEMMA MailboxOf ==
  ASSUME NEW a \in Accounts
  PROVE  Len(Mail[a]) \in Nat /\ Len(Mail[a]) <= Limit /\ Limit \in Nat
  BY MailAssumption DEF Arrivals!InboundAssumption, Arrivals!BurstsFit

LEMMA MessageOf ==
  ASSUME NEW a \in Accounts, NEW u \in Arrivals!ServerUids(a)
  PROVE  /\ Mail[a][u].reads \in Arrivals!Hard \cup Arrivals!Soft \cup Arrivals!Other
         /\ Mail[a][u].to \in Arrivals!Recipients \cup {NoRecipient}
         /\ Mail[a][u].about \in Deliveries \cup {NoDelivery}
<1> DEFINE S == [report : BOOLEAN, reads : Arrivals!Hard \cup Arrivals!Soft \cup Arrivals!Other,
        to : Arrivals!Recipients \cup {NoRecipient}, envelope : Deliveries \cup {NoDelivery},
        about : Deliveries \cup {NoDelivery},
        marks : [submitted : STRING, bulk : BOOLEAN, vacation : BOOLEAN]]
<1>1. Mail[a] \in Seq(S)
  BY MailAssumption DEF Arrivals!InboundAssumption
<1>2. u \in 1..Len(Mail[a])
  BY DEF Arrivals!ServerUids
<1>3. Mail[a][u] \in S
  <2> HIDE DEF S
  <2> QED
    BY <1>1, <1>2, ItemOf
<1> QED
  BY <1>3

LEMMA ArrivalsInit == Arrivals!Init => ArrivalsInv
<1> SUFFICES ASSUME Arrivals!Init PROVE ArrivalsInv
  OBVIOUS
<1>1. /\ arrived = [a \in Accounts |-> 0] /\ gone = [a \in Accounts |-> {}]
      /\ mark = [a \in Accounts |-> -1] /\ iwPass = [a \in Accounts |-> Arrivals!Idle]
      /\ done = [a \in Accounts |-> {}] /\ base = [a \in Accounts |-> 0] /\ hard = {}
  BY DEF Arrivals!Init
<1>2. ASSUME NEW a \in Accounts
      PROVE  arrived[a] \in 0..Len(Mail[a]) /\ gone[a] \subseteq Arrivals!ServerUids(a) /\ mark[a] \in -1..Len(Mail[a])
  BY <1>1, MailboxOf
<1>3. delivery \in [Deliveries -> [state : {"sent", "temporarily_failed", "bounced"},
        bounce : Arrivals!Hard \cup Arrivals!Soft \cup Arrivals!Other \cup {""},
        conversation : {"awaiting_reply", "bounced", "auto_reply", "replied"}]]
  BY DEF Arrivals!Init
<1>4. row \in [Arrivals!Recipients -> [active : BOOLEAN, count : Nat, reason : Arrivals!Reasons]]
  BY DEF Arrivals!Init, Arrivals!NoRow, Arrivals!Reasons
<1>5. AccountsTyped
  BY <1>1, <1>2 DEF AccountsTyped
<1>6. ArrivalsTyped
  BY <1>1, <1>3, <1>4, <1>5 DEF ArrivalsTyped, RowsTyped, DeliveryRows, SuppressionRows
<1> QED
  BY <1>1, <1>6 DEF ArrivalsInv, Marked, Underway, Arrivals!HardBounceHolds

\* A step that concerns one account leaves what holds of the others.
LEMMA AtOneAccount ==
  ASSUME ArrivalsInv, NEW a \in Accounts, ArrivalsTyped', Arrivals!HardBounceHolds', Marked(a)', Underway(a)',
         \A b \in Accounts : b # a =>
           /\ arrived'[b] = arrived[b] /\ gone'[b] = gone[b] /\ mark'[b] = mark[b]
           /\ iwPass'[b] = iwPass[b] /\ done'[b] = done[b] /\ base'[b] = base[b]
  PROVE  ArrivalsInv'
<1>1. ASSUME NEW b \in Accounts PROVE (Marked(b) /\ Underway(b))'
  <2>1. CASE b = a
    BY <2>1
  <2>2. CASE b # a
    BY <2>2 DEF ArrivalsInv, Marked, Underway, Reading, Arrivals!Live
  <2> QED
    BY <2>1, <2>2
<1> QED
  BY <1>1 DEF ArrivalsInv

\* what an account's variables hold
LEMMA AccountOf ==
  ASSUME ArrivalsTyped, NEW a \in Accounts
  PROVE  /\ arrived[a] \in Nat /\ arrived[a] <= Len(Mail[a]) /\ gone[a] \subseteq Arrivals!ServerUids(a)
         /\ mark[a] \in Int /\ mark[a] >= -1 /\ mark[a] <= Len(Mail[a]) /\ base[a] \in Int
         /\ Len(Mail[a]) \in Nat /\ \A u \in Arrivals!Live(a) : u \in Nat /\ u >= 1 /\ u <= arrived[a]
<1>1. arrived[a] \in 0..Len(Mail[a]) /\ gone[a] \subseteq Arrivals!ServerUids(a) /\ mark[a] \in -1..Len(Mail[a])
  BY DEF ArrivalsTyped, AccountsTyped
<1>2. Len(Mail[a]) \in Nat /\ base[a] \in Int
  BY MailboxOf DEF ArrivalsTyped, AccountsTyped
<1>3. \A u \in Arrivals!Live(a) : u \in 1..arrived[a]
  BY DEF Arrivals!Live
<1> QED
  BY <1>1, <1>2, <1>3

LEMMA ArriveKeeps ==
  ASSUME ArrivalsInv, NEW a \in Accounts, Arrivals!Arrive(a)
  PROVE  ArrivalsInv'
<1>1. /\ arrived[a] < Len(Mail[a]) /\ arrived' = [arrived EXCEPT ![a] = arrived[a] + 1]
      /\ UNCHANGED <<gone, mark, iwPass, row, delivery, done, base, hard>>
  BY DEF Arrivals!Arrive, Arrivals!history
<1>2. arrived[a] \in Nat /\ Len(Mail[a]) \in Nat /\ mark[a] \in Int /\ base[a] \in Int
  BY AccountOf DEF ArrivalsInv
<1>3. arrived'[a] = arrived[a] + 1 /\ \A b \in Accounts : b # a => arrived'[b] = arrived[b]
  BY <1>1 DEF ArrivalsInv, ArrivalsTyped, AccountsTyped
<1>4. ArrivalsTyped'
  <2>1. ASSUME NEW b \in Accounts PROVE arrived'[b] \in 0..Len(Mail[b])
    <3>1. CASE b = a
      BY <1>1, <1>2, <1>3, <3>1
    <3>2. CASE b # a
      BY <1>3, <3>2 DEF ArrivalsInv, ArrivalsTyped, AccountsTyped
    <3> QED
      BY <3>1, <3>2
  <2>2. arrived' = [b \in Accounts |-> arrived'[b]]
    BY <1>1 DEF ArrivalsInv, ArrivalsTyped, AccountsTyped
  <2> QED
    BY <1>1, <2>1, <2>2 DEF ArrivalsInv, ArrivalsTyped, AccountsTyped, RowsTyped, Arrivals!ServerUids
<1>5. \A u \in Arrivals!Live(a)' : u \in Arrivals!Live(a) \/ u = arrived[a] + 1
  BY <1>1, <1>2, <1>3 DEF Arrivals!Live
<1>6. Marked(a)'
  BY <1>1, <1>2, <1>3, <1>5 DEF ArrivalsInv, Marked
<1>7. Underway(a)'
  <2> SUFFICES ASSUME iwPass[a] # Arrivals!Idle PROVE Underway(a)'
    BY <1>1 DEF Underway, Arrivals!Idle
  <2>1. Reading(a, iwPass[a])
    BY DEF ArrivalsInv, Underway
  <2>2. Reading(a, iwPass[a])'
    BY <1>1, <1>2, <1>3, <2>1 DEF Reading
  <2>3. ~(arrived[a] + 1 <= iwPass[a].high) /\ \A v \in iwPass[a].uids : ~(arrived[a] + 1 <= v)
    BY <1>2, <2>1 DEF Reading
  <2> QED
    BY <1>1, <1>5, <2>2, <2>3 DEF ArrivalsInv, Underway
<1>8. Arrivals!HardBounceHolds'
  BY <1>1 DEF ArrivalsInv, Arrivals!HardBounceHolds
<1> QED
  BY <1>1, <1>3, <1>4, <1>6, <1>7, <1>8, AtOneAccount

LEMMA InboxExpungeKeeps ==
  ASSUME ArrivalsInv, NEW a \in Accounts, NEW u, Arrivals!Expunge(a, u)
  PROVE  ArrivalsInv'
<1>1. /\ u \in Arrivals!Live(a) /\ gone' = [gone EXCEPT ![a] = gone[a] \cup {u}]
      /\ UNCHANGED <<arrived, mark, iwPass, row, delivery, done, base, hard>>
  BY DEF Arrivals!Expunge, Arrivals!history
<1>2. gone'[a] = gone[a] \cup {u} /\ \A b \in Accounts : b # a => gone'[b] = gone[b]
  BY <1>1 DEF ArrivalsInv, ArrivalsTyped, AccountsTyped
<1>3. u \in Arrivals!ServerUids(a)
  BY <1>1, AccountOf DEF ArrivalsInv, Arrivals!ServerUids
<1>4. ArrivalsTyped'
  BY <1>1, <1>2, <1>3 DEF ArrivalsInv, ArrivalsTyped, AccountsTyped, RowsTyped, Arrivals!ServerUids
<1>5. \A v \in Arrivals!Live(a)' : v \in Arrivals!Live(a)
  BY <1>1, <1>2 DEF Arrivals!Live
<1>6. Marked(a)'
  BY <1>1, <1>5 DEF ArrivalsInv, Marked
<1>7. Underway(a)'
  BY <1>1, <1>5 DEF ArrivalsInv, Underway, Reading, Arrivals!Idle
<1>8. Arrivals!HardBounceHolds'
  BY <1>1 DEF ArrivalsInv, Arrivals!HardBounceHolds
<1> QED
  BY <1>1, <1>2, <1>4, <1>6, <1>7, <1>8, AtOneAccount

LEMMA TakeMarkKeeps ==
  ASSUME ArrivalsInv, NEW a \in Accounts, Arrivals!TakeMark(a)
  PROVE  ArrivalsInv'
<1>1. PICK high \in Arrivals!Live(a) \cup {0} :
        /\ mark' = [mark EXCEPT ![a] = high] /\ base' = [base EXCEPT ![a] = high]
        /\ done' = [done EXCEPT ![a] = {}] /\ iwPass[a] = Arrivals!Idle
        /\ UNCHANGED <<arrived, gone, iwPass, row, delivery, hard>>
  BY DEF Arrivals!TakeMark, Arrivals!inbox
<1>2. high \in Nat /\ high <= arrived[a] /\ arrived[a] \in Nat /\ arrived[a] <= Len(Mail[a])
      /\ Len(Mail[a]) \in Nat
  BY AccountOf DEF ArrivalsInv
<1>3. /\ mark'[a] = high /\ base'[a] = high
      /\ \A b \in Accounts : b # a => mark'[b] = mark[b] /\ base'[b] = base[b] /\ done'[b] = done[b]
  BY <1>1 DEF ArrivalsInv, ArrivalsTyped, AccountsTyped
<1>4. ArrivalsTyped'
  <2>1. ASSUME NEW b \in Accounts PROVE mark'[b] \in -1..Len(Mail[b])
    <3>1. CASE b = a
      BY <1>1, <1>2, <1>3, <3>1
    <3>2. CASE b # a
      BY <1>3, <3>2 DEF ArrivalsInv, ArrivalsTyped, AccountsTyped
    <3> QED
      BY <3>1, <3>2
  <2>2. mark' = [b \in Accounts |-> mark'[b]]
    BY <1>1 DEF ArrivalsInv, ArrivalsTyped, AccountsTyped
  <2>3. base' \in [Accounts -> Int]
    BY <1>1, <1>2 DEF ArrivalsInv, ArrivalsTyped, AccountsTyped
  <2>4. done' = [b \in Accounts |-> done'[b]]
    BY <1>1 DEF ArrivalsInv, ArrivalsTyped, AccountsTyped
  <2> QED
    BY <1>1, <2>1, <2>2, <2>3, <2>4 DEF ArrivalsInv, ArrivalsTyped, AccountsTyped, RowsTyped, Arrivals!ServerUids
<1>5. Marked(a)'
  BY <1>1, <1>2, <1>3 DEF Marked, Arrivals!Live
<1>6. Underway(a)'
  BY <1>1 DEF Underway, Arrivals!Idle
<1>7. Arrivals!HardBounceHolds'
  BY <1>1 DEF ArrivalsInv, Arrivals!HardBounceHolds
<1> QED
  BY <1>1, <1>3, <1>4, <1>5, <1>6, <1>7, AtOneAccount

\* a burst fits in one pass: it leaves out no message it found
LEMMA NoneLeftOut ==
  ASSUME ArrivalsTyped, NEW a \in Accounts
  PROVE  Arrivals!LastOf(Arrivals!Fresh(a)) = Arrivals!Fresh(a)
<1> DEFINE above(u) == {v \in Arrivals!Fresh(a) : v > u}
<1>1. ASSUME NEW u \in Arrivals!Fresh(a) PROVE Arrivals!Cardinality(above(u)) < Limit
  <2>1. u \in Nat /\ u >= 1 /\ u <= arrived[a] /\ arrived[a] \in Nat /\ arrived[a] <= Len(Mail[a])
    BY <1>1, AccountOf DEF Arrivals!Fresh
  <2>2. above(u) \subseteq 2..arrived[a]
    <3>1. ASSUME NEW v \in Arrivals!Fresh(a), v > u PROVE v \in 2..arrived[a]
      <4>1. v \in Nat /\ v <= arrived[a]
        BY AccountOf DEF Arrivals!Fresh
      <4> QED
        BY <2>1, <3>1, <4>1
    <3> QED
      BY <3>1
  <2>3. IsFiniteSet(2..arrived[a]) /\ Cardinality(2..arrived[a]) = IF 2 > arrived[a] THEN 0 ELSE arrived[a] - 2 + 1
    <3>1. 2 \in Int /\ arrived[a] \in Int
      BY <2>1
    <3> QED
      BY <3>1, FS_Interval, Zenon
  <2>4. Cardinality(above(u)) <= Cardinality(2..arrived[a]) /\ Cardinality(above(u)) \in Nat
    BY <2>2, <2>3, FS_Subset, FS_CardinalityType
  <2>5. Arrivals!Cardinality(above(u)) = Cardinality(above(u))
    BY DEF Arrivals!Cardinality, Cardinality
  <2> QED
    BY <2>1, <2>3, <2>4, <2>5, MailboxOf
<1> QED
  BY <1>1 DEF Arrivals!LastOf

LEMMA StartPassKeeps ==
  ASSUME ArrivalsInv, NEW a \in Accounts, Arrivals!Start(a)
  PROVE  ArrivalsInv'
<1> PICK p : p = [at |-> "fetch", uids |-> Arrivals!Fresh(a), high |-> mark[a], uid |-> 0, count |-> 0]
  OBVIOUS
<1>1. /\ mark[a] # -1 /\ iwPass' = [iwPass EXCEPT ![a] = p]
      /\ UNCHANGED <<arrived, gone, mark, row, delivery, done, base, hard>>
  BY NoneLeftOut DEF ArrivalsInv, Arrivals!Start, Arrivals!inbox, Arrivals!history
<1>2. iwPass'[a] = p /\ \A b \in Accounts : b # a => iwPass'[b] = iwPass[b]
  BY <1>1 DEF ArrivalsInv, ArrivalsTyped, AccountsTyped
<1>3. ArrivalsTyped'
  BY <1>1, <1>2 DEF ArrivalsInv, ArrivalsTyped, AccountsTyped, RowsTyped, Arrivals!ServerUids
<1>4. Marked(a) /\ mark[a] \in Int /\ arrived[a] \in Nat
  BY AccountOf DEF ArrivalsInv
<1>5. Marked(a)'
  BY <1>1, <1>4 DEF Marked, Arrivals!Live
<1>6. /\ Arrivals!Fresh(a) \subseteq 1..arrived[a]
      /\ \A u \in Arrivals!Live(a) : u <= mark[a] \/ u \in Arrivals!Fresh(a)
  BY <1>4, AccountOf DEF ArrivalsInv, Arrivals!Fresh
<1>7. Reading(a, p)
  BY <1>1, <1>4, <1>6 DEF Reading, Marked
<1>8. \A u \in Arrivals!Live(a) : u > base[a] => u \in done[a] \cup p.uids
  BY <1>1, <1>4, <1>6 DEF Marked
<1>9. Reading(a, p)'
  BY <1>1, <1>7 DEF Reading
<1>10. Underway(a)'
  BY <1>1, <1>2, <1>8, <1>9 DEF Underway, Arrivals!Live
<1>11. Arrivals!HardBounceHolds'
  BY <1>1 DEF ArrivalsInv, Arrivals!HardBounceHolds
<1> QED
  BY <1>1, <1>2, <1>3, <1>5, <1>10, <1>11, AtOneAccount

\* what is told of a suppression
LEMMA ActiveSet ==
  ASSUME NEW b, NEW x, x = [active |-> x.active, count |-> x.count, reason |-> x.reason]
  PROVE  [x EXCEPT !.active = b] = [active |-> b, count |-> x.count, reason |-> x.reason]
<1> PICK a0, c0, r0 : a0 = x.active /\ c0 = x.count /\ r0 = x.reason
  OBVIOUS
<1>1. x = [active |-> a0, count |-> c0, reason |-> r0]
  OBVIOUS
<1>2. [[active |-> a0, count |-> c0, reason |-> r0] EXCEPT !.active = b] = [active |-> b, count |-> c0, reason |-> r0]
  OBVIOUS
<1> QED
  BY <1>1, <1>2

LEMMA RowsOf ==
  ASSUME RowsTyped, NEW r \in Arrivals!Recipients
  PROVE  /\ row[r] = [active |-> row[r].active, count |-> row[r].count, reason |-> row[r].reason]
         /\ row[r].active \in BOOLEAN /\ row[r].count \in Nat /\ row[r].reason \in Arrivals!Reasons
<1>1. row[r] \in [active : BOOLEAN, count : Nat, reason : Arrivals!Reasons]
  BY DEF RowsTyped, SuppressionRows
<1> QED
  BY <1>1

\* a row written whole
LEMMA RowPut ==
  ASSUME RowsTyped, NEW r \in Arrivals!Recipients, NEW act \in BOOLEAN, NEW n \in Nat,
         NEW reason \in Arrivals!Reasons,
         row' = [row EXCEPT ![r] = [active |-> act, count |-> n, reason |-> reason]]
  PROVE  /\ row' \in SuppressionRows /\ row'[r].active = act
         /\ \A q \in Arrivals!Recipients : q # r => row'[q] = row[q]
<1> DEFINE R == [active : BOOLEAN, count : Nat, reason : Arrivals!Reasons]
           e == [active |-> act, count |-> n, reason |-> reason]
<1>1. row \in [Arrivals!Recipients -> R] /\ e \in R
  BY DEF RowsTyped, SuppressionRows
<1>2. e.active = act
  OBVIOUS
<1>3. row' = [row EXCEPT ![r] = e]
  OBVIOUS
<1> HIDE DEF R, e
<1>4. row' \in [Arrivals!Recipients -> R]
  BY <1>1, <1>3
<1>5. row'[r] = e /\ \A q \in Arrivals!Recipients : q # r => row'[q] = row[q]
  BY <1>1, <1>3
<1> QED
  BY <1>2, <1>4, <1>5 DEF SuppressionRows, R

LEMMA RowSuppressed ==
  ASSUME RowsTyped, NEW r \in Arrivals!Recipients, NEW n \in Nat, NEW reason \in Arrivals!Reasons,
         row' = Arrivals!Suppressed(r, reason, n)
  PROVE  /\ row' \in SuppressionRows /\ row'[r].active
         /\ \A q \in Arrivals!Recipients : q # r => row'[q] = row[q]
<1>1. row[r].count \in Nat
  BY RowsOf
<1>2. PICK k \in Nat : k = IF n > row[r].count THEN n ELSE row[r].count
  BY <1>1
<1>3. row' = [row EXCEPT ![r] = [active |-> TRUE, count |-> k, reason |-> reason]]
  BY <1>2 DEF Arrivals!Suppressed
<1> QED
  BY <1>3, RowPut, ZenonT(60)

\* A step of a pass that reads no message leaves what the pass has to read.
LEMMA SamePass ==
  ASSUME ArrivalsInv, NEW a \in Accounts, iwPass[a] # Arrivals!Idle, NEW p,
         DOMAIN p = {"at", "uids", "high", "uid", "count"},
         p.at \in {"fetch", "count", "write", "suppress"}, p.uids = iwPass[a].uids,
         p.high = iwPass[a].high, p.uid = iwPass[a].uid, p.count \in Nat,
         p.at # "fetch" => iwPass[a].at # "fetch",
         iwPass' = [iwPass EXCEPT ![a] = p], UNCHANGED <<arrived, gone, mark, done, base>>,
         RowsTyped', Arrivals!HardBounceHolds'
  PROVE  ArrivalsInv'
<1>1. iwPass'[a] = p /\ \A b \in Accounts : b # a => iwPass'[b] = iwPass[b]
  BY DEF ArrivalsInv, ArrivalsTyped, AccountsTyped
<1>2. ArrivalsTyped'
  BY DEF ArrivalsInv, ArrivalsTyped, AccountsTyped, Arrivals!ServerUids
<1>3. Marked(a)'
  BY DEF ArrivalsInv, Marked, Arrivals!Live
<1>4. Reading(a, iwPass[a])
  BY DEF ArrivalsInv, Underway
<1>5. Reading(a, p)'
  BY <1>4, p' = p DEF Reading, Arrivals!ServerUids
<1>6. Underway(a)'
  BY <1>1, <1>5 DEF ArrivalsInv, Underway, Arrivals!Live
<1> QED
  BY <1>1, <1>2, <1>3, <1>6, AtOneAccount

\* the pass of an account that acts
LEMMA UnderwayAt ==
  ASSUME ArrivalsInv, NEW a \in Accounts, iwPass[a].at # "idle"
  PROVE  iwPass[a] # Arrivals!Idle /\ Reading(a, iwPass[a])
  BY DEF ArrivalsInv, Underway, Arrivals!Idle

LEMMA ReadCountKeeps ==
  ASSUME ArrivalsInv, NEW a \in Accounts, Arrivals!ReadCount(a)
  PROVE  ArrivalsInv'
<1> PICK q : q = iwPass[a]
  OBVIOUS
<1>1. q.at = "count" /\ q # Arrivals!Idle /\ Reading(a, q)
  BY UnderwayAt DEF Arrivals!ReadCount
<1> DEFINE n == row[Mail[a][q.uid].to].count + 1
           p == [q EXCEPT !.at = "write", !.count = n]
<1>2. iwPass' = [iwPass EXCEPT ![a] = p] /\ UNCHANGED <<arrived, gone, mark, done, base, delivery, row, hard>>
  BY DEF Arrivals!ReadCount, Arrivals!inbox, Arrivals!history
<1>3. n \in Nat
  <2>1. Mail[a][q.uid].to \in Arrivals!Recipients /\ RowsTyped
    BY <1>1 DEF Reading, ArrivalsInv, ArrivalsTyped
  <2>2. row[Mail[a][q.uid].to].count \in Nat
    BY <2>1, RowsOf
  <2> QED
    BY <2>2
<1> HIDE DEF n
<1>4. /\ DOMAIN p = {"at", "uids", "high", "uid", "count"} /\ p.at = "write" /\ p.uids = q.uids
      /\ p.high = q.high /\ p.uid = q.uid /\ p.count = n
  BY <1>1 DEF Reading
<1> HIDE DEF p
<1>5. RowsTyped' /\ Arrivals!HardBounceHolds'
  BY <1>2 DEF ArrivalsInv, ArrivalsTyped, RowsTyped, DeliveryRows, SuppressionRows, Arrivals!HardBounceHolds
<1> QED
  BY <1>1, <1>2, <1>3, <1>4, <1>5, SamePass

LEMMA WriteCountKeeps ==
  ASSUME ArrivalsInv, NEW a \in Accounts, Arrivals!WriteCount(a)
  PROVE  ArrivalsInv'
<1> PICK q : q = iwPass[a]
  OBVIOUS
<1> PICK r : r = Mail[a][q.uid].to
  OBVIOUS
<1>1. q.at = "write" /\ q # Arrivals!Idle /\ Reading(a, q)
  BY UnderwayAt DEF Arrivals!WriteCount
<1>2. PICK at \in {"suppress", "fetch"} :
        /\ row' = [row EXCEPT ![r] = Arrivals!CountedRow(r, q.count)]
        /\ iwPass' = [iwPass EXCEPT ![a] = [q EXCEPT !.at = at]]
        /\ UNCHANGED <<arrived, gone, mark, done, base, delivery, hard>>
  BY DEF Arrivals!WriteCount, Arrivals!inbox
<1> DEFINE p == [q EXCEPT !.at = at]
<1>3. /\ DOMAIN p = {"at", "uids", "high", "uid", "count"} /\ p.at = at /\ p.uids = q.uids
      /\ p.high = q.high /\ p.uid = q.uid /\ p.count = q.count
  BY <1>1 DEF Reading
<1> HIDE DEF p
<1>4. r \in Arrivals!Recipients /\ q.count \in Nat /\ RowsTyped
  BY <1>1 DEF Reading, ArrivalsInv, ArrivalsTyped
<1>5. PICK reason \in Arrivals!Reasons :
        row' = [row EXCEPT ![r] = [active |-> row[r].active, count |-> q.count, reason |-> reason]]
  BY <1>2, <1>4, RowsOf DEF Arrivals!CountedRow, Arrivals!Reasons
<1>6. /\ row' \in SuppressionRows /\ row'[r].active = row[r].active
      /\ \A s \in Arrivals!Recipients : s # r => row'[s] = row[s]
  BY <1>4, <1>5, RowsOf, RowPut, ZenonT(60)
<1>7. RowsTyped'
  BY <1>2, <1>4, <1>6 DEF RowsTyped, DeliveryRows, SuppressionRows
<1>8. Arrivals!HardBounceHolds'
  BY <1>2, <1>4, <1>6 DEF ArrivalsInv, Arrivals!HardBounceHolds, RowsTyped
<1>9. iwPass' = [iwPass EXCEPT ![a] = p]
  BY <1>2 DEF p
<1> QED
  BY <1>1, <1>2, <1>3, <1>4, <1>7, <1>8, <1>9, SamePass

LEMMA SuppressKeeps ==
  ASSUME ArrivalsInv, NEW a \in Accounts, Arrivals!Suppress(a)
  PROVE  ArrivalsInv'
<1> PICK q : q = iwPass[a]
  OBVIOUS
<1> PICK r : r = Mail[a][q.uid].to
  OBVIOUS
<1>1. q.at = "suppress" /\ q # Arrivals!Idle /\ Reading(a, q)
  BY UnderwayAt DEF Arrivals!Suppress
<1>2. /\ iwPass' = [iwPass EXCEPT ![a] = [q EXCEPT !.at = "fetch"]]
      /\ UNCHANGED <<arrived, gone, mark, done, base, delivery>>
      /\ hard' = hard \cup {r} \/ hard' = hard
  BY DEF Arrivals!Suppress, Arrivals!inbox
<1>3. r \in Arrivals!Recipients /\ q.count \in Nat /\ RowsTyped
  BY <1>1 DEF Reading, ArrivalsInv, ArrivalsTyped
<1>4. PICK reason \in Arrivals!Reasons, n \in Nat : row' = Arrivals!Suppressed(r, reason, n)
  BY <1>3 DEF Arrivals!Suppress, Arrivals!Reasons
<1>5. /\ row' \in SuppressionRows /\ row'[r].active
      /\ \A s \in Arrivals!Recipients : s # r => row'[s] = row[s]
  BY <1>3, <1>4, RowSuppressed
<1>6. RowsTyped'
  BY <1>2, <1>3, <1>5 DEF RowsTyped, DeliveryRows, SuppressionRows
<1>7. Arrivals!HardBounceHolds'
  BY <1>2, <1>3, <1>5 DEF ArrivalsInv, Arrivals!HardBounceHolds, RowsTyped
<1> DEFINE p == [q EXCEPT !.at = "fetch"]
<1>8. /\ DOMAIN p = {"at", "uids", "high", "uid", "count"} /\ p.at = "fetch" /\ p.uids = q.uids
      /\ p.high = q.high /\ p.uid = q.uid /\ p.count = q.count
  BY <1>1 DEF Reading
<1>9. iwPass' = [iwPass EXCEPT ![a] = p]
  BY <1>2
<1> HIDE DEF p
<1> QED
  BY <1>1, <1>2, <1>3, <1>6, <1>7, <1>8, <1>9, SamePass

\* one message is read: its report or its answer is written to a delivery
LEMMA DeliveryWritten ==
  ASSUME RowsTyped, NEW a \in Accounts, NEW u \in Arrivals!ServerUids(a),
         \/ \E d : delivery' = Arrivals!Bounced(d, Mail[a][u])
         \/ Mail[a][u].about # NoDelivery /\ delivery' = Arrivals!Answered(Mail[a][u])
         \/ delivery' = delivery
  PROVE  delivery' \in DeliveryRows
<1> PICK m : m = Mail[a][u]
  OBVIOUS
<1>1. m.reads \in Arrivals!Hard \cup Arrivals!Soft \cup Arrivals!Other /\ m.about \in Deliveries \cup {NoDelivery}
  BY MessageOf
<1>2. ASSUME NEW d, delivery' = Arrivals!Bounced(d, m) PROVE delivery' \in DeliveryRows
  BY <1>1, <1>2 DEF Arrivals!Bounced, RowsTyped, DeliveryRows
<1>3. ASSUME m.about # NoDelivery, delivery' = Arrivals!Answered(m) PROVE delivery' \in DeliveryRows
  <2>1. m.about \in Deliveries
    BY <1>1, <1>3
  <2>2. PICK talk \in {"auto_reply", "replied"} : talk = IF Arrivals!Automatic(m) THEN "auto_reply" ELSE "replied"
    OBVIOUS
  <2> PICK e : e = delivery[m.about]
    OBVIOUS
  <2>3. e \in [state : {"sent", "temporarily_failed", "bounced"},
     bounce : Arrivals!Hard \cup Arrivals!Soft \cup Arrivals!Other \cup {""},
     conversation : {"awaiting_reply", "bounced", "auto_reply", "replied"}]
    BY <2>1 DEF RowsTyped, DeliveryRows
  <2>4. [e EXCEPT !.conversation = talk] = [state |-> e.state, bounce |-> e.bounce, conversation |-> talk]
    <3> PICK s0, b0, t0 : s0 = e.state /\ b0 = e.bounce /\ t0 = e.conversation
      OBVIOUS
    <3>1. e = [state |-> s0, bounce |-> b0, conversation |-> t0]
      BY <2>3
    <3>2. [[state |-> s0, bounce |-> b0, conversation |-> t0] EXCEPT !.conversation = talk]
            = [state |-> s0, bounce |-> b0, conversation |-> talk]
      OBVIOUS
    <3> QED
      BY <3>1, <3>2
  <2>5. delivery' = [delivery EXCEPT ![m.about] = [e EXCEPT !.conversation = talk]]
    BY <1>3, <2>2 DEF Arrivals!Answered
  <2>6. delivery' = [delivery EXCEPT ![m.about] = [state |-> e.state, bounce |-> e.bounce, conversation |-> talk]]
    BY <2>4, <2>5
  <2> QED
    BY <2>1, <2>3, <2>6 DEF RowsTyped, DeliveryRows
<1> QED
  BY <1>2, <1>3 DEF RowsTyped

LEMMA ProcessKeeps ==
  ASSUME ArrivalsInv, NEW a \in Accounts, Arrivals!Process(a)
  PROVE  ArrivalsInv'
<1> PICK q : q = iwPass[a]
  OBVIOUS
<1>1. q.at = "fetch" /\ q # Arrivals!Idle /\ Reading(a, q)
  BY UnderwayAt DEF Arrivals!Process
<1>2. PICK u \in q.uids :
        LET m == Mail[a][u]
            on == [q EXCEPT !.uids = @ \ {u}, !.high = IF u > @ THEN u ELSE @, !.uid = u]
        IN /\ done' = [done EXCEPT ![a] = done[a] \cup {u}]
           /\ delivery' = CASE Arrivals!IsReport(m) /\ m.to # NoRecipient ->
                                  Arrivals!Bounced(Arrivals!Correlated(m), m)
                            [] ~Arrivals!IsReport(m) /\ m.about # NoDelivery -> Arrivals!Answered(m)
                            [] OTHER -> delivery
           /\ iwPass' = [iwPass EXCEPT ![a] =
                IF ~Arrivals!IsReport(m) \/ m.to = NoRecipient \/ m.reads \in Arrivals!Other THEN on
                ELSE [on EXCEPT !.at = IF m.reads \in Arrivals!Soft THEN "count" ELSE "suppress"]]
  BY DEF Arrivals!Process
<1>3. UNCHANGED <<arrived, gone, mark, row, base, hard>>
  BY DEF Arrivals!Process, Arrivals!inbox, Arrivals!history
<1> PICK m : m = Mail[a][u]
  OBVIOUS
<1> DEFINE high == IF u > q.high THEN u ELSE q.high
           on == [q EXCEPT !.uids = @ \ {u}, !.high = high, !.uid = u]
           p == IF ~Arrivals!IsReport(m) \/ m.to = NoRecipient \/ m.reads \in Arrivals!Other THEN on
                ELSE [on EXCEPT !.at = IF m.reads \in Arrivals!Soft THEN "count" ELSE "suppress"]
<1>4. iwPass' = [iwPass EXCEPT ![a] = p]
  BY <1>2
<1>5. /\ DOMAIN p = {"at", "uids", "high", "uid", "count"}
      /\ p.at \in {"fetch", "count", "suppress"} /\ p.uids = q.uids \ {u}
      /\ p.high = high /\ p.uid = u /\ p.count = q.count
      /\ p.at # "fetch" => m.to # NoRecipient
  <2>1. /\ DOMAIN on = {"at", "uids", "high", "uid", "count"} /\ on.at = "fetch" /\ on.uids = q.uids \ {u}
        /\ on.high = high /\ on.uid = u /\ on.count = q.count
    BY <1>1 DEF Reading
  <2> HIDE DEF on, high
  <2>2. CASE ~Arrivals!IsReport(m) \/ m.to = NoRecipient \/ m.reads \in Arrivals!Other
    BY <2>1, <2>2
  <2>3. CASE ~(~Arrivals!IsReport(m) \/ m.to = NoRecipient \/ m.reads \in Arrivals!Other)
    <3>1. PICK at \in {"count", "suppress"} : at = IF m.reads \in Arrivals!Soft THEN "count" ELSE "suppress"
      OBVIOUS
    <3>2. p = [on EXCEPT !.at = at]
      BY <2>3, <3>1
    <3> HIDE DEF p
    <3> QED
      BY <2>1, <2>3, <3>2
  <2> QED
    BY <2>2, <2>3
<1> HIDE DEF p, on
<1>6. /\ u \in Nat /\ u >= 1 /\ u <= arrived[a] /\ arrived[a] \in Nat /\ arrived[a] <= Len(Mail[a])
      /\ Len(Mail[a]) \in Nat /\ mark[a] \in Int /\ base[a] \in Int
      /\ q.high \in Int /\ q.high >= mark[a] /\ q.high <= arrived[a]
  BY <1>1, AccountOf DEF Reading, ArrivalsInv
<1>7. u \in Arrivals!ServerUids(a)
  BY <1>6 DEF Arrivals!ServerUids
<1>8. delivery' \in DeliveryRows
  BY <1>2, <1>7, DeliveryWritten DEF ArrivalsInv, ArrivalsTyped
<1>9. RowsTyped' /\ Arrivals!HardBounceHolds'
  BY <1>3, <1>8 DEF ArrivalsInv, ArrivalsTyped, RowsTyped, DeliveryRows, SuppressionRows, Arrivals!HardBounceHolds
<1>10. /\ iwPass'[a] = p /\ done'[a] = done[a] \cup {u}
       /\ \A b \in Accounts : b # a => iwPass'[b] = iwPass[b] /\ done'[b] = done[b]
  BY <1>2, <1>4 DEF ArrivalsInv, ArrivalsTyped, AccountsTyped
<1>11. AccountsTyped'
  BY <1>2, <1>3, <1>4 DEF ArrivalsInv, ArrivalsTyped, AccountsTyped, Arrivals!ServerUids
<1>12. Marked(a)'
  BY <1>3, <1>10 DEF ArrivalsInv, Marked, Arrivals!Live
<1>13. high \in Int /\ high >= q.high /\ high >= u /\ high <= arrived[a] /\ (high = q.high \/ high = u)
  BY <1>6
<1> HIDE DEF high
<1>14. Reading(a, p)'
  <2>1. p.uids \subseteq 1..arrived[a] /\ p.high \in mark[a]..arrived[a] /\ p.count \in Nat
    BY <1>1, <1>5, <1>6, <1>13 DEF Reading
  <2>2. p.at # "fetch" => p.uid \in Arrivals!ServerUids(a) /\ Mail[a][p.uid].to \in Arrivals!Recipients
    BY <1>5, <1>7, MessageOf
  <2> QED
    BY <1>3, <1>5, <2>1, <2>2, p' = p DEF Reading, Arrivals!ServerUids
<1>15. \A w \in Arrivals!Live(a) :
         w > base[a] /\ (w <= p.high \/ \E v \in p.uids : w <= v) => w \in done[a] \cup {u} \cup p.uids
  <2> TAKE w \in Arrivals!Live(a)
  <2>1. w > base[a] /\ (w <= q.high \/ \E v \in q.uids : w <= v) => w \in done[a] \cup q.uids
    BY <1>1 DEF ArrivalsInv, Underway
  <2>2. w <= p.high => w <= q.high \/ w <= u
    BY <1>5, <1>13
  <2> QED
    BY <1>5, <2>1, <2>2
<1>16. Underway(a)'
  BY <1>1, <1>3, <1>10, <1>14, <1>15 DEF ArrivalsInv, Underway, Arrivals!Live
<1>17. ArrivalsTyped'
  BY <1>9, <1>11 DEF ArrivalsTyped
<1> QED
  BY <1>3, <1>9, <1>10, <1>12, <1>16, <1>17, AtOneAccount

LEMMA FinishKeepsMark ==
  ASSUME ArrivalsInv, NEW a \in Accounts, Arrivals!Finish(a)
  PROVE  ArrivalsInv'
<1> PICK q : q = iwPass[a]
  OBVIOUS
<1>1. q # Arrivals!Idle /\ Reading(a, q) /\ q.uids = {}
  BY UnderwayAt DEF Arrivals!Finish
<1>2. /\ mark' = [mark EXCEPT ![a] = q.high] /\ iwPass' = [iwPass EXCEPT ![a] = Arrivals!Idle]
      /\ UNCHANGED <<arrived, gone, row, delivery, done, base, hard>>
  BY DEF Arrivals!Finish, Arrivals!inbox, Arrivals!history
<1>3. /\ mark'[a] = q.high /\ iwPass'[a] = Arrivals!Idle
      /\ \A b \in Accounts : b # a => mark'[b] = mark[b] /\ iwPass'[b] = iwPass[b]
  BY <1>2 DEF ArrivalsInv, ArrivalsTyped, AccountsTyped
<1>4. /\ arrived[a] \in Nat /\ arrived[a] <= Len(Mail[a]) /\ Len(Mail[a]) \in Nat
      /\ mark[a] \in Int /\ mark[a] >= -1 /\ base[a] \in Int
      /\ q.high \in Int /\ q.high >= mark[a] /\ q.high <= arrived[a]
  BY <1>1, AccountOf DEF Reading, ArrivalsInv
<1>5. AccountsTyped'
  <2>1. ASSUME NEW b \in Accounts PROVE mark'[b] \in -1..Len(Mail[b])
    <3>1. CASE b = a
      BY <1>3, <1>4, <3>1
    <3>2. CASE b # a
      BY <1>3, <3>2 DEF ArrivalsInv, ArrivalsTyped, AccountsTyped
    <3> QED
      BY <3>1, <3>2
  <2>2. mark' = [b \in Accounts |-> mark'[b]] /\ iwPass' = [b \in Accounts |-> iwPass'[b]]
    BY <1>2 DEF ArrivalsInv, ArrivalsTyped, AccountsTyped
  <2> QED
    BY <1>2, <2>1, <2>2 DEF ArrivalsInv, ArrivalsTyped, AccountsTyped, Arrivals!ServerUids
<1>6. RowsTyped' /\ Arrivals!HardBounceHolds'
  BY <1>2 DEF ArrivalsInv, ArrivalsTyped, RowsTyped, DeliveryRows, SuppressionRows, Arrivals!HardBounceHolds
<1>7. /\ mark[a] # -1 => mark[a] >= base[a]
      /\ mark[a] # -1 /\ \A u \in Arrivals!Live(a) : u > base[a] /\ u <= q.high => u \in done[a]
  BY <1>1, <1>4 DEF ArrivalsInv, Marked, Underway
<1>8. Marked(a)'
  BY <1>2, <1>3, <1>4, <1>7 DEF Marked, Arrivals!Live
<1>9. Underway(a)'
  BY <1>3 DEF Underway, Arrivals!Idle
<1>10. ArrivalsTyped'
  BY <1>5, <1>6 DEF ArrivalsTyped
<1> QED
  BY <1>2, <1>3, <1>6, <1>8, <1>9, <1>10, AtOneAccount

LEMMA AbortKeeps ==
  ASSUME ArrivalsInv, NEW a \in Accounts, Arrivals!Abort(a)
  PROVE  ArrivalsInv'
<1>1. /\ iwPass' = [iwPass EXCEPT ![a] = Arrivals!Idle]
      /\ UNCHANGED <<arrived, gone, mark, row, delivery, done, base, hard>>
  BY DEF Arrivals!Abort, Arrivals!inbox, Arrivals!history
<1>2. iwPass'[a] = Arrivals!Idle /\ \A b \in Accounts : b # a => iwPass'[b] = iwPass[b]
  BY <1>1 DEF ArrivalsInv, ArrivalsTyped, AccountsTyped
<1>3. ArrivalsTyped'
  BY <1>1 DEF ArrivalsInv, ArrivalsTyped, AccountsTyped, RowsTyped, DeliveryRows, SuppressionRows, Arrivals!ServerUids
<1>4. Marked(a)' /\ Underway(a)' /\ Arrivals!HardBounceHolds'
  BY <1>1, <1>2 DEF ArrivalsInv, Marked, Underway, Arrivals!Idle, Arrivals!Live, Arrivals!HardBounceHolds
<1> QED
  BY <1>1, <1>2, <1>3, <1>4, AtOneAccount

\* people touch the suppressions alone, a restart the marks and the passes
LEMMA PeopleKeep ==
  ASSUME ArrivalsInv, NEW r \in Arrivals!Recipients,
         Arrivals!Lift(r) \/ \E reason \in {"manual", "unsubscribe"} : Arrivals!PersonSuppresses(r, reason)
  PROVE  ArrivalsInv'
<1>1. UNCHANGED <<arrived, gone, mark, iwPass, delivery, done, base>>
  BY DEF Arrivals!Lift, Arrivals!PersonSuppresses, Arrivals!inbox, Arrivals!history
<1>2. RowsTyped /\ Arrivals!HardBounceHolds
  BY DEF ArrivalsInv, ArrivalsTyped
<1>3. RowsTyped' /\ Arrivals!HardBounceHolds'
  <2>1. CASE Arrivals!Lift(r)
    <3>1. hard' = hard \ {r} /\ row' = [row EXCEPT ![r].active = FALSE]
      BY <2>1 DEF Arrivals!Lift
    <3>2. row' = [row EXCEPT ![r] = [active |-> FALSE, count |-> row[r].count, reason |-> row[r].reason]]
      <4> PICK x : x = row[r]
        OBVIOUS
      <4>1. x = [active |-> x.active, count |-> x.count, reason |-> x.reason]
        BY <1>2, RowsOf
      <4>2. [x EXCEPT !.active = FALSE] = [active |-> FALSE, count |-> x.count, reason |-> x.reason]
        BY <4>1, ActiveSet
      <4>3. row' = [row EXCEPT ![r] = [x EXCEPT !.active = FALSE]]
        BY <3>1
      <4> QED
        BY <4>2, <4>3
    <3>3. row' \in SuppressionRows /\ \A q \in Arrivals!Recipients : q # r => row'[q] = row[q]
      BY <1>2, <3>2, RowsOf, RowPut
    <3> QED
      BY <1>1, <1>2, <3>1, <3>3 DEF RowsTyped, DeliveryRows, SuppressionRows, Arrivals!HardBounceHolds
  <2>2. CASE \E reason \in {"manual", "unsubscribe"} : Arrivals!PersonSuppresses(r, reason)
    <3>1. PICK reason \in Arrivals!Reasons : row' = Arrivals!Suppressed(r, reason, row[r].count)
      BY <2>2 DEF Arrivals!PersonSuppresses, Arrivals!Reasons
    <3>2. /\ row' \in SuppressionRows /\ row'[r].active
          /\ \A q \in Arrivals!Recipients : q # r => row'[q] = row[q]
      BY <1>2, <3>1, RowsOf, RowSuppressed
    <3>3. hard' = hard
      BY <2>2 DEF Arrivals!PersonSuppresses, Arrivals!history
    <3> QED
      BY <1>1, <1>2, <3>2, <3>3 DEF RowsTyped, DeliveryRows, SuppressionRows, Arrivals!HardBounceHolds
  <2> QED
    BY <2>1, <2>2
<1>4. ArrivalsTyped'
  BY <1>1, <1>3 DEF ArrivalsInv, ArrivalsTyped, AccountsTyped, Arrivals!ServerUids
<1> QED
  BY <1>1, <1>3, <1>4 DEF ArrivalsInv, Marked, Underway, Reading, Arrivals!Live, Arrivals!ServerUids, Arrivals!Idle

LEMMA RestartKeeps ==
  ASSUME ArrivalsInv, Arrivals!Restart
  PROVE  ArrivalsInv'
<1>1. /\ mark' = [a \in Accounts |-> -1] /\ iwPass' = [a \in Accounts |-> Arrivals!Idle]
      /\ done' = [a \in Accounts |-> {}]
      /\ UNCHANGED <<arrived, gone, row, delivery, base, hard>>
  BY DEF Arrivals!Restart, Arrivals!inbox, Arrivals!history
<1>2. \A a \in Accounts : mark'[a] \in -1..Len(Mail[a])
  BY <1>1, MailboxOf
<1>3. ArrivalsTyped'
  BY <1>1, <1>2 DEF ArrivalsInv, ArrivalsTyped, AccountsTyped, RowsTyped, DeliveryRows, SuppressionRows,
                    Arrivals!ServerUids
<1> QED
  BY <1>1, <1>3 DEF ArrivalsInv, Marked, Underway, Arrivals!Idle, Arrivals!HardBounceHolds

LEMMA ArrivalsStep == ArrivalsInv /\ [Arrivals!Next]_(Arrivals!vars) => ArrivalsInv'
<1> SUFFICES ASSUME ArrivalsInv, [Arrivals!Next]_(Arrivals!vars) PROVE ArrivalsInv'
  OBVIOUS
<1>1. CASE UNCHANGED Arrivals!vars
  BY <1>1 DEF ArrivalsInv, ArrivalsTyped, AccountsTyped, RowsTyped, DeliveryRows, SuppressionRows, Marked,
              Underway, Reading, Arrivals!Live, Arrivals!ServerUids, Arrivals!Idle, Arrivals!HardBounceHolds,
              Arrivals!vars, Arrivals!history
<1>2. ASSUME NEW a \in Accounts,
             Arrivals!Arrive(a) \/ Arrivals!Watch(a) \/ \E u \in Arrivals!ServerUids(a) : Arrivals!Expunge(a, u)
      PROVE  ArrivalsInv'
  <2>1. CASE Arrivals!Arrive(a)
    BY <2>1, ArriveKeeps
  <2>2. CASE \E u \in Arrivals!ServerUids(a) : Arrivals!Expunge(a, u)
    <3>1. PICK u \in Arrivals!ServerUids(a) : Arrivals!Expunge(a, u)
      BY <2>2
    <3> QED
      BY <3>1, InboxExpungeKeeps
  <2>3. CASE Arrivals!TakeMark(a) \/ Arrivals!Start(a)
    BY <2>3, TakeMarkKeeps, StartPassKeeps
  <2>6. CASE Arrivals!Process(a)
    BY <2>6, ProcessKeeps
  <2>4. CASE Arrivals!ReadCount(a) \/ Arrivals!WriteCount(a) \/ Arrivals!Suppress(a)
    BY <2>4, ReadCountKeeps, WriteCountKeeps, SuppressKeeps
  <2>5. CASE Arrivals!Finish(a) \/ Arrivals!Abort(a)
    BY <2>5, FinishKeepsMark, AbortKeeps
  <2> QED
    BY <1>2, <2>1, <2>2, <2>3, <2>4, <2>5, <2>6 DEF Arrivals!Watch
<1> QED
  BY <1>1, <1>2, PeopleKeep, RestartKeeps DEF Arrivals!Next

LEMMA ArrivalsSafe ==
  ArrivalsInv => Arrivals!TypeOK /\ Arrivals!NothingPassedOver /\ Arrivals!HardBounceHolds
  BY DEF ArrivalsInv, ArrivalsTyped, AccountsTyped, RowsTyped, DeliveryRows, SuppressionRows, Marked,
         Arrivals!TypeOK, Arrivals!NothingPassedOver

\* While a burst of messages fits in one pass, no message that arrived after a watcher took its
\* mark is left behind by the mark (mail_v950.py, process_inbound_changes).
THEOREM MarkPassesNothing == Arrivals!Spec => [](Arrivals!TypeOK /\ Arrivals!NothingPassedOver)
  BY ArrivalsInit, ArrivalsStep, ArrivalsSafe, PTL DEF Arrivals!Spec

\* Who bounced hard stays suppressed until a person lifts it, whatever the watchers of other
\* accounts count and write meanwhile (delivery_reliability.py, record_bounce).
THEOREM HardStaysSuppressed == Arrivals!Spec => []Arrivals!HardBounceHolds
  BY ArrivalsInit, ArrivalsStep, ArrivalsSafe, PTL DEF Arrivals!Spec

LEMMA ArrivalsBeside == Spec => Arrivals!Spec
<1>1. Init => Arrivals!Init
  BY DEF Init
<1>2. [Next]_allVars => [Arrivals!Next]_(Arrivals!vars)
  BY DEF Next, allVars, inboxVars, Arrivals!vars, Arrivals!history, Arrivals!counters
<1> QED
  BY <1>1, <1>2, PTL DEF Spec, Arrivals!Spec

\* The mark of an inbox leaves nothing behind.
THEOREM MailIsRead == Spec => []NothingPassedOver
<1>1. Arrivals!TypeOK /\ Arrivals!NothingPassedOver => NothingPassedOver
  BY DEF NothingPassedOver
<1> QED
  BY <1>1, ArrivalsBeside, MarkPassesNothing, PTL

\* A hard bounce holds until it is lifted.
THEOREM BouncesHold == Spec => []HardBounceHolds
<1>1. Arrivals!HardBounceHolds => HardBounceHolds
  BY DEF HardBounceHolds
<1> QED
  BY <1>1, ArrivalsBeside, HardStaysSuppressed, PTL

-----------------------------------------------------------------------------
(***************************************************************************)
(* Content identity.  What is kept of a message stands under a key made of *)
(* its header and its bytes alone, so it is found wherever the message is  *)
(* held; and a start passes the rows one after the other and leaves such a *)
(* key where it is, unless the place the row is bound to gives another.    *)
(***************************************************************************)

LEMMA LeastExists ==
  ASSUME NEW W \in SUBSET Nat, W # {}
  PROVE  \E x \in W : \A y \in W : x <= y
<1>1. PICK m \in W : \A n \in W : ~(<<n, m>> \in OpToRel(<, Nat))
  BY WFMin, NatLessThanWellFounded
<1>2. \A n \in W : ~(n < m)
  BY <1>1 DEF OpToRel
<1> QED BY <1>2

LEMMA GreatestIs ==
  ASSUME NEW n \in Nat, NEW W \in SUBSET (1..n), W # {}
  PROVE  Identity!Max(W) \in W /\ \A x \in W : x <= Identity!Max(W)
<1> DEFINE rests == {k \in Nat : \E x \in W : k = n - x}
<1>1. \A x \in W : n - x \in rests
  OBVIOUS
<1>2. PICK k \in rests : \A l \in rests : k <= l
  <2>1. rests \in SUBSET Nat /\ rests # {}
    BY <1>1
  <2> HIDE DEF rests
  <2> QED BY <2>1, LeastExists
<1>3. PICK x \in W : k = n - x
  OBVIOUS
<1>4. \A y \in W : x >= y
  BY <1>1, <1>2, <1>3
<1> QED BY <1>4 DEF Identity!Max

\* The rewriting of the keys is defined on all sets of places in its order.
Rekeys(g, start, order, n) ==
  g = [v \in SUBSET (1..n) |->
         IF v = {} THEN start ELSE Identity!Rekey(g[v \ {Identity!Max(v)}], order[Identity!Max(v)])]

LEMMA RekeysExist ==
  ASSUME NEW start, NEW order
  PROVE  \A n \in Nat : \E g : Rekeys(g, start, order, n)
<1> DEFINE bad == {n \in Nat : ~\E g : Rekeys(g, start, order, n)}
<1> SUFFICES ASSUME bad # {} PROVE FALSE
  OBVIOUS
<1>1. PICK n \in bad : \A m \in bad : n <= m
  <2> HIDE DEF bad
  <2>1. bad \in SUBSET Nat
    BY DEF bad
  <2> QED BY <2>1, LeastExists
<1> DEFINE Taken(v, w) == Identity!Rekey(v, order[Identity!Max(w)])
<1>2. CASE n = 0
  <2> DEFINE g == [w \in SUBSET (1..0) |-> start]
  <2>1. \A w \in SUBSET (1..0) : w = {}
    OBVIOUS
  <2>2. Rekeys(g, start, order, 0)
    BY <2>1 DEF Rekeys
  <2> QED BY <1>2, <2>2
<1>3. CASE n # 0
  <2>1. n \in Nat /\ n - 1 \in Nat /\ n - 1 \notin bad
    BY <1>1, <1>3
  <2>2. PICK g : Rekeys(g, start, order, n - 1)
    BY <2>1
  <2> DEFINE fewer == SUBSET (1..(n - 1))
  <2> DEFINE sets == SUBSET (1..n)
  <2>3. g = [w \in fewer |-> IF w = {} THEN start ELSE Taken(g[w \ {Identity!Max(w)}], w)]
    BY <2>2 DEF Rekeys
  <2> DEFINE h == [w \in sets |-> IF w = {} THEN start ELSE Taken(g[w \ {Identity!Max(w)}], w)]
  <2>4. \A w \in sets : w # {} => w \ {Identity!Max(w)} \in fewer
    <3> SUFFICES ASSUME NEW w \in sets, w # {}, NEW x \in w, x # Identity!Max(w) PROVE x \in 1..(n - 1)
      OBVIOUS
    <3>1. Identity!Max(w) \in 1..n /\ x \in 1..n /\ x <= Identity!Max(w)
      BY <2>1, GreatestIs
    <3> QED BY <3>1, <2>1
  <2>5. fewer \subseteq sets
    BY <2>1
  <2> HIDE DEF Taken, fewer, sets
  <2>6. \A w \in fewer : h[w] = g[w]
    BY <2>3, <2>5
  <2>7. h = [w \in sets |-> IF w = {} THEN start ELSE Taken(h[w \ {Identity!Max(w)}], w)]
    BY <2>4, <2>6
  <2> HIDE DEF h
  <2>8. Rekeys(h, start, order, n)
    BY <2>7 DEF Rekeys, Taken, sets
  <2> QED BY <2>8
<1> QED BY <1>2, <1>3

Rekeyed(start, order) == Identity!FoldLeft(Identity!Rekey, start, order)

\* A start goes through the keys one after the other.
Passes(h, start, order, n) ==
  /\ h[0] = start /\ h[n] = Rekeyed(start, order)
  /\ \A k \in 1..n : h[k] = Identity!Rekey(h[k - 1], order[k])

LEMMA RekeyTrace ==
  ASSUME NEW start, NEW order, NEW n \in Nat, DOMAIN order = 1..n
  PROVE  \E h : Passes(h, start, order, n)
<1> DEFINE g == CHOOSE g : g = [v \in SUBSET (1..n) |->
         IF v = {} THEN start ELSE Identity!Rekey(g[v \ {Identity!Max(v)}], order[Identity!Max(v)])]
<1>1. Rekeyed(start, order) = g[1..n]
  BY DEF Rekeyed, Identity!FoldLeft, Identity!MapThenFoldSet
<1>2. Rekeys(g, start, order, n)
  <2>1. \E f : Rekeys(f, start, order, n)
    BY RekeysExist
  <2> QED BY <2>1 DEF Rekeys
<1> HIDE DEF g
<1> DEFINE h == [k \in 0..n |-> g[1..k]]
<1>3. h[0] = start
  <2>1. 1..0 = {} /\ {} \in SUBSET (1..n)
    OBVIOUS
  <2> QED BY <1>2, <2>1 DEF Rekeys
<1>4. h[n] = Rekeyed(start, order)
  BY <1>1
<1>5. ASSUME NEW k \in 1..n PROVE h[k] = Identity!Rekey(h[k - 1], order[k])
  <2>1. 1..k \in SUBSET (1..n) /\ k \in 1..k /\ k - 1 \in 0..n /\ k \in 0..n
    OBVIOUS
  <2>2. Identity!Max(1..k) = k
    <3>1. Identity!Max(1..k) \in 1..k /\ k <= Identity!Max(1..k)
      BY <2>1, GreatestIs
    <3> QED BY <3>1
  <2>3. (1..k) \ {k} = 1..(k - 1)
    OBVIOUS
  <2>4. g[1..k] = Identity!Rekey(g[(1..k) \ {k}], order[k])
    BY <1>2, <2>1, <2>2 DEF Rekeys
  <2> QED BY <2>1, <2>3, <2>4
<1>6. Passes(h, start, order, n)
  <2> HIDE DEF h
  <2> QED BY <1>3, <1>4, <1>5 DEF Passes
<1> QED BY <1>6

-----------------------------------------------------------------------------
\* The key of a resource of a message that is held with its body, wherever that is.
Stable(m, u) ==
  <<[by |-> "bytes", header |-> m, body |-> m, place |-> Identity!Nowhere], u>>

SomeMessage == Messages \cup {NoMessage}
HeldRecords == [header : SomeMessage, body : SomeMessage]

ServerFits == server \in [Mailboxes -> [1..MaxPlaceUid -> SomeMessage]]
HeldFits == held \in [Identity!Places -> HeldRecords]

\* A row is named by the address in its key.
StoredAs(r, k) == r.place \in Identity!Places /\ r = [place |-> r.place, url |-> k[2], ok |-> r.ok]
StoredRows(table) == IsFiniteSet(DOMAIN table) /\ \A k \in DOMAIN table : StoredAs(table[k], k)

\* A page whose message was held with its body when its keys were made lands under stable keys.
PageCall(k) ==
  \/ k = Identity!Idle
  \/ /\ k = [at |-> k.at, of |-> k.of, place |-> k.place, refresh |-> k.refresh, whole |-> k.whole,
             keys |-> k.keys, work |-> k.work]
     /\ k.at # "idle" /\ k.of \in Messages /\ k.place \in Identity!Places
     /\ k.whole => \A key \in k.work : key = Stable(k.of, key[2])
PagesFit == ciCall = [c \in Callers |-> ciCall[c]] /\ \A c \in Callers : PageCall(ciCall[c])

KeptStands == \A m \in Messages : \A u : <<m, u>> \in kept => Identity!Good(Stable(m, u))

FollowInv == ServerFits /\ HeldFits /\ StoredRows(ciRows) /\ PagesFit /\ KeptStands

LEMMA IdentityConstants ==
  /\ NoMessage \notin Messages /\ MaxPlaceUid \in Nat \ {0}
  /\ \A b \in Mailboxes : Layout[b] \in Seq(Messages)
  /\ IsFiniteSet(LegacyRows) /\ \A o \in LegacyRows : o.place \in Identity!Places
<1>1. Identity!IsFiniteSet(LegacyRows) = IsFiniteSet(LegacyRows)
  BY DEF Identity!IsFiniteSet, IsFiniteSet
<1> QED BY <1>1, MailAssumption DEF Identity!IdentityAssumption

LEMMA StableIs ==
  ASSUME NEW p, NEW m \in Messages, NEW u, held[p] = Identity!Whole(m)
  PROVE  Identity!Key(p, u) = Stable(m, u)
BY IdentityConstants DEF Identity!Key, Identity!Identity, Identity!Whole, Identity!NotHeld, Stable

\* Rows that are dropped are forgotten, and the others stand, wherever they are bound to.
LEMMA RowsDropped ==
  ASSUME StoredRows(ciRows), KeptStands, NEW ks, DOMAIN ciRows' = DOMAIN ciRows \ ks, kept' = kept \ Identity!For(ks \cap DOMAIN ciRows),
         \A l \in DOMAIN ciRows \ ks : StoredAs(ciRows'[l], l) /\ ciRows'[l].ok = ciRows[l].ok
  PROVE  StoredRows(ciRows') /\ KeptStands'
<1>1. StoredRows(ciRows')
  BY FS_Subset DEF StoredRows
<1>2. ASSUME NEW m \in Messages, NEW u, <<m, u>> \in kept' PROVE Stable(m, u) \in DOMAIN ciRows' /\ ciRows'[Stable(m, u)].ok
  <2>1. Stable(m, u) \in DOMAIN ciRows /\ ciRows[Stable(m, u)].ok
    BY <1>2 DEF KeptStands, Identity!Good
  <2>2. Stable(m, u)[1].body = m /\ Stable(m, u)[2] = u
    BY DEF Stable
  <2>3. Stable(m, u) \notin ks
    BY <1>2, <2>1, <2>2 DEF Identity!For
  <2> QED BY <2>1, <2>3
<1> QED BY <1>1, <1>2 DEF KeptStands, Identity!Good

LEMMA BoundAs ==
  ASSUME NEW l, NEW p \in Identity!Places, StoredAs(ciRows[l], l)
  PROVE  StoredAs([ciRows[l] EXCEPT !.place = p], l) /\ [ciRows[l] EXCEPT !.place = p].ok = ciRows[l].ok
<1> DEFINE r == ciRows[l]
<1>1. r = [place |-> r.place, url |-> l[2], ok |-> r.ok]
  BY DEF StoredAs
<1> HIDE DEF r
<1>2. [r EXCEPT !.place = p] = [place |-> p, url |-> l[2], ok |-> r.ok]
  BY <1>1
<1> QED BY <1>2 DEF StoredAs, r

\* Nothing is dropped and every hit is bound to the place it was found from.
LEMMA RowsBound ==
  ASSUME StoredRows(ciRows), KeptStands, NEW ks, NEW p \in Identity!Places, kept' = kept,
         ciRows' = [l \in DOMAIN ciRows |-> IF l \in ks THEN [ciRows[l] EXCEPT !.place = p] ELSE ciRows[l]]
  PROVE  StoredRows(ciRows') /\ KeptStands'
<1>1. kept' = kept \ Identity!For({} \cap DOMAIN ciRows)
  BY DEF Identity!For
<1>2. DOMAIN ciRows' = DOMAIN ciRows \ {}
  OBVIOUS
<1>3. ASSUME NEW l \in DOMAIN ciRows PROVE StoredAs(ciRows'[l], l) /\ ciRows'[l].ok = ciRows[l].ok
  BY BoundAs DEF StoredRows
<1> QED BY <1>1, <1>2, <1>3, RowsDropped

\* What nobody touches stands.
LEMMA ContentRests ==
  ASSUME StoredRows(ciRows), KeptStands, ciRows' = ciRows, kept' = kept
  PROVE  StoredRows(ciRows') /\ KeptStands'
BY DEF StoredRows, KeptStands, Identity!Good

LEMMA PageGoes ==
  ASSUME PagesFit, NEW c \in Callers, NEW k, PageCall(k), ciCall' = [ciCall EXCEPT ![c] = k]
  PROVE  PagesFit'
<1>1. \A d \in Callers : ciCall'[d] = IF d = c THEN k ELSE ciCall[d]
  BY DEF PagesFit
<1>2. ciCall' = [d \in Callers |-> IF d = c THEN k ELSE ciCall[d]]
  BY DEF PagesFit
<1> QED BY <1>1, <1>2 DEF PagesFit

LEMMA PageBegun ==
  ASSUME NEW m \in Messages, NEW p \in Identity!Places, NEW at \in {"keys", "render", "detail"}, NEW keys, NEW refresh
  PROVE  PageCall([at |-> at, of |-> m, place |-> p, refresh |-> refresh, whole |-> FALSE, keys |-> keys, work |-> {}])
<1> DEFINE k == [at |-> at, of |-> m, place |-> p, refresh |-> refresh, whole |-> FALSE, keys |-> keys, work |-> {}]
<1>1. /\ k.at = at /\ k.of = m /\ k.place = p /\ k.refresh = refresh /\ k.whole = FALSE /\ k.keys = keys /\ k.work = {}
  OBVIOUS
<1>2. k = [at |-> k.at, of |-> k.of, place |-> k.place, refresh |-> k.refresh, whole |-> k.whole,
           keys |-> k.keys, work |-> k.work]
  OBVIOUS
<1> HIDE DEF k
<1>3. PageCall(k)
  BY <1>1, <1>2 DEF PageCall
<1> QED BY <1>3 DEF k

LEMMA PageIs ==
  ASSUME PagesFit, NEW c \in Callers, ciCall[c].at # "idle"
  PROVE  LET k == ciCall[c] IN
         /\ k = [at |-> k.at, of |-> k.of, place |-> k.place, refresh |-> k.refresh, whole |-> k.whole,
                 keys |-> k.keys, work |-> k.work]
         /\ k.of \in Messages /\ k.place \in Identity!Places
         /\ k.whole => \A key \in k.work : key = Stable(k.of, key[2])
BY DEF PagesFit, PageCall, Identity!Idle

LEMMA BodyEnsured ==
  ASSUME HeldFits, NEW p \in Identity!Places, NEW m \in Messages, Identity!EnsureBody(p, m)
  PROVE  HeldFits'
<1>1. held' = [held EXCEPT ![p].body = m]
  BY DEF Identity!EnsureBody
<1>2. held[p] \in HeldRecords
  BY DEF HeldFits
<1> DEFINE r == [held[p] EXCEPT !.body = m]
<1>3. r \in HeldRecords
  BY <1>2 DEF HeldRecords, SomeMessage
<1>4. held' = [held EXCEPT ![p] = r]
  BY <1>1
<1> HIDE DEF r
<1> QED BY <1>3, <1>4 DEF HeldFits

\* What is cached of a message is looked up, and bound to this place.
LEMMA CachedRead ==
  ASSUME FollowInv, NEW c \in Callers, NEW p \in Identity!Places, Identity!RenderCached(c, p),
         UNCHANGED <<server, held, kept>>
  PROVE  FollowInv'
<1> DEFINE m == held[p].body
<1> DEFINE keys == IF m = NoMessage THEN {} ELSE {Identity!Key(p, u) : u \in Named[m]}
<1> DEFINE onward == [at |-> "render", of |-> m, place |-> p, refresh |-> FALSE, whole |-> FALSE, keys |-> keys, work |-> {}]
<1>1. /\ ciRows' = [l \in DOMAIN ciRows |-> IF l \in keys THEN [ciRows[l] EXCEPT !.place = p] ELSE ciRows[l]]
      /\ \/ ciCall' = [ciCall EXCEPT ![c] = Identity!Idle]
         \/ m # NoMessage /\ ciCall' = [ciCall EXCEPT ![c] = onward]
  BY DEF Identity!RenderCached, Identity!Goes
<1>2. m # NoMessage => m \in Messages
  BY DEF FollowInv, HeldFits, HeldRecords, SomeMessage
<1>3. m # NoMessage => PageCall(onward)
  <2> HIDE DEF keys, m
  <2> QED BY <1>2, PageBegun
<1>4. PageCall(Identity!Idle)
  BY DEF PageCall
<1> HIDE DEF keys, onward, m
<1>5. PagesFit'
  BY <1>1, <1>3, <1>4, PageGoes DEF FollowInv
<1>6. StoredRows(ciRows') /\ KeptStands'
  BY <1>1, RowsBound DEF FollowInv
<1> QED BY <1>5, <1>6 DEF FollowInv, ServerFits, HeldFits, StoredRows

-----------------------------------------------------------------------------
LEMMA ServerMoves ==
  ASSUME FollowInv,
         \/ \E from, to \in Mailboxes, n \in 1..MaxPlaceUid, copy \in BOOLEAN : Identity!Move(from, n, to, copy)
         \/ \E b \in Mailboxes : Identity!Recreate(b)
  PROVE  FollowInv'
<1>1. UNCHANGED <<held, ciRows, ciCall, kept>>
  BY DEF Identity!Move, Identity!Recreate, Identity!Moves, Identity!history
<1>2. ServerFits'
  <2>1. CASE \E from, to \in Mailboxes, n \in 1..MaxPlaceUid, copy \in BOOLEAN : Identity!Move(from, n, to, copy)
    <3>1. PICK from \in Mailboxes, to \in Mailboxes, n \in 1..MaxPlaceUid, copy \in BOOLEAN : Identity!Move(from, n, to, copy)
      BY <2>1
    <3>2. PICK i \in 1..MaxPlaceUid :
            server' = [server EXCEPT ![to][i] = server[from][n], ![from][n] = IF copy THEN @ ELSE NoMessage]
      BY <3>1 DEF Identity!Move, Identity!Free
    <3>3. server[from] \in [1..MaxPlaceUid -> SomeMessage] /\ server[to] \in [1..MaxPlaceUid -> SomeMessage]
          /\ NoMessage \in SomeMessage /\ from # to
      BY <3>1 DEF FollowInv, ServerFits, SomeMessage, Identity!Move
    <3> DEFINE arrives == [server[to] EXCEPT ![i] = server[from][n]]
    <3> DEFINE leaves == [server[from] EXCEPT ![n] = IF copy THEN @ ELSE NoMessage]
    <3>4. arrives \in [1..MaxPlaceUid -> SomeMessage] /\ leaves \in [1..MaxPlaceUid -> SomeMessage]
      BY <3>3
    <3>5. server' = [server EXCEPT ![to] = arrives, ![from] = leaves]
      BY <3>2, <3>3 DEF FollowInv, ServerFits
    <3> HIDE DEF arrives, leaves
    <3> QED BY <3>4, <3>5 DEF FollowInv, ServerFits
  <2>2. CASE \E b \in Mailboxes : Identity!Recreate(b)
    <3>1. PICK b \in Mailboxes : Identity!Recreate(b)
      BY <2>2
    <3> DEFINE other == [i \in 1..MaxPlaceUid |-> server[b][(i % MaxPlaceUid) + 1]]
    <3>2. server' = [server EXCEPT ![b] = other]
      BY <3>1 DEF Identity!Recreate
    <3>3. ASSUME NEW i \in 1..MaxPlaceUid PROVE (i % MaxPlaceUid) + 1 \in 1..MaxPlaceUid
      BY IdentityConstants
    <3>4. other \in [1..MaxPlaceUid -> SomeMessage]
      BY <3>3 DEF FollowInv, ServerFits
    <3> HIDE DEF other
    <3> QED BY <3>2, <3>4 DEF FollowInv, ServerFits
  <2> QED BY <2>1, <2>2
<1> QED BY <1>1, <1>2, ContentRests DEF FollowInv, HeldFits, PagesFit

LEMMA MailboxSynchronised ==
  ASSUME FollowInv, NEW b \in Mailboxes, Identity!Sync(b)
  PROVE  FollowInv'
<1> DEFINE reset == ciKnown[b] # validity[b]
<1> DEFINE bound == IF reset THEN {k \in DOMAIN ciRows : ciRows[k].place[1] = b} ELSE {}
<1>1. /\ held' = [p \in Identity!Places |->
                   CASE p[1] # b -> held[p]
                     [] server[b][p[2]] = NoMessage -> Identity!NotHeld
                     [] ~reset /\ held[p] # Identity!NotHeld -> held[p]
                     [] OTHER -> [header |-> server[b][p[2]], body |-> NoMessage]]
      /\ ciRows' = [k \in DOMAIN ciRows \ bound |-> ciRows[k]]
      /\ kept' = kept \ Identity!For(bound)
      /\ UNCHANGED <<server, ciCall>>
  BY DEF Identity!Sync, Identity!Drop, Identity!Only, Identity!Forgets, Identity!mailboxes
<1>2. ASSUME NEW p \in Identity!Places PROVE held'[p] \in HeldRecords
  <2>1. held[p] \in HeldRecords /\ p[2] \in 1..MaxPlaceUid
    BY DEF FollowInv, HeldFits, Identity!Places
  <2>2. server[b][p[2]] \in SomeMessage
    BY <2>1 DEF FollowInv, ServerFits
  <2>3. Identity!NotHeld \in HeldRecords /\ [header |-> server[b][p[2]], body |-> NoMessage] \in HeldRecords
    BY <2>2 DEF HeldRecords, SomeMessage, Identity!NotHeld
  <2> QED BY <1>1, <2>1, <2>3
<1>3. HeldFits'
  BY <1>1, <1>2 DEF HeldFits
<1>4. bound \cap DOMAIN ciRows = bound
  OBVIOUS
<1> HIDE DEF bound
<1>5. ASSUME NEW l \in DOMAIN ciRows \ bound PROVE StoredAs(ciRows'[l], l) /\ ciRows'[l].ok = ciRows[l].ok
  BY <1>1 DEF FollowInv, StoredRows
<1>6. StoredRows(ciRows') /\ KeptStands'
  BY <1>1, <1>4, <1>5, RowsDropped DEF FollowInv
<1> QED BY <1>1, <1>3, <1>6 DEF FollowInv, ServerFits, PagesFit, StoredRows

LEMMA PageAsked ==
  ASSUME FollowInv, NEW c \in Callers, NEW p \in Identity!Places,
         Identity!ConfirmFullHtml(c, p) \/ Identity!OpenDetail(c, p)
  PROVE  FollowInv'
<1>1. PICK m \in Messages, begins \in {"keys", "render", "detail"}, refresh \in BOOLEAN :
        /\ Identity!EnsureBody(p, m)
        /\ ciCall' = [ciCall EXCEPT ![c] = [at |-> begins, of |-> m, place |-> p, refresh |-> refresh,
                                            whole |-> FALSE, keys |-> {}, work |-> {}]]
        /\ UNCHANGED <<server, ciRows, kept>>
  BY DEF Identity!ConfirmFullHtml, Identity!FetchMessage, Identity!OpenDetail, Identity!Goes, Identity!history,
         Identity!mailboxes
<1>2. PageCall([at |-> begins, of |-> m, place |-> p, refresh |-> refresh, whole |-> FALSE, keys |-> {}, work |-> {}])
  BY PageBegun
<1>3. PagesFit'
  BY <1>1, <1>2, PageGoes DEF FollowInv
<1>4. HeldFits'
  BY <1>1, BodyEnsured DEF FollowInv
<1> QED BY <1>1, <1>3, <1>4, ContentRests DEF FollowInv, ServerFits

LEMMA KeysMade ==
  ASSUME FollowInv, NEW c \in Callers, Identity!Keys(c)
  PROVE  FollowInv'
<1> DEFINE k == ciCall[c]
<1> DEFINE keys == {Identity!Key(k.place, u) : u \in Named[k.of]}
<1> DEFINE hits == IF k.refresh THEN {} ELSE keys \cap DOMAIN ciRows
<1> DEFINE dropped == IF k.refresh THEN keys ELSE {}
<1> DEFINE whole == held[k.place] = Identity!Whole(k.of)
<1> DEFINE onward == [k EXCEPT !.at = "fetch", !.keys = keys, !.work = keys \ hits, !.whole = whole]
<1>1. /\ k.at = "keys"
      /\ ciRows' = [l \in DOMAIN ciRows \ dropped |-> IF l \in hits THEN [ciRows[l] EXCEPT !.place = k.place] ELSE ciRows[l]]
      /\ kept' = kept \ Identity!For(dropped)
      /\ ciCall' = [ciCall EXCEPT ![c] = onward]
      /\ UNCHANGED <<server, held>>
  BY DEF Identity!Keys, Identity!Goes, Identity!Forgets, Identity!mailboxes, Identity!local
<1>2. /\ k = [at |-> k.at, of |-> k.of, place |-> k.place, refresh |-> k.refresh, whole |-> k.whole,
              keys |-> k.keys, work |-> k.work]
      /\ k.of \in Messages /\ k.place \in Identity!Places
  BY <1>1, PageIs DEF FollowInv
<1>3. whole => \A key \in keys : key = Stable(k.of, key[2])
  <2> SUFFICES ASSUME held[k.place] = Identity!Whole(k.of), NEW u \in Named[k.of]
               PROVE  Identity!Key(k.place, u) = Stable(k.of, Identity!Key(k.place, u)[2])
    OBVIOUS
  <2>1. Identity!Key(k.place, u) = Stable(k.of, u)
    BY <1>2, StableIs
  <2> QED BY <2>1 DEF Stable
<1> HIDE DEF k, keys, hits, dropped, whole
<1>4. /\ onward = [at |-> "fetch", of |-> k.of, place |-> k.place, refresh |-> k.refresh,
                   whole |-> whole, keys |-> keys, work |-> keys \ hits]
  <2> DEFINE work == keys \ hits
  <2> DEFINE k1 == [k EXCEPT !.at = "fetch"]
  <2> DEFINE k2 == [k1 EXCEPT !.keys = keys]
  <2> DEFINE k3 == [k2 EXCEPT !.work = work]
  <2> DEFINE k4 == [k3 EXCEPT !.whole = whole]
  <2> HIDE DEF work
  <2>1. k1 = [at |-> "fetch", of |-> k.of, place |-> k.place, refresh |-> k.refresh, whole |-> k.whole,
              keys |-> k.keys, work |-> k.work]
    BY <1>2
  <2> HIDE DEF k1
  <2>2. k2 = [at |-> "fetch", of |-> k.of, place |-> k.place, refresh |-> k.refresh, whole |-> k.whole,
              keys |-> keys, work |-> k.work]
    BY <2>1
  <2> HIDE DEF k2
  <2>3. k3 = [at |-> "fetch", of |-> k.of, place |-> k.place, refresh |-> k.refresh, whole |-> k.whole,
              keys |-> keys, work |-> work]
    BY <2>2
  <2> HIDE DEF k3
  <2>4. k4 = [at |-> "fetch", of |-> k.of, place |-> k.place, refresh |-> k.refresh, whole |-> whole,
              keys |-> keys, work |-> work]
    BY <2>3
  <2> HIDE DEF k4
  <2>5. onward = k4
    BY DEF k4, k3, k2, k1, work
  <2> QED BY <2>4, <2>5 DEF work
<1>5. PageCall(onward)
  <2>1. /\ onward.at = "fetch" /\ onward.of = k.of /\ onward.place = k.place /\ onward.refresh = k.refresh
        /\ onward.whole = whole /\ onward.keys = keys /\ onward.work = keys \ hits
    BY <1>4
  <2>2. onward = [at |-> onward.at, of |-> onward.of, place |-> onward.place, refresh |-> onward.refresh,
                  whole |-> onward.whole, keys |-> onward.keys, work |-> onward.work]
    BY <1>4, <2>1
  <2> HIDE DEF onward
  <2> QED BY <1>2, <1>3, <2>1, <2>2 DEF PageCall
<1> HIDE DEF onward
<1>6. PagesFit'
  BY <1>1, <1>5, PageGoes DEF FollowInv
<1>8. ASSUME NEW l \in DOMAIN ciRows \ dropped PROVE StoredAs(ciRows'[l], l) /\ ciRows'[l].ok = ciRows[l].ok
  BY <1>1, <1>2, BoundAs DEF FollowInv, StoredRows
<1>9. StoredRows(ciRows')
  BY <1>1, <1>8, FS_Subset DEF FollowInv, StoredRows
<1>10. KeptStands'
  <2> SUFFICES ASSUME NEW m \in Messages, NEW u, <<m, u>> \in kept'
               PROVE  Stable(m, u) \in DOMAIN ciRows' /\ ciRows'[Stable(m, u)].ok
    BY DEF KeptStands, Identity!Good
  <2>1. Stable(m, u) \in DOMAIN ciRows /\ ciRows[Stable(m, u)].ok
    BY <1>1 DEF FollowInv, KeptStands, Identity!Good
  <2>2. Stable(m, u)[1].body = m /\ Stable(m, u)[2] = u
    BY DEF Stable
  <2>3. Stable(m, u) \notin dropped
    BY <1>1, <2>2 DEF Identity!For
  <2> QED BY <1>1, <1>8, <2>1, <2>3
<1> QED BY <1>1, <1>6, <1>9, <1>10 DEF FollowInv, ServerFits, HeldFits, StoredRows

LEMMA ResourceLands ==
  ASSUME FollowInv, NEW c \in Callers, NEW key, Identity!Land(c, key)
  PROVE  FollowInv'
<1> DEFINE k == ciCall[c]
<1> DEFINE left == k.work \ {key}
<1> DEFINE onward == [k EXCEPT !.work = left]
<1>1. PICK ok \in BOOLEAN :
        /\ k.at = "fetch" /\ key \in k.work
        /\ ciRows' = [l \in DOMAIN ciRows \cup {key} |->
             IF l # key THEN ciRows[l] ELSE IF key \in DOMAIN ciRows THEN [ciRows[key] EXCEPT !.ok = ok]
             ELSE [place |-> k.place, url |-> key[2], ok |-> ok]]
        /\ \/ ~ok /\ kept' = kept \ Identity!For({key})
           \/ ok /\ k.whole /\ kept' = kept \cup {<<k.of, key[2]>>}
           \/ ok /\ kept' = kept
        /\ ciCall' = [ciCall EXCEPT ![c] = onward]
        /\ UNCHANGED <<server, held>>
  BY DEF Identity!Land, Identity!Put, Identity!Goes, Identity!Forgets, Identity!history, Identity!mailboxes, Identity!local
<1>2. /\ k = [at |-> k.at, of |-> k.of, place |-> k.place, refresh |-> k.refresh, whole |-> k.whole,
              keys |-> k.keys, work |-> k.work]
      /\ k.of \in Messages /\ k.place \in Identity!Places
      /\ k.whole => \A l \in k.work : l = Stable(k.of, l[2])
  BY <1>1, PageIs DEF FollowInv
<1> HIDE DEF k
<1>3. /\ onward = [at |-> k.at, of |-> k.of, place |-> k.place, refresh |-> k.refresh, whole |-> k.whole,
                   keys |-> k.keys, work |-> left]
  BY <1>2
<1>4. PageCall(onward)
  <2>1. /\ onward.at = k.at /\ onward.of = k.of /\ onward.place = k.place /\ onward.refresh = k.refresh
        /\ onward.whole = k.whole /\ onward.keys = k.keys /\ onward.work = left
    BY <1>3
  <2>2. onward = [at |-> onward.at, of |-> onward.of, place |-> onward.place, refresh |-> onward.refresh,
                  whole |-> onward.whole, keys |-> onward.keys, work |-> onward.work]
    BY <1>3, <2>1
  <2>3. left \subseteq k.work
    OBVIOUS
  <2> HIDE DEF onward, left
  <2> QED BY <1>1, <1>2, <2>1, <2>2, <2>3 DEF PageCall
<1> HIDE DEF onward, left
<1>5. PagesFit'
  BY <1>1, <1>4, PageGoes DEF FollowInv
<1>6. StoredAs(ciRows'[key], key) /\ ciRows'[key].ok = ok
  <2>1. CASE key \in DOMAIN ciRows
    <3> DEFINE r == ciRows[key]
    <3>1. r.place \in Identity!Places /\ r = [place |-> r.place, url |-> key[2], ok |-> r.ok]
      BY <2>1 DEF FollowInv, StoredRows, StoredAs
    <3>2. ciRows'[key] = [r EXCEPT !.ok = ok]
      BY <1>1, <2>1
    <3> HIDE DEF r
    <3>3. ciRows'[key] = [place |-> r.place, url |-> key[2], ok |-> ok]
      BY <3>1, <3>2
    <3> QED BY <3>1, <3>3 DEF StoredAs
  <2>2. CASE key \notin DOMAIN ciRows
    <3>1. ciRows'[key] = [place |-> k.place, url |-> key[2], ok |-> ok]
      BY <1>1, <2>2
    <3> QED BY <1>2, <3>1 DEF StoredAs
  <2> QED BY <2>1, <2>2
<1>7. \A l \in DOMAIN ciRows \ {key} : l \in DOMAIN ciRows' /\ ciRows'[l] = ciRows[l]
  BY <1>1
<1>8. DOMAIN ciRows' = DOMAIN ciRows \cup {key}
  BY <1>1
<1>9. StoredRows(ciRows')
  <2>1. IsFiniteSet(DOMAIN ciRows \cup {key})
    BY FS_AddElement DEF FollowInv, StoredRows
  <2> QED BY <1>6, <1>7, <1>8, <2>1 DEF FollowInv, StoredRows
<1>10. KeptStands'
  <2> SUFFICES ASSUME NEW m \in Messages, NEW u, <<m, u>> \in kept'
               PROVE  Stable(m, u) \in DOMAIN ciRows' /\ ciRows'[Stable(m, u)].ok
    BY DEF KeptStands, Identity!Good
  <2>1. CASE Stable(m, u) = key
    <3>1. Stable(m, u)[1].body = m /\ Stable(m, u)[2] = u
      BY DEF Stable
    <3>2. <<m, u>> \in Identity!For({key})
      BY <2>1, <3>1 DEF Identity!For
    <3> QED BY <1>1, <1>6, <1>8, <2>1, <3>2
  <2>2. CASE Stable(m, u) # key
    <3>1. <<m, u>> \in kept
      <4>1. ASSUME k.whole, <<m, u>> = <<k.of, key[2]>> PROVE FALSE
        <5>1. key = Stable(k.of, key[2])
          BY <1>1, <1>2, <4>1
        <5> QED BY <2>2, <4>1, <5>1
      <4> QED BY <1>1, <4>1
    <3>2. Stable(m, u) \in DOMAIN ciRows /\ ciRows[Stable(m, u)].ok
      BY <3>1 DEF FollowInv, KeptStands, Identity!Good
    <3> QED BY <1>7, <2>2, <3>2
  <2> QED BY <2>1, <2>2
<1> QED BY <1>1, <1>5, <1>9, <1>10 DEF FollowInv, ServerFits, HeldFits, StoredRows

LEMMA PageEnds ==
  ASSUME FollowInv, NEW c \in Callers, Identity!Counted(c) \/ Identity!Render(c)
  PROVE  FollowInv'
<1> DEFINE k == ciCall[c]
<1> DEFINE onward == [k EXCEPT !.at = "render"]
<1>1. /\ k.at # "idle" /\ UNCHANGED <<server, held, ciRows, kept>>
      /\ \/ ciCall' = [ciCall EXCEPT ![c] = Identity!Idle]
         \/ ciCall' = [ciCall EXCEPT ![c] = onward]
  BY DEF Identity!Counted, Identity!Render, Identity!Goes, Identity!history, Identity!mailboxes, Identity!local
<1>2. /\ k = [at |-> k.at, of |-> k.of, place |-> k.place, refresh |-> k.refresh, whole |-> k.whole,
              keys |-> k.keys, work |-> k.work]
      /\ k.of \in Messages /\ k.place \in Identity!Places
      /\ k.whole => \A l \in k.work : l = Stable(k.of, l[2])
  BY <1>1, PageIs DEF FollowInv
<1> HIDE DEF k
<1>3. onward = [at |-> "render", of |-> k.of, place |-> k.place, refresh |-> k.refresh, whole |-> k.whole,
                keys |-> k.keys, work |-> k.work]
  BY <1>2
<1>4. PageCall(onward) /\ PageCall(Identity!Idle)
  <2>1. /\ onward.at = "render" /\ onward.of = k.of /\ onward.place = k.place /\ onward.refresh = k.refresh
        /\ onward.whole = k.whole /\ onward.keys = k.keys /\ onward.work = k.work
    BY <1>3
  <2>2. onward = [at |-> onward.at, of |-> onward.of, place |-> onward.place, refresh |-> onward.refresh,
                  whole |-> onward.whole, keys |-> onward.keys, work |-> onward.work]
    BY <1>3, <2>1
  <2> HIDE DEF onward
  <2> QED BY <1>2, <2>1, <2>2 DEF PageCall
<1> HIDE DEF onward
<1>5. PagesFit'
  BY <1>1, <1>4, PageGoes DEF FollowInv
<1> QED BY <1>1, <1>5, ContentRests DEF FollowInv, ServerFits, HeldFits

-----------------------------------------------------------------------------
(* A start. *)

LEMMA RekeyIs ==
  ASSUME NEW table, StoredRows(table), NEW old \in DOMAIN table, StoredAs(ciRows[old], old)
  PROVE  /\ StoredRows(Identity!Rekey(table, old))
         /\ \A x \in DOMAIN table \ {old} :
              x \in DOMAIN Identity!Rekey(table, old) /\ Identity!Rekey(table, old)[x] = table[x]
<1> DEFINE new == Identity!Key(ciRows[old].place, ciRows[old].url)
<1> DEFINE after == Identity!Rekey(table, old)
<1>1. after = IF new \in DOMAIN table THEN [k \in DOMAIN table \ {old} |-> table[k]]
              ELSE [k \in (DOMAIN table \ {old}) \cup {new} |-> IF k = new THEN table[old] ELSE table[k]]
  BY DEF Identity!Rekey
<1>2. new[2] = old[2]
  <2> DEFINE r == ciRows[old]
  <2>1. r = [place |-> r.place, url |-> old[2], ok |-> r.ok]
    BY DEF StoredAs
  <2> HIDE DEF r
  <2>2. r.url = old[2]
    BY <2>1
  <2>3. new = <<Identity!Identity(r.place), r.url>>
    BY DEF Identity!Key, r
  <2> QED BY <2>2, <2>3
<1> HIDE DEF new, after
<1>3. IsFiniteSet(DOMAIN table \ {old}) /\ IsFiniteSet((DOMAIN table \ {old}) \cup {new})
  <2>1. IsFiniteSet(DOMAIN table \ {old})
    BY FS_Subset DEF StoredRows
  <2> QED BY <2>1, FS_AddElement
<1>4. CASE new \in DOMAIN table
  <2>1. DOMAIN after = DOMAIN table \ {old} /\ \A k \in DOMAIN table \ {old} : after[k] = table[k]
    BY <1>1, <1>4
  <2> QED BY <1>3, <2>1 DEF StoredRows, after
<1>5. CASE new \notin DOMAIN table
  <2>1. /\ DOMAIN after = (DOMAIN table \ {old}) \cup {new} /\ after[new] = table[old]
        /\ \A k \in DOMAIN table \ {old} : after[k] = table[k]
    BY <1>1, <1>5
  <2>2. StoredAs(after[new], new)
    BY <1>2, <2>1 DEF StoredRows, StoredAs
  <2> QED BY <1>3, <2>1, <2>2 DEF StoredRows, after
<1> QED BY <1>4, <1>5

\* What the rows are after so many of the keys have been passed.
PassFits(table, order, k, n) ==
  /\ StoredRows(table)
  /\ \A j \in k + 1..n : order[j] \in DOMAIN table
  /\ \A x \in DOMAIN ciRows : (\A j \in 1..n : order[j] # x) => x \in DOMAIN table /\ table[x] = ciRows[x]

LEMMA PassGoes ==
  ASSUME StoredRows(ciRows), NEW n \in Nat, NEW k \in 1..n, NEW order, NEW table, PassFits(table, order, k - 1, n),
         \A i \in 1..n : order[i] \in DOMAIN ciRows, \A i, j \in 1..n : i # j => order[i] # order[j]
  PROVE  PassFits(Identity!Rekey(table, order[k]), order, k, n)
<1> DEFINE after == Identity!Rekey(table, order[k])
<1>1. k \in (k - 1) + 1..n /\ \A j \in k + 1..n : j \in (k - 1) + 1..n /\ j # k /\ j \in 1..n
  OBVIOUS
<1>2. order[k] \in DOMAIN table /\ StoredRows(table)
  BY <1>1 DEF PassFits
<1>3. StoredAs(ciRows[order[k]], order[k])
  BY DEF StoredRows
<1>4. StoredRows(after) /\ \A x \in DOMAIN table \ {order[k]} : x \in DOMAIN after /\ after[x] = table[x]
  BY <1>2, <1>3, RekeyIs
<1> HIDE DEF after
<1>5. \A j \in k + 1..n : order[j] \in DOMAIN after
  <2> SUFFICES ASSUME NEW j \in k + 1..n PROVE order[j] \in DOMAIN after
    OBVIOUS
  <2>1. order[j] \in DOMAIN table /\ order[j] # order[k]
    BY <1>1 DEF PassFits
  <2> QED BY <1>4, <2>1
<1>6. ASSUME NEW x \in DOMAIN ciRows, \A j \in 1..n : order[j] # x PROVE x \in DOMAIN after /\ after[x] = ciRows[x]
  <2>1. x \in DOMAIN table /\ table[x] = ciRows[x] /\ x # order[k]
    BY <1>6 DEF PassFits
  <2> QED BY <1>4, <2>1
<1> QED BY <1>4, <1>5, <1>6 DEF PassFits, after

LEMMA RekeyedIs ==
  ASSUME StoredRows(ciRows), NEW n \in Nat, NEW order, DOMAIN order = 1..n,
         \A i \in 1..n : order[i] \in DOMAIN ciRows, \A i, j \in 1..n : i # j => order[i] # order[j]
  PROVE  PassFits(Rekeyed(ciRows, order), order, n, n)
<1>1. PICK h : /\ h[0] = ciRows /\ h[n] = Rekeyed(ciRows, order)
               /\ \A k \in 1..n : h[k] = Identity!Rekey(h[k - 1], order[k])
  <2>1. \E h : Passes(h, ciRows, order, n)
    BY RekeyTrace
  <2> QED BY <2>1 DEF Passes
<1> DEFINE bad == {k \in Nat : k <= n /\ ~PassFits(h[k], order, k, n)}
<1>2. PassFits(ciRows, order, 0, n)
  BY DEF PassFits
<1>3. ASSUME bad # {} PROVE FALSE
  <2>1. PICK k \in bad : \A m \in bad : k <= m
    <3>1. bad \in SUBSET Nat
      OBVIOUS
    <3> HIDE DEF bad
    <3> QED BY <1>3, <3>1, LeastExists
  <2>2. k # 0 /\ k \in Nat /\ k <= n /\ ~PassFits(h[k], order, k, n)
    BY <1>1, <1>2, <2>1
  <2>3. k - 1 \in Nat /\ k - 1 <= n /\ k - 1 \notin bad
    <3>1. bad \subseteq Nat
      OBVIOUS
    <3> HIDE DEF bad
    <3> QED BY <2>1, <2>2, <3>1
  <2>4. PassFits(h[k - 1], order, k - 1, n)
    BY <2>3
  <2>5. k \in 1..n /\ h[k] = Identity!Rekey(h[k - 1], order[k])
    BY <1>1, <2>2
  <2> QED BY <2>2, <2>4, <2>5, PassGoes
<1>4. n \notin bad
  BY <1>3
<1> QED BY <1>1, <1>4

LEMMA KeysRewritten ==
  ASSUME FollowInv, Identity!Boot
  PROVE  FollowInv'
<1> DEFINE moved == {k \in DOMAIN ciRows : Identity!Key(ciRows[k].place, ciRows[k].url) # k}
<1> DEFINE n == Identity!Cardinality(moved)
<1>1. PICK order \in Identity!SetToSeqs(moved) : ciRows' = Rekeyed(ciRows, order)
  BY DEF Identity!Boot, Rekeyed
<1>2. kept' = kept \ Identity!Loses(DOMAIN ciRows) /\ UNCHANGED <<server, held, ciCall>>
  BY DEF Identity!Boot, Identity!mailboxes, Identity!local
<1>3. n \in Nat
  <2>1. IsFiniteSet(moved)
    BY FS_Subset DEF FollowInv, StoredRows
  <2>2. n = Cardinality(moved)
    BY DEF Identity!Cardinality, Cardinality, Identity!IsFiniteSet, IsFiniteSet
  <2> QED BY <2>1, <2>2, FS_CardinalityType
<1>4. DOMAIN order = 1..n /\ (\A i \in 1..n : order[i] \in moved) /\ \A i, j \in 1..n : i # j => order[i] # order[j]
  BY <1>1 DEF Identity!SetToSeqs
<1> HIDE DEF n
<1>5. PassFits(ciRows', order, n, n)
  <2>1. \A i \in 1..n : order[i] \in DOMAIN ciRows
    BY <1>4
  <2> HIDE DEF moved
  <2> QED BY <1>1, <1>3, <1>4, <2>1, RekeyedIs DEF FollowInv
<1>6. KeptStands'
  <2> SUFFICES ASSUME NEW m \in Messages, NEW u, <<m, u>> \in kept'
               PROVE  Stable(m, u) \in DOMAIN ciRows' /\ ciRows'[Stable(m, u)].ok
    BY DEF KeptStands, Identity!Good
  <2> DEFINE k == Stable(m, u)
  <2> DEFINE r == ciRows[k]
  <2>1. k \in DOMAIN ciRows /\ r.ok
    BY <1>2 DEF FollowInv, KeptStands, Identity!Good
  <2>2. k[1].body = m /\ k[2] = u
    BY DEF Stable
  <2>3. k = <<k[1], k[2]>>
    BY DEF Stable
  <2>4. r = [place |-> r.place, url |-> k[2], ok |-> r.ok]
    BY <2>1 DEF FollowInv, StoredRows, StoredAs
  <2> HIDE DEF k, r
  <2>5. r.url = k[2]
    BY <2>4
  <2>6. ASSUME k \in moved PROVE FALSE
    <3>1. Identity!Key(r.place, r.url) = <<Identity!Identity(r.place), k[2]>>
      BY <2>5 DEF Identity!Key
    <3>2. Identity!Identity(r.place) # k[1]
      BY <2>3, <2>6, <3>1 DEF r
    <3>3. Identity!Key(r.place, r.url)[1] # k[1]
      BY <3>1, <3>2
    <3>4. <<m, u>> \in Identity!Loses(DOMAIN ciRows)
      BY <2>1, <2>2, <3>3 DEF Identity!Loses, r
    <3> QED BY <1>2, <3>4
  <2>7. \A j \in 1..n : order[j] # k
    BY <1>4, <2>6
  <2>8. k \in DOMAIN ciRows' /\ ciRows'[k] = ciRows[k]
    BY <1>5, <2>1, <2>7 DEF PassFits
  <2> QED BY <2>1, <2>8 DEF k, r
<1>7. StoredRows(ciRows')
  BY <1>5 DEF PassFits
<1> QED BY <1>2, <1>6, <1>7 DEF FollowInv, ServerFits, HeldFits, PagesFit, StoredRows

LEMMA ProcessStops ==
  ASSUME FollowInv, Identity!Stop
  PROVE  FollowInv'
<1>1. UNCHANGED <<server, held, ciRows, kept>> /\ ciCall' = [c \in Callers |-> Identity!Idle]
  BY DEF Identity!Stop, Identity!history, Identity!mailboxes, Identity!local
<1>2. PagesFit'
  BY <1>1 DEF PagesFit, PageCall
<1> QED BY <1>1, <1>2, ContentRests DEF FollowInv, ServerFits, HeldFits

-----------------------------------------------------------------------------
LEMMA ContentKeeps == ASSUME FollowInv, Identity!Next PROVE FollowInv'
<1>1. ASSUME NEW c \in Callers, NEW p \in Identity!Places, Identity!ReadCached(c, p) PROVE FollowInv'
  <2>1. Identity!RenderCached(c, p) /\ UNCHANGED <<server, held, kept>>
    BY <1>1 DEF Identity!ReadCached, Identity!history, Identity!mailboxes, Identity!local
  <2> QED BY <2>1, CachedRead
<1>2. ASSUME NEW c \in Callers, Identity!LookForRetry(c) PROVE FollowInv'
  <2>1. /\ ciCall[c].at # "idle" /\ Identity!RenderCached(c, ciCall[c].place)
        /\ UNCHANGED <<server, held, kept>>
    BY <1>2 DEF Identity!LookForRetry, Identity!history, Identity!mailboxes, Identity!local
  <2>2. ciCall[c].place \in Identity!Places
    BY <2>1, PageIs DEF FollowInv
  <2> QED BY <2>1, <2>2, CachedRead
<1>3. CASE \E c \in Callers :
             \/ \E p \in Identity!Places :
                  Identity!ConfirmFullHtml(c, p) \/ Identity!ReadCached(c, p) \/ Identity!OpenDetail(c, p)
             \/ Identity!Keys(c) \/ Identity!LookForRetry(c) \/ Identity!Counted(c) \/ Identity!Render(c)
             \/ \E key \in IF ciCall[c] = Identity!Idle THEN {} ELSE ciCall[c].work : Identity!Land(c, key)
  BY <1>1, <1>2, <1>3, PageAsked, KeysMade, PageEnds, ResourceLands
<1>4. CASE \E b \in Mailboxes : Identity!Recreate(b) \/ Identity!Sync(b)
  BY <1>4, ServerMoves, MailboxSynchronised
<1> QED BY <1>3, <1>4, ServerMoves, KeysRewritten, ProcessStops DEF Identity!Next

LEMMA ContentStarts == Identity!Init => FollowInv
<1> SUFFICES ASSUME Identity!Init PROVE FollowInv
  OBVIOUS
<1>1. ServerFits
  <2>1. ASSUME NEW b \in Mailboxes, NEW i \in 1..MaxPlaceUid
        PROVE  (IF i <= Len(Layout[b]) THEN Layout[b][i] ELSE NoMessage) \in SomeMessage
    BY IdentityConstants DEF SomeMessage
  <2> QED BY <2>1 DEF Identity!Init, ServerFits
<1>2. HeldFits
  BY DEF Identity!Init, HeldFits, HeldRecords, SomeMessage, Identity!NotHeld
<1>3. StoredRows(ciRows)
  <2>1. PICK old \in SUBSET LegacyRows :
          ciRows = [k \in {Identity!LegacyKey(o.place, o.url) : o \in old} |->
            CHOOSE r \in [place : Identity!Places, url : {k[2]}, ok : {TRUE}] : Identity!LegacyKey(r.place, r.url) = k]
    BY DEF Identity!Init
  <2> DEFINE ks == {Identity!LegacyKey(o.place, o.url) : o \in old}
  <2>2. IsFiniteSet(ks)
    <3>1. IsFiniteSet(old)
      BY IdentityConstants, FS_Subset
    <3> DEFINE f == [o \in old |-> Identity!LegacyKey(o.place, o.url)]
    <3>2. f \in Surjection(old, ks)
      BY DEF Surjection
    <3> QED BY <3>1, <3>2, FS_Surjection
  <2>3. ASSUME NEW k \in ks PROVE StoredAs(ciRows[k], k)
    <3>1. PICK o \in old : k = Identity!LegacyKey(o.place, o.url)
      OBVIOUS
    <3> DEFINE r == [place |-> o.place, url |-> o.url, ok |-> TRUE]
    <3>2. o.place \in Identity!Places /\ k[2] = o.url
      BY <3>1, IdentityConstants DEF Identity!LegacyKey
    <3>3. r \in [place : Identity!Places, url : {k[2]}, ok : {TRUE}] /\ Identity!LegacyKey(r.place, r.url) = k
      BY <3>1, <3>2
    <3>4. ciRows[k] \in [place : Identity!Places, url : {k[2]}, ok : {TRUE}]
      BY <2>1, <3>3
    <3> QED BY <3>4 DEF StoredAs
  <2>4. DOMAIN ciRows = ks
    BY <2>1
  <2> HIDE DEF ks
  <2> QED BY <2>2, <2>3, <2>4 DEF StoredRows
<1>4. PagesFit /\ KeptStands
  BY DEF Identity!Init, PagesFit, PageCall, KeptStands
<1> QED BY <1>1, <1>2, <1>3, <1>4 DEF FollowInv

LEMMA ContentTurn == FollowInv /\ [Next]_allVars => FollowInv'
<1> SUFFICES ASSUME FollowInv, [Next]_allVars PROVE FollowInv'
  OBVIOUS
<1>1. CASE Identity!Next
  BY <1>1, ContentKeeps
<1>2. CASE UNCHANGED identityVars
  <2>1. UNCHANGED <<server, held, ciRows, ciCall, kept>>
    BY <1>2 DEF identityVars
  <2> QED BY <2>1, ContentRests DEF FollowInv, ServerFits, HeldFits, PagesFit
<1> QED BY <1>1, <1>2 DEF Next, allVars

LEMMA ContentShows == FollowInv => KeptContentFollows
<1> SUFFICES ASSUME FollowInv PROVE Identity!TypeOK /\ Identity!KeptContentFollows
  BY DEF KeptContentFollows
<1>1. Identity!TypeOK
  BY DEF FollowInv, HeldFits, HeldRecords, SomeMessage, StoredRows, StoredAs, Identity!TypeOK
<1>2. Identity!KeptContentFollows
  BY StableIs DEF Identity!KeptContentFollows, FollowInv, KeptStands
<1> QED BY <1>1, <1>2

\* For any mailboxes, messages and resources: what was fetched of a message that is held with its
\* body is found from every place that holds it so, through moves, synchronisations, restarts and
\* concurrent readers, unless it was dropped, failed again or lost its key in a start.
THEOREM ContentFollows == Spec => []KeptContentFollows
<1>1. Init => FollowInv
  BY ContentStarts DEF Init
<1> QED BY <1>1, ContentShows, ContentTurn, PTL DEF Spec
=============================================================================
