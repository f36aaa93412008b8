-------------------------- MODULE RecordsProofs --------------------------
(***************************************************************************)
(* What is proved of the parts that MCRecords puts side by side, for every *)
(* value of their constants: recipients, accounts, the index of sent mail, *)
(* reads by page and structured data.  The ledger is proved in             *)
(* OutboundSafetyProofs.                                                   *)
(***************************************************************************)
EXTENDS MCRecords, TLAPS, FiniteSetTheorems, SequenceTheorems, WellFoundedInduction


-----------------------------------------------------------------------------
(***************************************************************************)
(* Who a message goes to.                                                  *)
(***************************************************************************)

CallRecords ==
  [at : {"exact", "domains", "history", "leg", "transport", "deliver", "archive"}, ask : Asks, n : 1..4,
   seen : SUBSET Addresses, now : SUBSET Addresses, left : SUBSET Addresses, went : BOOLEAN,
   named : SUBSET Addresses, bare : SUBSET Sends!PolicyTables, free : SUBSET Addresses]

\* Whom the policy let pass at some moment of a call, as far as its three reads can tell.
LetPass(k) == {a \in Addresses : a \in k.named \/ (~reLoad.previous /\ k.bare = Sends!PolicyTables)}

Cleared(k) == k.ask.manual \/ Sends!Everyone(k.ask) \subseteq LetPass(k)

\* The policy and the suppressions as they are now are part of what a call remembers.
Remembers(k) ==
  Sends!Listed \subseteq k.named /\ Sends!Empty \subseteq k.bare /\ Addresses \ suppressed \subseteq k.free

Consulting(k) == k.at \in {"exact", "domains", "history"}

\* What was read of the policy was in it at some moment of the call; To, Cc and Bcc were let pass
\* one after the other, and none of them is written to before all were.
Fitting ==
  {k \in CallRecords :
    /\ Remembers(k)
    /\ k.now \subseteq Sends!Everyone(k.ask) /\ k.left \subseteq Sends!Everyone(k.ask)
    /\ k.at \in {"domains", "history"} => legacy.kind = "none"
    /\ k.at = "domains" => k.seen \subseteq k.named /\ (k.seen = {} => "exact" \in k.bare)
    /\ k.at = "history" => k.seen \subseteq LetPass(k)
    /\ Consulting(k) /\ k.now = {} =>
         /\ k.n <= 3
         /\ k.n > 1 => Sends!To(k.ask) \subseteq LetPass(k)
         /\ k.n > 2 => Sends!Cc(k.ask) \subseteq LetPass(k)
    /\ (Consulting(k) /\ k.now = {}) \/ Cleared(k)
    /\ k.at = "deliver" => k.now \subseteq k.free \cup k.ask.confirm}

CallStates == Fitting \cup {Sends!Idle}

\* The policy of an earlier release is all there is until it is migrated.
PolicyFits ==
  /\ reLoad \in SendLoads /\ legacy \in Legacies \cup {Sends!Migrated} /\ seeded \in BOOLEAN
  /\ legacy.kind # "none" => domains = {} /\ exact = {}
  /\ domains \subseteq Domains
  /\ exact \subseteq Addresses /\ history \subseteq Addresses /\ suppressed \subseteq Addresses
  /\ drafts \subseteq SUBSET Addresses

LastFits(r) ==
  /\ r.ask \in Asks /\ r.to \in Sends!Everyone(r.ask)
  /\ r.ask.manual \/ r.named \/ r.bare
  /\ r.free

RecipientsInv ==
  /\ PolicyFits
  /\ reCall \in [Senders -> CallStates]
  /\ \A r \in last : LastFits(r)

LEMMA AskIs ==
  ASSUME NEW ask \in Asks
  PROVE  /\ ask.manual \in BOOLEAN /\ ask.single \in BOOLEAN /\ ask.kind \in {"send", "reply", "follow_up"}
         /\ ask.to \subseteq Addresses /\ ask.cc \subseteq Addresses /\ ask.bcc \subseteq Addresses
         /\ ask.thread.from \subseteq Addresses /\ ask.thread.replyTo \subseteq Addresses
         /\ ask.thread.to \subseteq Addresses /\ ask.thread.cc \subseteq Addresses
<1>1. ask \in
       [kind : {"send", "reply", "follow_up"},
        thread : [from : SUBSET Addresses, replyTo : SUBSET Addresses, to : SUBSET Addresses, cc : SUBSET Addresses],
        to : SUBSET Addresses, cc : SUBSET Addresses, bcc : SUBSET Addresses, confirm : SUBSET Addresses,
        manual : BOOLEAN, single : BOOLEAN]
  BY RecordsAssumption DEF Sends!RecipientsAssumption
<1> QED BY <1>1

LEMMA LoadIs == ASSUME NEW l \in SendLoads PROVE l.callers \subseteq Senders /\ l.asks \subseteq Asks
BY RecordsAssumption DEF Sends!RecipientsAssumption

LEMMA LegacyIs ==
  ASSUME NEW l \in Legacies \cup {Sends!Migrated}
  PROVE  /\ l.kind = "none" => l.exact = {} /\ l.domains = {}
         /\ Sends!Said(l.exact) \subseteq Addresses /\ Sends!Said(l.domains) \subseteq Domains
<1>1. CASE l \in Legacies
  BY <1>1, RecordsAssumption DEF Sends!RecipientsAssumption, Sends!Said
<1>2. CASE l = Sends!Migrated
  BY <1>2 DEF Sends!Migrated, Sends!Said
<1> QED BY <1>1, <1>2

LEMMA SaidNothing == Sends!Said({}) = {}
BY DEF Sends!Said

\* Once migrated, the policy is what its two tables say.
LEMMA PolicyHere ==
  ASSUME PolicyFits, legacy.kind = "none"
  PROVE  Sends!Listed = Sends!ListedBy(domains, exact, history) /\ Sends!Empty = Sends!EmptyOf(domains, exact)
<1>1. legacy.exact = {} /\ legacy.domains = {}
  BY LegacyIs DEF PolicyFits
<1>2. domains \cup Sends!Said({}) = domains /\ exact \cup Sends!Said({}) = exact
  BY SaidNothing
<1> QED BY <1>1, <1>2 DEF Sends!Listed, Sends!Empty

LEMMA PolicyIn ==
  ASSUME NEW d, NEW e, NEW h
  PROVE  Sends!ListedBy(d, e, h) \subseteq Addresses /\ Sends!EmptyOf(d, e) \subseteq Sends!PolicyTables
BY DEF Sends!ListedBy, Sends!EmptyOf

LEMMA EveryoneIs ==
  ASSUME NEW ask \in Asks
  PROVE  /\ Sends!To(ask) \subseteq Addresses /\ Sends!Cc(ask) \subseteq Addresses
         /\ Sends!Everyone(ask) \subseteq Addresses
         /\ Sends!To(ask) \cup Sends!Cc(ask) \subseteq Sends!Everyone(ask)
BY AskIs DEF Sends!Everyone, Sends!To, Sends!Cc, Sends!ThreadTo, Sends!ThreadCc

\* A call that remembers more than it did still fits, and more is let pass.
LEMMA CallGrows ==
  ASSUME NEW k \in Fitting,
         NEW x \in SUBSET Addresses, NEW y \in SUBSET Sends!PolicyTables, NEW z \in SUBSET Addresses,
         UNCHANGED reLoad, legacy.kind = "none" => legacy'.kind = "none",
         Sends!Listed' \subseteq k.named \cup x, Sends!Empty' \subseteq k.bare \cup y,
         Addresses \ suppressed' \subseteq k.free \cup z
  PROVE  [k EXCEPT !.named = @ \cup x, !.bare = @ \cup y, !.free = @ \cup z] \in Fitting'
<1> DEFINE m == [k EXCEPT !.named = @ \cup x, !.bare = @ \cup y, !.free = @ \cup z]
<1>1. /\ k \in CallRecords /\ m \in CallRecords
      /\ m.at = k.at /\ m.ask = k.ask /\ m.n = k.n /\ m.seen = k.seen /\ m.now = k.now /\ m.left = k.left
      /\ m.named = k.named \cup x /\ m.bare = k.bare \cup y /\ m.free = k.free \cup z
  BY DEF Fitting, CallRecords
<1>2. LetPass(k) \subseteq LetPass(m)'
  <2>1. m.bare \subseteq Sends!PolicyTables /\ k.named \subseteq m.named /\ (k.bare = Sends!PolicyTables => m.bare = Sends!PolicyTables)
    BY <1>1 DEF CallRecords
  <2> HIDE DEF m
  <2> QED BY <2>1 DEF LetPass
<1>3. \A ask : /\ Sends!Everyone(ask)' = Sends!Everyone(ask) /\ Sends!To(ask)' = Sends!To(ask)
               /\ Sends!Cc(ask)' = Sends!Cc(ask)
  BY DEF Sends!Everyone, Sends!To, Sends!Cc, Sends!ThreadTo, Sends!ThreadCc
<1>4. Remembers(m)'
  BY <1>1 DEF Remembers
<1>5. (Consulting(k) <=> Consulting(m)) /\ (Cleared(k) => Cleared(m)')
  <2> HIDE DEF m
  <2> QED BY <1>1, <1>2, <1>3 DEF Consulting, Cleared
<1>6. m.at = "domains" => m.seen \subseteq m.named /\ (m.seen = {} => "exact" \in m.bare)
  BY <1>1 DEF Fitting
<1>7. Consulting(m) /\ m.now = {} =>
         /\ m.n <= 3
         /\ m.n > 1 => Sends!To(m.ask) \subseteq LetPass(m)'
         /\ m.n > 2 => Sends!Cc(m.ask) \subseteq LetPass(m)'
  <2> HIDE DEF m
  <2> QED BY <1>1, <1>2, <1>5 DEF Fitting
<1>8. m.at = "deliver" => m.now \subseteq m.free \cup m.ask.confirm
  BY <1>1 DEF Fitting
<1> HIDE DEF m
<1>9. m \in Fitting'
  BY <1>1, <1>2, <1>3, <1>4, <1>5, <1>6, <1>7, <1>8 DEF Fitting, Consulting
<1> QED BY <1>9 DEF m

\* A step of the policy: what it says then is told to every call.
LEMMA PolicyMoves ==
  ASSUME RecipientsInv, NEW d, NEW e, NEW h, NEW going, Sends!Heard(going, d, e, h),
         \A c \in Senders : going[c] \in {reCall[c], Sends!Idle},
         Sends!Listed' = Sends!ListedBy(d, e, h), Sends!Empty' = Sends!EmptyOf(d, e),
         UNCHANGED <<reLoad, suppressed, last>>, PolicyFits', legacy.kind = "none" => legacy'.kind = "none"
  PROVE  RecipientsInv'
<1>1. reCall' = [c \in Senders |-> IF going[c] = Sends!Idle THEN Sends!Idle ELSE
                   [going[c] EXCEPT !.named = @ \cup Sends!ListedBy(d, e, h), !.bare = @ \cup Sends!EmptyOf(d, e)]]
  BY DEF Sends!Heard
<1>2. ASSUME NEW c \in Senders PROVE reCall'[c] \in Fitting' \cup {Sends!Idle}
  <2>1. CASE going[c] = Sends!Idle
    BY <1>1, <2>1
  <2>2. CASE going[c] # Sends!Idle
    <3>1. PICK k \in Fitting : going[c] = k
      BY <2>2 DEF RecipientsInv, CallStates
    <3>2. k \in CallRecords /\ Remembers(k)
      BY DEF Fitting
    <3>3. [k EXCEPT !.named = @ \cup Sends!ListedBy(d, e, h), !.bare = @ \cup Sends!EmptyOf(d, e),
                    !.free = @ \cup {}] \in Fitting'
      BY <3>2, PolicyIn, CallGrows DEF Remembers
    <3>4. [k EXCEPT !.named = @ \cup Sends!ListedBy(d, e, h), !.bare = @ \cup Sends!EmptyOf(d, e),
                    !.free = @ \cup {}]
          = [k EXCEPT !.named = @ \cup Sends!ListedBy(d, e, h), !.bare = @ \cup Sends!EmptyOf(d, e)]
      BY <3>2 DEF CallRecords
    <3>5. reCall'[c] = [k EXCEPT !.named = @ \cup Sends!ListedBy(d, e, h), !.bare = @ \cup Sends!EmptyOf(d, e)]
      BY <1>1, <2>2, <3>1
    <3> QED BY <3>3, <3>4, <3>5
  <2> QED BY <2>1, <2>2
<1>3. \A r \in last' : LastFits(r)'
  BY DEF RecipientsInv, LastFits, Sends!Everyone, Sends!To, Sends!Cc, Sends!ThreadTo, Sends!ThreadCc
<1>4. reCall' \in [Senders -> CallStates']
  BY <1>1, <1>2 DEF CallStates
<1> QED BY <1>3, <1>4 DEF RecipientsInv

\* What a step of a call leaves alone.
Around == <<reLoad, legacy, seeded, domains, exact, history, suppressed>>

LEMMA FitsStay == UNCHANGED Around => Fitting' = Fitting
<1> SUFFICES ASSUME UNCHANGED Around PROVE Fitting' = Fitting
  OBVIOUS
<1>1. UNCHANGED <<reLoad, legacy, seeded, domains, exact, history, suppressed>>
  BY DEF Around
<1>2. Sends!Listed' = Sends!Listed /\ Sends!Empty' = Sends!Empty
  BY <1>1 DEF Sends!Listed, Sends!Empty, Sends!ListedBy, Sends!EmptyOf, Sends!Said, Sends!Previous
<1> QED BY <1>1, <1>2 DEF Fitting, Remembers, LetPass, Cleared, Consulting

LEMMA LastStays ==
  ASSUME \A r \in last' : LastFits(r)
  PROVE  \A r \in last' : LastFits(r)'
BY DEF LastFits, Sends!Everyone, Sends!To, Sends!Cc, Sends!ThreadTo, Sends!ThreadCc

\* A step of one call, or none.
LEMMA CallMoves ==
  ASSUME RecipientsInv, UNCHANGED Around, drafts' \subseteq SUBSET Addresses,
         reCall' \in [Senders -> CallStates], \A r \in last' : LastFits(r)
  PROVE  RecipientsInv'
<1>1. PolicyFits'
  BY DEF RecipientsInv, PolicyFits, Around
<1>2. CallStates' = CallStates
  BY FitsStay DEF CallStates
<1>3. \A r \in last' : LastFits(r)'
  BY LastStays
<1> QED BY <1>1, <1>2, <1>3 DEF RecipientsInv

LEMMA RecipientsMigrate == ASSUME RecipientsInv, Sends!MigratePolicy PROVE RecipientsInv'
<1> DEFINE e == Sends!Said(legacy.exact)
           d == Sends!Said(legacy.domains)
<1>1. /\ legacy.kind = "old" /\ legacy' = Sends!Migrated /\ exact' = e /\ domains' = d
      /\ UNCHANGED <<reLoad, seeded, history, drafts, suppressed, reCall, last>>
  BY DEF Sends!MigratePolicy
<1>2. domains = {} /\ exact = {} /\ e \subseteq Addresses /\ d \subseteq Domains /\ Sends!Migrated.kind = "none"
  BY <1>1, LegacyIs DEF RecipientsInv, PolicyFits, Sends!Migrated
<1>3. Sends!Listed = Sends!ListedBy(d, e, history) /\ Sends!Empty = Sends!EmptyOf(d, e)
  BY <1>2 DEF Sends!Listed, Sends!Empty
<1>4. PolicyFits'
  BY <1>1, <1>2 DEF RecipientsInv, PolicyFits
<1>5. Sends!Listed' = Sends!ListedBy(d, e, history) /\ Sends!Empty' = Sends!EmptyOf(d, e)
  <2>1. d \cup Sends!Said(Sends!Migrated.domains) = d /\ e \cup Sends!Said(Sends!Migrated.exact) = e
    BY SaidNothing DEF Sends!Migrated
  <2>2. /\ Sends!Listed' = Sends!ListedBy(d \cup Sends!Said(Sends!Migrated.domains), e \cup Sends!Said(Sends!Migrated.exact), history)
        /\ Sends!Empty' = Sends!EmptyOf(d \cup Sends!Said(Sends!Migrated.domains), e \cup Sends!Said(Sends!Migrated.exact))
    BY <1>1 DEF Sends!Listed, Sends!Empty, Sends!ListedBy, Sends!EmptyOf, Sends!Said, Sends!Previous
  <2> QED BY <2>1, <2>2
<1>6. ASSUME NEW k \in Fitting PROVE k \in Fitting'
  <2>1. k \in CallRecords /\ Remembers(k)
    BY DEF Fitting
  <2>2. [k EXCEPT !.named = @ \cup {}, !.bare = @ \cup {}, !.free = @ \cup {}] \in Fitting'
    BY <1>1, <1>2, <1>3, <1>5, <2>1, CallGrows DEF Remembers
  <2>3. [k EXCEPT !.named = @ \cup {}, !.bare = @ \cup {}, !.free = @ \cup {}] = k
    BY <2>1 DEF CallRecords
  <2> QED BY <2>2, <2>3
<1>7. \A r \in last' : LastFits(r)'
  BY <1>1 DEF RecipientsInv, LastFits, Sends!Everyone, Sends!To, Sends!Cc, Sends!ThreadTo, Sends!ThreadCc
<1>8. reCall' \in [Senders -> CallStates']
  BY <1>1, <1>6 DEF RecipientsInv, CallStates
<1> QED BY <1>4, <1>7, <1>8 DEF RecipientsInv

\* An edit of the policy whose tables are migrated.
LEMMA RecipientsEdit ==
  ASSUME RecipientsInv, legacy.kind = "none", UNCHANGED <<reLoad, legacy, history, drafts, suppressed, last>>,
         seeded' \in BOOLEAN, NEW d \in SUBSET Domains, NEW e \in SUBSET Addresses, Sends!PolicyIs(d, e)
  PROVE  RecipientsInv'
<1>1. domains' = d /\ exact' = e /\ Sends!Heard(reCall, d, e, history)
  BY DEF Sends!PolicyIs
<1>2. PolicyFits'
  BY <1>1 DEF RecipientsInv, PolicyFits
<1>3. Sends!Listed' = Sends!ListedBy(d, e, history) /\ Sends!Empty' = Sends!EmptyOf(d, e)
  <2>1. legacy.exact = {} /\ legacy.domains = {}
    BY LegacyIs DEF RecipientsInv, PolicyFits
  <2>2. d \cup Sends!Said({}) = d /\ e \cup Sends!Said({}) = e
    BY SaidNothing
  <2>3. /\ Sends!Listed' = Sends!ListedBy(d \cup Sends!Said({}), e \cup Sends!Said({}), history)
        /\ Sends!Empty' = Sends!EmptyOf(d \cup Sends!Said({}), e \cup Sends!Said({}))
    BY <1>1, <2>1 DEF Sends!Listed, Sends!Empty, Sends!ListedBy, Sends!EmptyOf, Sends!Said, Sends!Previous
  <2> QED BY <2>2, <2>3
<1> QED BY <1>1, <1>2, <1>3, PolicyMoves

LEMMA RecipientsEdits ==
  ASSUME RecipientsInv,
         \/ Sends!SeedDomains
         \/ \E d \in Domains : Sends!AuthorizeDomain(d) \/ Sends!RevokeDomain(d)
         \/ \E a \in Addresses : Sends!AuthorizeRecipient(a) \/ Sends!RevokeRecipient(a)
  PROVE  RecipientsInv'
<1>1. domains \subseteq Domains /\ exact \subseteq Addresses /\ EnvDomains \subseteq Domains /\ seeded \in BOOLEAN
  BY RecordsAssumption DEF Sends!RecipientsAssumption, RecipientsInv, PolicyFits
<1>2. CASE Sends!SeedDomains
  BY <1>1, <1>2, RecipientsEdit DEF Sends!SeedDomains
<1>3. CASE \E d \in Domains : Sends!AuthorizeDomain(d) \/ Sends!RevokeDomain(d)
  <2>1. PICK d \in SUBSET Domains : Sends!PolicyIs(d, exact) /\ Sends!Beside
    BY <1>1, <1>3 DEF Sends!AuthorizeDomain, Sends!RevokeDomain
  <2> QED BY <1>1, <2>1, RecipientsEdit DEF Sends!Beside, Sends!Opened, Sends!schema
<1>4. CASE \E a \in Addresses : Sends!AuthorizeRecipient(a) \/ Sends!RevokeRecipient(a)
  <2>1. PICK e \in SUBSET Addresses : Sends!PolicyIs(domains, e) /\ Sends!Beside
    BY <1>1, <1>4 DEF Sends!AuthorizeRecipient, Sends!RevokeRecipient
  <2> QED BY <1>1, <2>1, RecipientsEdit DEF Sends!Beside, Sends!Opened, Sends!schema
<1> QED BY <1>2, <1>3, <1>4

\* A change of the suppressions is told to every call.
LEMMA RecipientsSuppress == ASSUME RecipientsInv, NEW a \in Addresses, Sends!Suppression(a) PROVE RecipientsInv'
<1>1. /\ suppressed' \subseteq Addresses
      /\ UNCHANGED <<reLoad, legacy, seeded, domains, exact, history, drafts, last>>
      /\ reCall' = [c \in Senders |-> IF reCall[c] = Sends!Idle THEN Sends!Idle
                                      ELSE [reCall[c] EXCEPT !.free = @ \cup (Addresses \ suppressed')]]
  BY DEF Sends!Suppression, RecipientsInv, PolicyFits, Sends!policy, Sends!schema
<1>2. PolicyFits'
  BY <1>1 DEF RecipientsInv, PolicyFits
<1>3. Sends!Listed' = Sends!Listed /\ Sends!Empty' = Sends!Empty
  BY <1>1 DEF Sends!Listed, Sends!Empty, Sends!ListedBy, Sends!EmptyOf, Sends!Said, Sends!Previous
<1>4. ASSUME NEW c \in Senders PROVE reCall'[c] \in Fitting' \cup {Sends!Idle}
  <2>1. CASE reCall[c] = Sends!Idle
    BY <1>1, <2>1
  <2>2. CASE reCall[c] # Sends!Idle
    <3>1. PICK k \in Fitting : reCall[c] = k
      BY <2>2 DEF RecipientsInv, CallStates
    <3>2. k \in CallRecords /\ Remembers(k)
      BY DEF Fitting
    <3>3. PICK z \in SUBSET Addresses : z = Addresses \ suppressed'
      OBVIOUS
    <3>4. [k EXCEPT !.named = @ \cup {}, !.bare = @ \cup {}, !.free = @ \cup z] \in Fitting'
      BY <1>1, <1>3, <3>2, <3>3, CallGrows DEF Remembers
    <3>5. [k EXCEPT !.named = @ \cup {}, !.bare = @ \cup {}, !.free = @ \cup z] = [k EXCEPT !.free = @ \cup z]
      BY <3>2 DEF CallRecords
    <3>6. reCall'[c] = [k EXCEPT !.free = @ \cup z]
      BY <1>1, <2>2, <3>1, <3>3
    <3> QED BY <3>4, <3>5, <3>6
  <2> QED BY <2>1, <2>2
<1>5. \A r \in last' : LastFits(r)'
  BY <1>1 DEF RecipientsInv, LastFits, Sends!Everyone, Sends!To, Sends!Cc, Sends!ThreadTo, Sends!ThreadCc
<1>6. reCall' \in [Senders -> CallStates']
  BY <1>1, <1>4 DEF CallStates
<1> QED BY <1>2, <1>5, <1>6 DEF RecipientsInv

\* The message of a call that went to Sent, and one sent by hand.
LEMMA RecipientsSent ==
  ASSUME RecipientsInv, NEW h \in SUBSET Addresses, NEW going, Sends!Sent(h, going),
         UNCHANGED <<reLoad, legacy, seeded, domains, exact, suppressed, last>>, drafts' \subseteq SUBSET Addresses,
         \A c \in Senders : going[c] \in {reCall[c], Sends!Idle}
  PROVE  RecipientsInv'
<1> DEFINE d == domains \cup Sends!Said(legacy.domains)
           e == exact \cup Sends!Said(legacy.exact)
<1>1. history' = h /\ Sends!Heard(going, d, e, h)
  BY DEF Sends!Sent
<1>2. Sends!Listed' = Sends!ListedBy(d, e, h) /\ Sends!Empty' = Sends!EmptyOf(d, e)
  BY <1>1 DEF Sends!Listed, Sends!Empty, Sends!ListedBy, Sends!EmptyOf, Sends!Said, Sends!Previous
<1>3. PolicyFits'
  BY <1>1 DEF RecipientsInv, PolicyFits
<1> QED BY <1>1, <1>2, <1>3, PolicyMoves

LEMMA RecipientsArchive == ASSUME RecipientsInv, NEW c \in Senders, Sends!Archive(c) PROVE RecipientsInv'
<1>1. reCall[c].at = "archive" /\ UNCHANGED <<reLoad, legacy, seeded, domains, exact, drafts, suppressed, last>>
  BY DEF Sends!Archive, Sends!schema
<1>2. PICK h \in {history, history \cup Sends!To(reCall[c].ask) \cup Sends!Cc(reCall[c].ask)} :
        Sends!Sent(h, [reCall EXCEPT ![c] = Sends!Idle])
  BY DEF Sends!Archive
<1>3. reCall[c].ask \in Asks
  BY <1>1 DEF RecipientsInv, CallStates, Fitting, CallRecords, Sends!Idle
<1>4. h \in SUBSET Addresses /\ drafts \subseteq SUBSET Addresses /\ DOMAIN reCall = Senders
  BY <1>2, <1>3, EveryoneIs DEF RecipientsInv, PolicyFits
<1> QED BY <1>1, <1>2, <1>4, RecipientsSent

LEMMA RecipientsByHand == ASSUME RecipientsInv, NEW d \in drafts, Sends!SentByHand(d) PROVE RecipientsInv'
<1>1. /\ drafts' = drafts \ {d} /\ Sends!Sent(history \cup d, reCall)
      /\ UNCHANGED <<reLoad, legacy, seeded, domains, exact, suppressed, last>>
  BY DEF Sends!SentByHand, Sends!schema
<1>2. drafts' \subseteq SUBSET Addresses /\ history \cup d \in SUBSET Addresses
  BY <1>1 DEF RecipientsInv, PolicyFits
<1> QED BY <1>1, <1>2, RecipientsSent

LEMMA RecipientsDraft ==
  ASSUME RecipientsInv, NEW c \in Senders, NEW ask \in Asks, Sends!CreateDraft(c, ask) \/ Sends!CreateThreadDraft(c, ask)
  PROVE  RecipientsInv'
<1>1. /\ drafts' = drafts \cup {Sends!Everyone(ask)}
      /\ UNCHANGED Around /\ UNCHANGED <<reCall, last>>
  BY DEF Sends!CreateDraft, Sends!CreateThreadDraft, Sends!SaveDraft, Sends!policy, Sends!schema, Around
<1>2. drafts' \subseteq SUBSET Addresses /\ reCall \in [Senders -> CallStates] /\ \A r \in last : LastFits(r)
  BY <1>1, EveryoneIs DEF RecipientsInv, PolicyFits
<1> QED BY <1>1, <1>2, CallMoves

\* What the steps of a send have in common.
LEMMA RecipientsStep ==
  ASSUME RecipientsInv, NEW c \in Senders, NEW m, Sends!Goes(c, m),
         UNCHANGED Around, UNCHANGED drafts, m \in CallStates, \A r \in last' : LastFits(r)
  PROVE  RecipientsInv'
<1>1. reCall' = [reCall EXCEPT ![c] = m] /\ drafts \subseteq SUBSET Addresses
  BY DEF RecipientsInv, PolicyFits, Sends!Goes
<1>2. reCall' \in [Senders -> CallStates]
  BY <1>1 DEF RecipientsInv
<1> QED BY <1>1, <1>2, CallMoves

LEMMA RecipientsGoes ==
  ASSUME RecipientsInv, NEW c \in Senders, NEW m, Sends!CallGoes(c, m), m \in CallStates
  PROVE  RecipientsInv'
<1>1. Sends!Goes(c, m) /\ UNCHANGED Around /\ UNCHANGED <<drafts, last>>
  BY DEF Sends!CallGoes, Sends!policy, Sends!schema, Around
<1> QED BY <1>1, RecipientsStep DEF RecipientsInv

LEMMA RecipientsPreflight ==
  ASSUME RecipientsInv, NEW c \in Senders, NEW ask \in Asks, Sends!Preflight(c, ask)
  PROVE  RecipientsInv'
<1>1. PICK m : /\ m = Sends!Idle \/ m = Sends!Begun(ask)
               /\ Sends!Goes(c, m) /\ UNCHANGED Around /\ UNCHANGED <<drafts, last>>
  BY DEF Sends!Preflight, Sends!policy, Sends!schema, Around
<1>2. CASE m = Sends!Begun(ask)
  <2>1. Sends!Listed \subseteq Addresses /\ Sends!Empty \subseteq Sends!PolicyTables
    BY PolicyIn DEF Sends!Listed, Sends!Empty
  <2>2. m = [at |-> "exact", ask |-> ask, n |-> 1, seen |-> {}, now |-> {}, left |-> {}, went |-> FALSE,
             named |-> Sends!Listed, bare |-> Sends!Empty, free |-> Addresses \ suppressed]
    BY <1>2 DEF Sends!Begun
  <2>3. m \in CallRecords
    BY <2>1, <2>2 DEF CallRecords
  <2>4. m \in CallStates
    BY <2>2, <2>3 DEF CallStates, Fitting, Remembers, Consulting
  <2> QED BY <1>1, <2>4, RecipientsStep DEF RecipientsInv
<1>3. CASE m = Sends!Idle
  BY <1>1, <1>3, RecipientsStep DEF RecipientsInv, CallStates
<1> QED BY <1>1, <1>2, <1>3

\* A call that was let pass goes on.
LEMMA ClearedFits ==
  ASSUME NEW k \in Fitting, Cleared(k), NEW m \in CallRecords,
         m.ask = k.ask, m.named = k.named, m.bare = k.bare,
         Addresses \ suppressed \subseteq m.free,
         m.now \subseteq Sends!Everyone(k.ask), m.left \subseteq Sends!Everyone(k.ask),
         m.at \in {"leg", "transport", "deliver", "archive"} \/ (m.at = "exact" /\ m.now # {}),
         m.at = "deliver" => m.now \subseteq m.free \cup m.ask.confirm
  PROVE  m \in Fitting
<1>1. Remembers(m) /\ Cleared(m)
  BY DEF Fitting, Remembers, Cleared, LetPass
<1>2. ~(Consulting(m) /\ m.now = {}) /\ m.at \notin {"domains", "history"}
  BY DEF Consulting
<1> QED BY <1>1, <1>2 DEF Fitting

LEMMA ValidatedFits ==
  ASSUME NEW k \in Fitting, Cleared(k)
  PROVE  Sends!Validated(k) \in Fitting
<1>1. /\ k \in CallRecords /\ k.now \subseteq Sends!Everyone(k.ask) /\ k.left \subseteq Sends!Everyone(k.ask)
      /\ Addresses \ suppressed \subseteq k.free /\ k.ask \in Asks
  BY DEF Fitting, Remembers, CallRecords
<1>2. Sends!Everyone(k.ask) \subseteq Addresses
  BY <1>1, EveryoneIs
<1> DEFINE all == Sends!Everyone(k.ask)
<1> HIDE DEF all
<1>3. CASE k.now # {}
  <2>1. PICK m : m = [k EXCEPT !.at = "transport"]
    OBVIOUS
  <2>2. /\ m \in CallRecords /\ m.at = "transport" /\ m.ask = k.ask /\ m.named = k.named /\ m.bare = k.bare
        /\ m.free = k.free /\ m.now = k.now /\ m.left = k.left
    BY <1>1, <2>1 DEF CallRecords
  <2> QED BY <1>1, <1>3, <2>1, <2>2, ClearedFits DEF Sends!Validated
<1>4. CASE k.now = {} /\ k.ask.single
  <2>1. PICK m : m = [k EXCEPT !.at = "leg", !.left = all]
    OBVIOUS
  <2>2. /\ m \in CallRecords /\ m.at = "leg" /\ m.ask = k.ask /\ m.named = k.named /\ m.bare = k.bare
        /\ m.free = k.free /\ m.now = k.now /\ m.left = all
    BY <1>1, <1>2, <2>1 DEF CallRecords, all
  <2> QED BY <1>1, <1>4, <2>1, <2>2, ClearedFits DEF Sends!Validated, all
<1>5. CASE k.now = {} /\ ~k.ask.single
  <2>1. PICK m : m = [k EXCEPT !.at = "transport", !.now = all]
    OBVIOUS
  <2>2. /\ m \in CallRecords /\ m.at = "transport" /\ m.ask = k.ask /\ m.named = k.named /\ m.bare = k.bare
        /\ m.free = k.free /\ m.now = all /\ m.left = k.left
    BY <1>1, <1>2, <2>1 DEF CallRecords, all
  <2> QED BY <1>1, <1>5, <2>1, <2>2, ClearedFits DEF Sends!Validated, all
<1> QED BY <1>3, <1>4, <1>5

LEMMA RefusedFits ==
  ASSUME NEW k \in Fitting
  PROVE  Sends!Refused(k) \in CallStates
<1>1. /\ k \in CallRecords /\ k.now \subseteq Sends!Everyone(k.ask) /\ k.left \subseteq Sends!Everyone(k.ask)
      /\ Addresses \ suppressed \subseteq k.free
  BY DEF Fitting, Remembers
<1>2. CASE k.now = {}
  BY <1>2 DEF Sends!Refused, CallStates
<1>3. CASE k.now # {}
  <2>1. PICK m : m = [k EXCEPT !.at = "leg", !.n = 1, !.seen = {}, !.now = {}]
    OBVIOUS
  <2>2. PICK b \in CallRecords : b = [k EXCEPT !.at = "leg", !.now = {}]
    BY <1>1 DEF CallRecords
  <2>3. /\ m \in CallRecords /\ m.at = "leg" /\ m.ask = k.ask /\ m.named = k.named /\ m.bare = k.bare
        /\ m.free = k.free /\ m.now = {} /\ m.left = k.left
    <3>1. m = [b EXCEPT !.n = 1, !.seen = {}]
      BY <1>1, <2>1, <2>2 DEF CallRecords
    <3>2. /\ b.at = "leg" /\ b.ask = k.ask /\ b.named = k.named /\ b.bare = k.bare
          /\ b.free = k.free /\ b.now = {} /\ b.left = k.left
      BY <1>1, <2>2 DEF CallRecords
    <3>3. 1 \in 1..4
      OBVIOUS
    <3> QED BY <3>1, <3>2, <3>3 DEF CallRecords
  <2>4. Cleared(k)
    BY <1>3 DEF Fitting
  <2> QED BY <1>1, <1>3, <2>1, <2>3, <2>4, ClearedFits DEF Sends!Refused, CallStates
<1> QED BY <1>2, <1>3

LEMMA CallIs ==
  ASSUME RecipientsInv, NEW c \in Senders,
         reCall[c].at \in {"exact", "domains", "history", "leg", "transport", "deliver", "archive"}
  PROVE  reCall[c] \in Fitting /\ reCall[c] \in CallRecords /\ Remembers(reCall[c])
BY DEF RecipientsInv, CallStates, Fitting, Sends!Idle

LEMMA RecipientsReadExact == ASSUME RecipientsInv, NEW c \in Senders, Sends!ReadExact(c) PROVE RecipientsInv'
<1>1. PICK k : k = reCall[c]
  OBVIOUS
<1>2. k.at = "exact" /\ k \in Fitting /\ k \in CallRecords /\ Remembers(k)
  BY <1>1, CallIs DEF Sends!ReadExact
<1>3. CASE k.ask.manual /\ Sends!CallGoes(c, Sends!Validated(k))
  BY <1>2, <1>3, ValidatedFits, RecipientsGoes DEF CallStates, Cleared
<1>4. CASE Sends!CallGoes(c, Sends!Refused(k))
  BY <1>2, <1>4, RefusedFits, RecipientsGoes DEF CallStates
<1>5. CASE Sends!Opened /\ Sends!CallGoes(c, [k EXCEPT !.at = "domains", !.seen = exact])
  <2>1. /\ legacy.kind = "none" /\ exact \subseteq Addresses /\ history \subseteq Addresses
        /\ exact \subseteq Sends!Listed /\ (exact = {} => "exact" \in Sends!Empty)
    BY <1>5, PolicyHere DEF RecipientsInv, PolicyFits, Sends!Opened, Sends!ListedBy, Sends!EmptyOf, Sends!PolicyTables
  <2>2. PICK m : m = [k EXCEPT !.at = "domains", !.seen = exact]
    OBVIOUS
  <2>3. /\ m \in CallRecords /\ m.at = "domains" /\ m.ask = k.ask /\ m.n = k.n /\ m.seen = exact /\ m.now = k.now
        /\ m.left = k.left /\ m.named = k.named /\ m.bare = k.bare /\ m.free = k.free
    BY <1>2, <2>1, <2>2 DEF CallRecords
  <2>4. LetPass(m) = LetPass(k) /\ Remembers(m) /\ (Cleared(k) => Cleared(m)) /\ Consulting(m) /\ Consulting(k)
    BY <1>2, <2>3 DEF LetPass, Remembers, Cleared, Consulting
  <2>5. m \in Fitting
    BY <1>2, <2>1, <2>3, <2>4 DEF Fitting, Remembers
  <2> QED BY <1>5, <2>2, <2>5, RecipientsGoes DEF CallStates
<1> QED BY <1>1, <1>3, <1>4, <1>5 DEF Sends!ReadExact

LEMMA RecipientsReadDomains == ASSUME RecipientsInv, NEW c \in Senders, Sends!ReadDomains(c) PROVE RecipientsInv'
<1>1. PICK k : k = reCall[c]
  OBVIOUS
<1>2. k.at = "domains" /\ k \in Fitting /\ k \in CallRecords /\ Remembers(k)
  BY <1>1, CallIs DEF Sends!ReadDomains
<1>3. /\ legacy.kind = "none" /\ k.seen \subseteq k.named /\ (k.seen = {} => "exact" \in k.bare)
      /\ k.bare \subseteq Sends!PolicyTables /\ k.named \subseteq Addresses
  BY <1>2 DEF Fitting, CallRecords
<1>4. /\ Sends!ListedBy(domains, exact, history) \subseteq k.named
      /\ Sends!EmptyOf(domains, exact) \subseteq k.bare
  BY <1>2, <1>3, PolicyHere DEF RecipientsInv, Remembers
<1>5. PICK s : s = Sends!AllowedBy(domains, k.seen)
  OBVIOUS
<1>6. s \subseteq LetPass(k)
  <2>1. CASE domains = {} /\ k.seen = {} /\ ~reLoad.previous
    <3>1. "domains" \in k.bare /\ "exact" \in k.bare
      BY <1>3, <1>4, <2>1 DEF Sends!EmptyOf, Sends!PolicyTables
    <3>2. k.bare = Sends!PolicyTables
      BY <1>3, <3>1 DEF Sends!PolicyTables
    <3> QED BY <1>5, <2>1, <3>2 DEF Sends!AllowedBy, LetPass
  <2>2. CASE ~(domains = {} /\ k.seen = {} /\ ~reLoad.previous)
    <3>1. s = Sends!ListedBy(domains, k.seen, {})
      BY <1>5, <2>2 DEF Sends!AllowedBy
    <3>2. Sends!Previous({}) = {}
      BY DEF Sends!Previous
    <3>3. Sends!ListedBy(domains, k.seen, {}) \subseteq k.seen \cup Sends!ListedBy(domains, exact, history)
      BY <3>2 DEF Sends!ListedBy
    <3>4. s \subseteq k.named
      BY <1>3, <1>4, <3>1, <3>3
    <3> QED BY <1>3, <3>4 DEF LetPass
  <2> QED BY <2>1, <2>2
<1>7. PICK m : m = [k EXCEPT !.at = "history", !.seen = Sends!AllowedBy(domains, @)]
  OBVIOUS
<1>8. /\ m \in CallRecords /\ m.at = "history" /\ m.ask = k.ask /\ m.n = k.n /\ m.seen = s /\ m.now = k.now
      /\ m.left = k.left /\ m.named = k.named /\ m.bare = k.bare /\ m.free = k.free
  <2>1. m = [k EXCEPT !.at = "history", !.seen = s]
    BY <1>2, <1>5, <1>7 DEF CallRecords
  <2>2. s \subseteq Addresses
    BY <1>6 DEF LetPass
  <2> QED BY <1>2, <2>1, <2>2 DEF CallRecords
<1>9. LetPass(m) = LetPass(k) /\ Remembers(m) /\ (Cleared(k) => Cleared(m)) /\ Consulting(m) /\ Consulting(k)
  BY <1>2, <1>8 DEF LetPass, Remembers, Cleared, Consulting
<1>10. m \in Fitting
  BY <1>2, <1>3, <1>6, <1>8, <1>9 DEF Fitting
<1> QED BY <1>1, <1>7, <1>10, RecipientsGoes DEF CallStates, Sends!ReadDomains

LEMMA RecipientsConsult == ASSUME RecipientsInv, NEW c \in Senders, Sends!Consult(c) PROVE RecipientsInv'
<1>1. PICK k : k = reCall[c]
  OBVIOUS
<1>2. k.at = "history" /\ k \in Fitting /\ k \in CallRecords /\ Remembers(k)
  BY <1>1, CallIs DEF Sends!Consult
<1>3. PICK h \in {history, {}} :
        Sends!CallGoes(c, IF ~(Sends!Checked(k)[k.n] \subseteq k.seen \cup Sends!Previous(h)) THEN Sends!Refused(k)
                   ELSE IF k.n < Len(Sends!Checked(k)) THEN [k EXCEPT !.at = "exact", !.n = @ + 1, !.seen = {}]
                   ELSE Sends!Validated([k EXCEPT !.n = 1, !.seen = {}]))
  BY <1>1 DEF Sends!Consult
<1>4. k.seen \cup Sends!Previous(h) \subseteq LetPass(k)
  <2>1. Sends!Previous(h) \subseteq Sends!ListedBy(domains, exact, history)
    BY DEF Sends!Previous, Sends!ListedBy, RecipientsInv, PolicyFits
  <2>2. legacy.kind = "none" /\ k.seen \subseteq LetPass(k) /\ k.named \subseteq Addresses
    BY <1>2 DEF Fitting, CallRecords
  <2>3. Sends!Previous(h) \subseteq k.named
    BY <1>2, <2>1, <2>2, PolicyHere DEF RecipientsInv, Remembers
  <2> QED BY <2>2, <2>3 DEF LetPass
<1>5. CASE ~(Sends!Checked(k)[k.n] \subseteq k.seen \cup Sends!Previous(h))
  BY <1>2, <1>3, <1>5, RefusedFits, RecipientsGoes DEF CallStates
<1>6. CASE Sends!Checked(k)[k.n] \subseteq k.seen \cup Sends!Previous(h)
  <2>1. Sends!Checked(k)[k.n] \subseteq LetPass(k)
    BY <1>4, <1>6
  <2>2. CASE k.n < Len(Sends!Checked(k))
    <3>1. PICK m : m = [k EXCEPT !.at = "exact", !.n = @ + 1, !.seen = {}]
      OBVIOUS
    <3>2. k.n \in 1..4 /\ k.n + 1 \in 1..4
      BY <1>2, <2>2 DEF CallRecords, Sends!Checked
    <3>3. /\ m \in CallRecords /\ m.at = "exact" /\ m.ask = k.ask /\ m.n = k.n + 1 /\ m.now = k.now
          /\ m.left = k.left /\ m.named = k.named /\ m.bare = k.bare /\ m.free = k.free
      BY <1>2, <3>1, <3>2 DEF CallRecords
    <3>4. LetPass(m) = LetPass(k) /\ Remembers(m) /\ (Cleared(k) => Cleared(m)) /\ Consulting(m) /\ Consulting(k)
      BY <1>2, <3>3 DEF LetPass, Remembers, Cleared, Consulting
    <3>5. ASSUME k.now = {}
          PROVE  /\ m.n <= 3
                 /\ m.n > 1 => Sends!To(m.ask) \subseteq LetPass(m)
                 /\ m.n > 2 => Sends!Cc(m.ask) \subseteq LetPass(m)
      <4>1. Sends!Checked(k) = <<Sends!To(k.ask), Sends!Cc(k.ask), k.ask.bcc>>
        BY <3>5 DEF Sends!Checked
      <4>2. k.n \in {1, 2}
        BY <2>2, <3>2, <4>1
      <4>3. CASE k.n = 1
        BY <2>1, <3>3, <3>4, <4>1, <4>3
      <4>4. CASE k.n = 2
        <5>1. Sends!To(k.ask) \subseteq LetPass(k)
          BY <1>2, <3>2, <3>4, <3>5, <4>4 DEF Fitting
        <5> QED BY <2>1, <3>3, <3>4, <4>1, <4>4, <5>1
      <4> QED BY <4>2, <4>3, <4>4
    <3>6. m \in Fitting
      BY <1>2, <3>3, <3>4, <3>5 DEF Fitting
    <3> QED BY <1>3, <1>6, <2>2, <3>1, <3>6, RecipientsGoes DEF CallStates
  <2>3. CASE ~(k.n < Len(Sends!Checked(k)))
    <3>1. Cleared(k)
      <4>1. CASE k.now # {}
        BY <1>2, <4>1 DEF Fitting
      <4>2. CASE k.now = {}
        <5>1. Sends!Checked(k) = <<Sends!To(k.ask), Sends!Cc(k.ask), k.ask.bcc>>
          BY <4>2 DEF Sends!Checked
        <5>2. k.n \in 1..4 /\ k.n <= 3 /\ Consulting(k)
          BY <1>2, <4>2 DEF Fitting, CallRecords, Consulting
        <5>3. k.n = 3
          BY <2>3, <5>1, <5>2
        <5>4. Sends!To(k.ask) \subseteq LetPass(k) /\ Sends!Cc(k.ask) \subseteq LetPass(k)
          BY <1>2, <4>2, <5>2, <5>3 DEF Fitting
        <5>5. k.ask.bcc \subseteq LetPass(k)
          BY <2>1, <5>1, <5>3
        <5> QED BY <5>4, <5>5 DEF Cleared, Sends!Everyone
      <4> QED BY <4>1, <4>2
    <3>2. PICK m : m = [k EXCEPT !.n = 1, !.seen = {}]
      OBVIOUS
    <3>3. /\ m \in CallRecords /\ m.at = "history" /\ m.ask = k.ask /\ m.n = 1 /\ m.seen = {} /\ m.now = k.now
          /\ m.left = k.left /\ m.named = k.named /\ m.bare = k.bare /\ m.free = k.free
      <4>1. 1 \in 1..4
        OBVIOUS
      <4> QED BY <1>2, <3>2, <4>1 DEF CallRecords
    <3>4. Remembers(m) /\ Cleared(m)
      BY <1>2, <3>1, <3>3 DEF LetPass, Remembers, Cleared
    <3>5. m \in Fitting
      BY <1>2, <3>3, <3>4 DEF Fitting, Sends!Idle
    <3> QED BY <1>3, <1>6, <2>3, <3>2, <3>4, <3>5, ValidatedFits, RecipientsGoes DEF CallStates
  <2> QED BY <2>2, <2>3
<1> QED BY <1>5, <1>6

\* One recipient of an individualised send.
LEMMA RecipientsLeg == ASSUME RecipientsInv, NEW c \in Senders, Sends!Leg(c) PROVE RecipientsInv'
<1>1. PICK k : k = reCall[c]
  OBVIOUS
<1>2. k.at = "leg" /\ k \in Fitting /\ k \in CallRecords
  BY <1>1, CallIs DEF Sends!Leg
<1>3. PICK r \in k.left :
        Sends!CallGoes(c, [k EXCEPT !.at = "exact", !.now = {r}, !.left = @ \ {r}, !.free = Addresses \ suppressed])
  BY <1>1 DEF Sends!Leg
<1>4. PICK m : m = [k EXCEPT !.at = "exact", !.now = {r}, !.left = @ \ {r}, !.free = Addresses \ suppressed]
  OBVIOUS
<1>5. /\ m \in CallRecords /\ m.at = "exact" /\ m.ask = k.ask /\ m.now = {r} /\ m.left = k.left \ {r}
      /\ m.named = k.named /\ m.bare = k.bare /\ m.free = Addresses \ suppressed
  BY <1>2, <1>4 DEF CallRecords
<1>6. Cleared(k) /\ k.left \subseteq Sends!Everyone(k.ask)
  BY <1>2 DEF Fitting, Consulting
<1>7. m \in Fitting
  BY <1>2, <1>5, <1>6, ClearedFits
<1> QED BY <1>3, <1>4, <1>7, RecipientsGoes DEF CallStates

LEMMA RecipientsLegsEnd == ASSUME RecipientsInv, NEW c \in Senders, Sends!LegsEnd(c) PROVE RecipientsInv'
<1>1. PICK k : k = reCall[c]
  OBVIOUS
<1>2. k.at = "leg" /\ k \in Fitting /\ k \in CallRecords /\ Remembers(k)
  BY <1>1, CallIs DEF Sends!LegsEnd
<1>3. Sends!CallGoes(c, [k EXCEPT !.at = "archive"]) \/ Sends!CallGoes(c, Sends!Idle)
  BY <1>1 DEF Sends!LegsEnd
<1>4. PICK m : m = [k EXCEPT !.at = "archive"]
  OBVIOUS
<1>5. /\ m \in CallRecords /\ m.at = "archive" /\ m.ask = k.ask /\ m.now = k.now /\ m.left = k.left
      /\ m.named = k.named /\ m.bare = k.bare /\ m.free = k.free
  BY <1>2, <1>4 DEF CallRecords
<1>6. Cleared(k) /\ k.left \subseteq Sends!Everyone(k.ask) /\ k.now \subseteq Sends!Everyone(k.ask)
  BY <1>2 DEF Fitting, Consulting
<1>7. m \in CallStates /\ Sends!Idle \in CallStates
  BY <1>2, <1>5, <1>6, ClearedFits DEF CallStates, Remembers
<1> QED BY <1>3, <1>4, <1>7, RecipientsGoes DEF CallStates

LEMMA OnwardFits ==
  ASSUME NEW k \in Fitting, k.at \in {"transport", "deliver"}, NEW went \in BOOLEAN
  PROVE  Sends!Onward(k, went) \in CallStates
<1>1. /\ k \in CallRecords /\ k.now \subseteq Sends!Everyone(k.ask) /\ k.left \subseteq Sends!Everyone(k.ask)
      /\ Addresses \ suppressed \subseteq k.free /\ Cleared(k)
  BY DEF Fitting, Remembers, Consulting
<1>2. CASE k.ask.single
  <2>1. PICK m : m = [k EXCEPT !.at = "leg", !.now = {}, !.went = @ \/ went]
    OBVIOUS
  <2>2. PICK w \in BOOLEAN : w = (k.went \/ went)
    BY <1>1 DEF CallRecords
  <2>3. m = [k EXCEPT !.at = "leg", !.now = {}, !.went = w]
    BY <1>1, <2>1, <2>2 DEF CallRecords
  <2>4. /\ m \in CallRecords /\ m.at = "leg" /\ m.ask = k.ask /\ m.named = k.named /\ m.bare = k.bare
        /\ m.free = k.free /\ m.now = {} /\ m.left = k.left
    BY <1>1, <2>3 DEF CallRecords
  <2> QED BY <1>1, <1>2, <2>1, <2>4, ClearedFits DEF Sends!Onward, CallStates
<1>3. CASE ~k.ask.single /\ went
  <2>1. PICK m : m = [k EXCEPT !.at = "archive"]
    OBVIOUS
  <2>2. /\ m \in CallRecords /\ m.at = "archive" /\ m.ask = k.ask /\ m.named = k.named /\ m.bare = k.bare
        /\ m.free = k.free /\ m.now = k.now /\ m.left = k.left
    BY <1>1, <2>1 DEF CallRecords
  <2> QED BY <1>1, <1>3, <2>1, <2>2, ClearedFits DEF Sends!Onward, CallStates
<1>4. CASE ~k.ask.single /\ ~went
  BY <1>4 DEF Sends!Onward, CallStates
<1> QED BY <1>2, <1>3, <1>4

LEMMA RecipientsAsk == ASSUME RecipientsInv, NEW c \in Senders, Sends!AskSuppressed(c) PROVE RecipientsInv'
<1>1. PICK k : k = reCall[c]
  OBVIOUS
<1>2. k.at = "transport" /\ k \in Fitting /\ k \in CallRecords /\ Remembers(k)
  BY <1>1, CallIs DEF Sends!AskSuppressed
<1>3. CASE Sends!Transportable(k) /\ Sends!CallGoes(c, [k EXCEPT !.at = "deliver"])
  <2>1. PICK m : m = [k EXCEPT !.at = "deliver"]
    OBVIOUS
  <2>2. /\ m \in CallRecords /\ m.at = "deliver" /\ m.ask = k.ask /\ m.now = k.now /\ m.left = k.left
        /\ m.named = k.named /\ m.bare = k.bare /\ m.free = k.free
    BY <1>2, <2>1 DEF CallRecords
  <2>3. Cleared(k) /\ k.left \subseteq Sends!Everyone(k.ask) /\ k.now \subseteq Sends!Everyone(k.ask)
    BY <1>2 DEF Fitting, Consulting
  <2>4. m.now \subseteq m.free \cup m.ask.confirm
    BY <1>2, <1>3, <2>2 DEF Sends!Transportable, Remembers, CallRecords
  <2>5. m \in Fitting
    BY <1>2, <2>2, <2>3, <2>4, ClearedFits DEF Remembers
  <2> QED BY <1>3, <2>1, <2>5, RecipientsGoes DEF CallStates
<1>4. CASE Sends!CallGoes(c, Sends!Onward(k, FALSE))
  BY <1>2, <1>4, OnwardFits, RecipientsGoes DEF CallStates
<1> QED BY <1>1, <1>3, <1>4 DEF Sends!AskSuppressed

LEMMA RecipientsDeliver == ASSUME RecipientsInv, NEW c \in Senders, Sends!Deliver(c) PROVE RecipientsInv'
<1>1. PICK k : k = reCall[c]
  OBVIOUS
<1>2. k.at = "deliver" /\ k \in Fitting /\ k \in CallRecords
  BY <1>1, CallIs DEF Sends!Deliver
<1>3. /\ UNCHANGED Around /\ UNCHANGED drafts /\ \A r \in last : LastFits(r)
      /\ Sends!Onward(k, FALSE) \in CallStates /\ Sends!Onward(k, TRUE) \in CallStates
  BY <1>2, OnwardFits DEF Sends!Deliver, Sends!policy, Sends!schema, Around, RecipientsInv
<1>4. CASE Sends!Goes(c, Sends!Onward(k, FALSE)) /\ UNCHANGED last
  BY <1>3, <1>4, RecipientsStep
<1>5. CASE Sends!Goes(c, Sends!Onward(k, TRUE)) /\ last' = {Sends!About(k, r) : r \in k.now}
  <2>1. ASSUME NEW r \in k.now PROVE LastFits(Sends!About(k, r))
    <3>1. /\ k.ask \in Asks /\ r \in Sends!Everyone(k.ask) /\ Cleared(k) /\ r \in k.free \cup k.ask.confirm
      BY <1>2 DEF Fitting, CallRecords, Consulting
    <3>2. k.ask.manual \/ r \in k.named \/ (k.bare = Sends!PolicyTables /\ ~reLoad.previous)
      BY <3>1 DEF Cleared, LetPass
    <3>3. PICK x : x = Sends!About(k, r)
      OBVIOUS
    <3>4. /\ x.ask = k.ask /\ x.to = r /\ (x.named <=> r \in k.named)
          /\ (x.bare <=> (k.bare = Sends!PolicyTables /\ ~reLoad.previous)) /\ (x.free <=> r \in k.free \cup k.ask.confirm)
      BY <3>3 DEF Sends!About
    <3> QED BY <3>1, <3>2, <3>3, <3>4 DEF LastFits
  <2>2. \A r \in last' : LastFits(r)
    BY <1>5, <2>1
  <2> QED BY <1>3, <1>5, <2>2, RecipientsStep
<1> QED BY <1>1, <1>4, <1>5 DEF Sends!Deliver

LEMMA RecipientsKeeps == ASSUME RecipientsInv, Sends!Next PROVE RecipientsInv'
<1>1. reLoad.callers \subseteq Senders /\ reLoad.asks \subseteq Asks
  BY LoadIs DEF RecipientsInv, PolicyFits
<1>2. CASE \E c \in reLoad.callers, ask \in reLoad.asks :
             Sends!SendEmail(c, ask) \/ Sends!SendThreaded(c, ask) \/ Sends!CreateDraft(c, ask) \/ Sends!CreateThreadDraft(c, ask)
  BY <1>1, <1>2, RecipientsPreflight, RecipientsDraft DEF Sends!SendEmail, Sends!SendThreaded
<1>3. CASE \E c \in reLoad.callers :
             \/ Sends!ReadExact(c) \/ Sends!ReadDomains(c) \/ Sends!Consult(c)
             \/ Sends!Leg(c) \/ Sends!LegsEnd(c) \/ Sends!AskSuppressed(c) \/ Sends!Deliver(c) \/ Sends!Archive(c)
  BY <1>1, <1>3, RecipientsReadExact, RecipientsReadDomains, RecipientsConsult, RecipientsLeg, RecipientsLegsEnd,
     RecipientsAsk, RecipientsDeliver, RecipientsArchive
<1>4. CASE Sends!MigratePolicy
  BY <1>4, RecipientsMigrate
<1>5. CASE \/ Sends!SeedDomains
           \/ \E d \in Domains : Sends!AuthorizeDomain(d) \/ Sends!RevokeDomain(d)
           \/ \E a \in Addresses : Sends!AuthorizeRecipient(a) \/ Sends!RevokeRecipient(a)
  BY <1>5, RecipientsEdits
<1>6. CASE \E a \in Addresses : Sends!Suppression(a)
  BY <1>6, RecipientsSuppress
<1>7. CASE \E d \in drafts : Sends!SentByHand(d)
  BY <1>7, RecipientsByHand
<1> QED BY <1>2, <1>3, <1>4, <1>5, <1>6, <1>7 DEF Sends!Next

LEMMA RecipientsStart == Sends!Init => RecipientsInv
<1> SUFFICES ASSUME Sends!Init PROVE RecipientsInv
  OBVIOUS
<1>1. /\ reLoad \in SendLoads /\ legacy \in Legacies /\ seeded = FALSE /\ domains = {} /\ exact = {} /\ history = {}
      /\ drafts = {} /\ suppressed = {} /\ reCall = [c \in Senders |-> Sends!Idle] /\ last = {}
  BY DEF Sends!Init
<1>2. PolicyFits
  BY <1>1 DEF PolicyFits
<1>3. reCall \in [Senders -> CallStates]
  BY <1>1 DEF CallStates
<1> QED BY <1>1, <1>2, <1>3 DEF RecipientsInv

LEMMA RecipientsTurns == RecipientsInv /\ [AllNext]_allVars => RecipientsInv'
<1> SUFFICES ASSUME RecipientsInv, [AllNext]_allVars PROVE RecipientsInv'
  OBVIOUS
<1>1. CASE Sends!Next
  BY <1>1, RecipientsKeeps
<1>2. CASE UNCHANGED recipientsVars
  <2>1. UNCHANGED Around /\ UNCHANGED <<drafts, reCall, last>>
    BY <1>2 DEF recipientsVars, Around
  <2>2. drafts \subseteq SUBSET Addresses /\ reCall \in [Senders -> CallStates] /\ \A r \in last : LastFits(r)
    BY DEF RecipientsInv, PolicyFits
  <2> QED BY <2>1, <2>2, CallMoves
<1> QED BY <1>1, <1>2 DEF AllNext, allVars

\* Who is written to stands on the message, and to oneself only as a Bcc.
LEMMA ThreadIs ==
  ASSUME NEW ask \in Asks, ask.kind # "send", NEW a \in Sends!Everyone(ask)
  PROVE  LET t == ask.thread IN
         /\ a \in t.from \cup t.replyTo \cup t.to \cup t.cc \cup ask.cc \cup ask.bcc
         /\ a \in Own => a \in ask.bcc
BY DEF Sends!Everyone, Sends!To, Sends!Cc, Sends!ThreadTo, Sends!ThreadCc

LEMMA RecipientsShow == RecipientsInv => RecipientsSafety
<1> SUFFICES ASSUME RecipientsInv PROVE RecipientsSafety
  OBVIOUS
<1>1. Sends!TypeOK
  <2>1. \A c \in Senders :
          reCall[c].at \in {"idle", "exact", "domains", "history", "leg", "transport", "deliver", "archive"}
    BY DEF RecipientsInv, CallStates, Fitting, Sends!Idle, CallRecords
  <2> QED BY <2>1 DEF RecipientsInv, PolicyFits, Sends!TypeOK
<1>2. Sends!NoneBehindThePolicy
  BY DEF RecipientsInv, LastFits, Sends!NoneBehindThePolicy
<1>3. Sends!StaysInThread
  BY ThreadIs DEF RecipientsInv, LastFits, Sends!StaysInThread
<1> QED BY <1>1, <1>2, <1>3 DEF RecipientsSafety

\* Nobody is reached by an automated send whom the policy named at no moment of the call, unless
\* each of its tables was empty at a moment of the call and the Sent folder does not count; nobody
\* who was suppressed, and not confirmed, from the beginning of the call or leg to its
\* transmission; and an answer stays in its thread.  This holds for any number of callers beside
\* each other, whatever the tables an earlier release left, and however policy, suppressions and
\* Sent folder change between the reads.
THEOREM RecipientsHold == AllSpec => []RecipientsSafety
<1>1. AllInit => RecipientsInv
  BY RecipientsStart DEF AllInit
<1> QED BY <1>1, RecipientsTurns, RecipientsShow, PTL DEF AllSpec

-----------------------------------------------------------------------------
(***************************************************************************)
(* The mail accounts.                                                      *)
(***************************************************************************)

AccountRows == [made : 0..MaxSaves, enabled : BOOLEAN, default : BOOLEAN, amp : BOOLEAN]

\* At most one account is the default, and it is the one that was chosen last, unless that
\* account was deleted under its set_default.
AccountsFit ==
  /\ account \in [AccountIds -> AccountRows]
  /\ \A i \in AccountIds : account[i].made = 0 => account[i] = Accts!NoRow
  /\ \A i, j \in Accts!Default : i = j
  /\ made \in 0..MaxSaves
  /\ chosen \in Accts!Kept \cup {none}
  /\ ~raced /\ chosen # none => account[chosen].default

\* An import is marked, or about to be, or its process ended before it was.
ImportFits ==
  /\ imports \in Nat /\ torn \in Nat
  /\ imports <= 1 + torn
  /\ imports > torn => marker \/ boot = "mark"
  /\ boot \in {"migrate", "mark", "up"}

CallsFit ==
  /\ DOMAIN acCall = Callers
  /\ \A c \in Callers : acCall[c].at \in {"default", "amp"} => acCall[c].id \in AccountIds

AccountsInv == AccountsFit /\ ImportFits /\ CallsFit

\* A set of natural numbers has a least element, so that the oldest account is one.
LEMMA OldestIs ==
  ASSUME AccountsFit, NEW S \in SUBSET AccountIds, S # {}
  PROVE  Accts!Oldest(S) \in S
<1> DEFINE M == {account[i].made : i \in S}
<1>1. M \subseteq Nat /\ M # {}
  BY DEF AccountsFit, AccountRows
<1>2. PICK m \in M : \A n \in M : m <= n
  <2>1. PICK m \in M : \A n \in M : ~(<<n, m>> \in OpToRel(<, Nat))
    <3> HIDE DEF M
    <3> QED BY <1>1, WFMin, NatLessThanWellFounded
  <2>2. \A n \in M : ~(n < m)
    BY <1>1, <2>1 DEF OpToRel
  <2>3. \A n \in M : n \in Nat
    BY <1>1
  <2> HIDE DEF M
  <2> QED BY <2>2, <2>3
<1>3. \E i \in S : \A j \in S : account[i].made <= account[j].made
  BY <1>2
<1> QED BY <1>3 DEF Accts!Oldest

LEMMA KeptIs == ASSUME NEW i PROVE i \in Accts!Kept <=> i \in AccountIds /\ account[i].made > 0
BY DEF Accts!Kept

LEMMA RowIs ==
  ASSUME AccountsFit, NEW i \in AccountIds
  PROVE  /\ account[i] \in AccountRows /\ account[i].made \in 0..MaxSaves /\ account[i].enabled \in BOOLEAN
         /\ account[i].default \in BOOLEAN /\ account[i].amp \in BOOLEAN
         /\ i \notin Accts!Kept => account[i].made = 0 /\ account[i] = Accts!NoRow /\ ~account[i].default
<1>1. account[i] \in AccountRows
  BY DEF AccountsFit
<1>2. account[i].made \in Int /\ account[i].made >= 0
  BY <1>1 DEF AccountRows
<1>3. i \notin Accts!Kept => account[i].made = 0
  BY <1>2, KeptIs
<1> QED BY <1>1, <1>3 DEF AccountRows, AccountsFit, Accts!NoRow

\* Every step but a save, a set_default and a deletion leaves the accounts alone.
LEMMA AccountsRest ==
  ASSUME AccountsFit, UNCHANGED <<account, made, chosen, raced>>
  PROVE  AccountsFit'
BY DEF AccountsFit, Accts!Default, Accts!Kept

LEMMA AccountsSaved ==
  ASSUME AccountsFit, NEW i \in AccountIds, NEW enabled \in BOOLEAN, NEW make \in BOOLEAN,
         i \notin Accts!Kept => made < MaxSaves, Accts!Saved(i, enabled, make)
  PROVE  AccountsFit'
<1> DEFINE becomes == Accts!BecomesDefault(i, make)
<1>0. PICK b \in BOOLEAN : b = becomes
  BY DEF Accts!BecomesDefault
<1>1. /\ account' = [j \in AccountIds |-> IF j = i THEN Accts!SavedRow(i, enabled, make)
                                          ELSE [account[j] EXCEPT !.default = @ /\ ~b]]
      /\ made' = IF i \in Accts!Kept THEN made ELSE made + 1
      /\ chosen' = IF b THEN i ELSE chosen
      /\ raced' => ~b
      /\ ~raced' => b \/ ~raced
  BY <1>0 DEF Accts!Saved
<1>2. made \in Nat /\ made <= MaxSaves /\ MaxSaves \in Nat /\ made' \in 0..MaxSaves
  BY <1>1, RecordsAssumption DEF AccountsFit, Accts!AccountsAssumption
<1>3. PICK d \in BOOLEAN : d = (b \/ (i \in Accts!Kept /\ account[i].default))
  BY RowIs
<1>4. PICK n \in 1..MaxSaves : n = IF i \in Accts!Kept THEN account[i].made ELSE made + 1
  BY <1>2, RowIs, KeptIs
<1>5. account'[i] = [made |-> n, enabled |-> enabled, default |-> d, amp |-> account[i].amp]
  BY <1>0, <1>1, <1>3, <1>4 DEF Accts!SavedRow
<1>6. ASSUME NEW j \in AccountIds, j # i
      PROVE  /\ account'[j] \in AccountRows /\ account'[j].made = account[j].made
             /\ account'[j].default = (account[j].default /\ ~b)
             /\ account[j] = Accts!NoRow => account'[j] = Accts!NoRow
  <2>1. account'[j] = [account[j] EXCEPT !.default = @ /\ ~b]
    BY <1>1, <1>6
  <2>3. account[j] \in AccountRows
    BY RowIs
  <2>4. account'[j] \in AccountRows /\ account'[j].made = account[j].made
        /\ account'[j].default = (account[j].default /\ ~b)
    BY <2>1, <2>3 DEF AccountRows
  <2>5. account[j] = Accts!NoRow => account'[j] = Accts!NoRow
    <3> SUFFICES ASSUME account[j] = Accts!NoRow PROVE account'[j] = Accts!NoRow
      OBVIOUS
    <3>1. account[j].default = FALSE /\ (account[j].default /\ ~b) = FALSE
      BY DEF Accts!NoRow
    <3>2. account'[j] = [account[j] EXCEPT !.default = FALSE]
      BY <2>1, <3>1
    <3>3. PICK r \in AccountRows : r = account[j]
      BY <2>3
    <3>4. r.default = FALSE
      BY <3>3 DEF Accts!NoRow
    <3>5. [r EXCEPT !.default = FALSE] = r
      BY <3>4 DEF AccountRows
    <3> QED BY <3>2, <3>3, <3>5
  <2> QED BY <2>4, <2>5
<1>7. account'[i] \in AccountRows /\ account'[i].made = n /\ account'[i].default = d /\ n > 0
  <2>1. account[i].amp \in BOOLEAN /\ n \in 0..MaxSaves /\ n > 0
    BY RowIs, <1>2, <1>4
  <2> QED BY <1>5, <2>1 DEF AccountRows
<1>8. account' \in [AccountIds -> AccountRows]
  BY <1>1, <1>6, <1>7
<1>9. \A j \in AccountIds : account'[j].made = 0 => account'[j] = Accts!NoRow
  BY <1>6, <1>7 DEF AccountsFit
<1>10. Accts!Kept' = Accts!Kept \cup {i}
  BY <1>6, <1>7, KeptIs DEF Accts!Kept
<1>11. \A j, k \in Accts!Default' : j = k
  <2>1. \A j : j \in Accts!Default' <=> (j = i /\ d) \/ (j # i /\ j \in Accts!Default /\ ~b)
    BY <1>6, <1>7, <1>10 DEF Accts!Default, Accts!Kept
  <2>2. CASE b
    BY <2>1, <2>2
  <2>3. CASE ~b
    <3>1. d => i \in Accts!Default
      BY <1>3, <2>3 DEF Accts!Default
    <3> QED BY <2>1, <2>3, <3>1 DEF AccountsFit
  <2> QED BY <2>2, <2>3
<1>12. chosen' \in Accts!Kept' \cup {none}
  BY <1>1, <1>10 DEF AccountsFit
<1>13. ~raced' /\ chosen' # none => account'[chosen'].default
  <2>1. CASE b
    BY <1>1, <1>3, <1>7, <2>1
  <2>2. CASE ~b /\ chosen = i
    <3>1. ~raced /\ i # none => i \in Accts!Kept /\ account[i].default
      BY <2>2 DEF AccountsFit
    <3> QED BY <1>1, <1>3, <1>7, <2>2, <3>1
  <2>3. CASE ~b /\ chosen # i
    <3>1. chosen \in Accts!Kept \cup {none} /\ Accts!Kept \subseteq AccountIds
      BY DEF AccountsFit, Accts!Kept
    <3>2. chosen # none => account'[chosen].default = account[chosen].default
      BY <1>6, <2>3, <3>1, RowIs
    <3> QED BY <1>1, <2>3, <3>2 DEF AccountsFit
  <2> QED BY <2>1, <2>2, <2>3
<1> QED BY <1>2, <1>8, <1>9, <1>11, <1>12, <1>13 DEF AccountsFit

LEMMA AccountsSetDefault == ASSUME AccountsFit, CallsFit, NEW c \in Callers, Accts!SetDefault(c) PROVE AccountsFit'
<1>1. PICK i \in AccountIds : i = acCall[c].id
  BY DEF Accts!SetDefault, CallsFit
<1>2. PICK kept \in BOOLEAN : kept <=> i \in Accts!Kept
  OBVIOUS
<1>3. /\ account' = [j \in AccountIds |-> [account[j] EXCEPT !.default = j = i /\ kept]]
      /\ chosen' = IF kept THEN i ELSE chosen
      /\ raced' <=> ~kept
      /\ made' = made
  BY <1>1, <1>2 DEF Accts!SetDefault
<1>4. ASSUME NEW j \in AccountIds
      PROVE  /\ account'[j] \in AccountRows /\ account'[j].made = account[j].made
             /\ account'[j].default <=> (j = i /\ kept)
             /\ account[j].made = 0 => account'[j] = Accts!NoRow
  <2>1. account[j] \in AccountRows
    BY RowIs
  <2>2. PICK b \in BOOLEAN : b = (j = i /\ kept)
    OBVIOUS
  <2>3. account'[j] = [account[j] EXCEPT !.default = b]
    BY <1>3, <2>2
  <2>4. account'[j] \in AccountRows /\ account'[j].made = account[j].made /\ account'[j].default = b
    BY <2>1, <2>3 DEF AccountRows
  <2>5. ASSUME account[j].made = 0 PROVE account'[j] = Accts!NoRow
    <3>1. account[j] = Accts!NoRow /\ ~(j = i /\ kept)
      <4>1. account[j] = Accts!NoRow
        BY <2>5 DEF AccountsFit
      <4>2. j \notin Accts!Kept
        BY <2>5, KeptIs
      <4> QED BY <1>2, <4>1, <4>2
    <3>2. PICK r \in AccountRows : r = account[j]
      BY <2>1
    <3>3. r.default = b
      <4>1. r.default = FALSE
        BY <3>1, <3>2 DEF Accts!NoRow
      <4>2. b = FALSE
        BY <2>2, <3>1
      <4> QED BY <4>1, <4>2
    <3>4. [r EXCEPT !.default = b] = r
      BY <3>3 DEF AccountRows
    <3> QED BY <2>3, <3>1, <3>2, <3>4
  <2> QED BY <2>2, <2>4, <2>5
<1>5. account' \in [AccountIds -> AccountRows]
  BY <1>3, <1>4
<1>6. \A j \in AccountIds : account'[j].made = 0 => account'[j] = Accts!NoRow
  BY <1>4
<1>7. Accts!Kept' = Accts!Kept
  BY <1>4 DEF Accts!Kept
<1>8. \A j, k \in Accts!Default' : j = k
  BY <1>4, <1>7 DEF Accts!Default, Accts!Kept
<1>9. chosen' \in Accts!Kept' \cup {none}
  BY <1>2, <1>3, <1>7 DEF AccountsFit
<1>10. ~raced' /\ chosen' # none => account'[chosen'].default
  BY <1>2, <1>3, <1>4
<1> QED BY <1>3, <1>5, <1>6, <1>8, <1>9, <1>10 DEF AccountsFit

LEMMA AccountsSetAmp ==
  ASSUME AccountsFit, CallsFit, NEW c \in Callers, NEW on \in BOOLEAN, Accts!SetAmpState(c, on)
  PROVE  AccountsFit'
<1>1. PICK i \in AccountIds : i = acCall[c].id
  BY DEF Accts!SetAmpState, CallsFit
<1>2. /\ account' = IF i \in Accts!Kept THEN [account EXCEPT ![i].amp = on] ELSE account
      /\ UNCHANGED <<made, chosen, raced>>
  BY <1>1 DEF Accts!SetAmpState
<1>3. ASSUME i \in Accts!Kept PROVE AccountsFit'
  <2>1. account' = [account EXCEPT ![i] = [account[i] EXCEPT !.amp = on]]
    BY <1>2, <1>3
  <2>2. account[i] \in AccountRows
    BY RowIs
  <2>3. PICK r \in AccountRows : r = [account[i] EXCEPT !.amp = on]
    BY <2>2 DEF AccountRows
  <2>4. r.made = account[i].made /\ r.default = account[i].default
    BY <2>2, <2>3 DEF AccountRows
  <2>5. /\ account' \in [AccountIds -> AccountRows]
        /\ \A j \in AccountIds : account'[j].made = account[j].made /\ account'[j].default = account[j].default
        /\ \A j \in AccountIds : j # i => account'[j] = account[j]
    BY <2>1, <2>3, <2>4 DEF AccountsFit
  <2>6. Accts!Kept' = Accts!Kept /\ Accts!Default' = Accts!Default
    BY <2>5 DEF Accts!Kept, Accts!Default
  <2>7. account[i].made # 0 /\ Accts!Kept \subseteq AccountIds
    BY <1>3, KeptIs DEF Accts!Kept
  <2>8. \A j \in AccountIds : account'[j].made = 0 => account'[j] = Accts!NoRow
    BY <2>5, <2>7 DEF AccountsFit
  <2> QED BY <1>2, <2>5, <2>6, <2>7, <2>8 DEF AccountsFit
<1> QED BY <1>2, <1>3, AccountsRest

LEMMA AccountsDelete ==
  ASSUME AccountsFit, NEW c \in Callers, NEW i \in AccountIds, Accts!Delete(c, i)
  PROVE  AccountsFit'
<1> DEFINE rest == Accts!Enabled \ {i}
<1>1. PICK next : next = IF rest = {} THEN none ELSE Accts!Oldest(rest)
  OBVIOUS
<1>2. PICK was \in BOOLEAN : was = account[i].default
  BY RowIs
<1>3. /\ i \in Accts!Kept
      /\ account' = [j \in AccountIds |-> IF j = i THEN Accts!NoRow
                                          ELSE IF was /\ j = next THEN [account[j] EXCEPT !.default = TRUE]
                                          ELSE account[j]]
      /\ chosen' = IF was THEN next ELSE IF chosen = i THEN none ELSE chosen
      /\ UNCHANGED <<made, raced>>
  BY <1>1, <1>2 DEF Accts!Delete
<1>4. next = none \/ (next \in Accts!Kept /\ next # i /\ next \in AccountIds)
  <2>1. rest \subseteq AccountIds /\ rest \subseteq Accts!Kept
    BY DEF Accts!Enabled, Accts!Kept
  <2>2. rest # {} => Accts!Oldest(rest) \in rest
    BY <2>1, OldestIs
  <2> QED BY <1>1, <2>1, <2>2
<1>5. none \notin AccountIds /\ MaxSaves \in Nat
  BY RecordsAssumption DEF Accts!AccountsAssumption
<1>6. Accts!NoRow \in AccountRows /\ Accts!NoRow.made = 0 /\ Accts!NoRow.default = FALSE
  BY <1>5 DEF Accts!NoRow, AccountRows
<1>7. ASSUME NEW j \in AccountIds, j # i
      PROVE  /\ account'[j] \in AccountRows /\ account'[j].made = account[j].made
             /\ account'[j].default <=> (account[j].default \/ (was /\ j = next))
             /\ account[j].made = 0 => account'[j] = account[j]
  <2>1. account[j] \in AccountRows
    BY RowIs
  <2>2. CASE was /\ j = next
    <3>1. account'[j] = [account[j] EXCEPT !.default = TRUE]
      BY <1>3, <1>7, <2>2
    <3>2. account[j].made > 0
      BY <1>4, <1>5, <2>2, KeptIs
    <3>3. account'[j] \in AccountRows /\ account'[j].made = account[j].made /\ account'[j].default = TRUE
      BY <2>1, <3>1 DEF AccountRows
    <3> QED BY <2>2, <3>2, <3>3
  <2>3. CASE ~(was /\ j = next)
    <3>1. account'[j] = account[j]
      BY <1>3, <1>7, <2>3
    <3> QED BY <2>1, <2>3, <3>1
  <2> QED BY <2>2, <2>3
<1>8. account'[i] = Accts!NoRow
  BY <1>3
<1>9. account' \in [AccountIds -> AccountRows]
  BY <1>3, <1>6, <1>7, <1>8
<1>10. \A j \in AccountIds : account'[j].made = 0 => account'[j] = Accts!NoRow
  BY <1>7, <1>8 DEF AccountsFit
<1>11. Accts!Kept' = Accts!Kept \ {i}
  BY <1>6, <1>7, <1>8 DEF Accts!Kept
<1>12. \A j : j \in Accts!Default' <=> j \in Accts!Kept /\ j # i /\ (account[j].default \/ (was /\ j = next))
  BY <1>7, <1>11 DEF Accts!Default, Accts!Kept
<1>13. \A j, k \in Accts!Default' : j = k
  <2>1. was => \A j \in Accts!Kept : account[j].default => j = i
    BY <1>2, <1>3 DEF AccountsFit, Accts!Default
  <2>2. CASE was
    BY <1>12, <2>1, <2>2
  <2>3. CASE ~was
    BY <1>12, <2>3 DEF AccountsFit, Accts!Default
  <2> QED BY <2>2, <2>3
<1>14. chosen' \in Accts!Kept' \cup {none}
  BY <1>3, <1>4, <1>11 DEF AccountsFit
<1>15. ~raced' /\ chosen' # none => account'[chosen'].default
  <2>1. CASE was
    BY <1>3, <1>4, <1>7, <2>1
  <2>2. CASE ~was
    <3>1. chosen \in Accts!Kept \cup {none} /\ Accts!Kept \subseteq AccountIds
      BY DEF AccountsFit, Accts!Kept
    <3> QED BY <1>3, <1>7, <2>2, <3>1 DEF AccountsFit
  <2> QED BY <2>1, <2>2
<1> QED BY <1>3, <1>9, <1>10, <1>13, <1>14, <1>15 DEF AccountsFit

LEMMA AccountsSave ==
  ASSUME AccountsFit, NEW c \in Callers, NEW i \in AccountIds, NEW enabled \in BOOLEAN, NEW make \in BOOLEAN,
         Accts!Save(c, i, enabled, make)
  PROVE  AccountsFit'
<1>1. CASE Accts!Fits(i, make)
  BY <1>1, AccountsSaved DEF Accts!Save
<1>2. CASE ~Accts!Fits(i, make)
  BY <1>2, AccountsRest DEF Accts!Save
<1> QED BY <1>1, <1>2

LEMMA AccountsMigrate == ASSUME AccountsFit, Accts!Migrate PROVE AccountsFit'
<1>1. CASE /\ Accts!Saved(EnvAccount, TRUE, TRUE) /\ made < MaxSaves /\ EnvAccount # none
  <2>1. EnvAccount \in AccountIds
    BY <1>1, RecordsAssumption DEF Accts!AccountsAssumption
  <2> QED BY <1>1, <2>1, AccountsSaved
<1>2. CASE UNCHANGED <<account, made, chosen, raced>>
  BY <1>2, AccountsRest
<1> QED BY <1>1, <1>2 DEF Accts!Migrate

LEMMA ImportKeeps == ASSUME ImportFits, Accts!Next PROVE ImportFits'
<1>1. CASE Accts!Migrate
  <2>1. boot = "migrate" /\ UNCHANGED <<marker, torn>> /\ boot' \in {"mark", "up"}
    BY <1>1 DEF Accts!Migrate
  <2>2. CASE Accts!Settled
    BY <1>1, <2>1, <2>2 DEF Accts!Migrate, ImportFits
  <2>3. CASE ~Accts!Settled
    <3>1. ~marker /\ boot' = "mark" /\ imports' \in {imports, imports + 1}
      BY <1>1, <2>3 DEF Accts!Migrate, Accts!Settled
    <3>2. imports <= torn /\ imports \in Nat /\ torn \in Nat
      BY <2>1, <3>1 DEF ImportFits
    <3> QED BY <2>1, <3>1, <3>2 DEF ImportFits
  <2> QED BY <2>2, <2>3
<1>2. CASE Accts!Mark
  BY <1>2 DEF Accts!Mark, ImportFits
<1>3. CASE Accts!Restart
  BY <1>3 DEF Accts!Restart, ImportFits
<1>4. CASE UNCHANGED <<imports, torn, marker, boot>>
  BY <1>4 DEF ImportFits
<1> QED BY <1>1, <1>2, <1>3, <1>4 DEF Accts!Next, Accts!SetDefault, Accts!SetAmpState, Accts!Delete, Accts!Resolves, Accts!Save

\* What a caller is told, and the account it resolved.
LEMMA CallsKeep == ASSUME CallsFit, Accts!Next PROVE CallsFit'
<1>1. CASE UNCHANGED acCall
  BY <1>1 DEF CallsFit
<1>2. ASSUME NEW c \in Callers, NEW t, Accts!Tells(c, t) PROVE CallsFit'
  BY <1>2 DEF CallsFit, Accts!Tells
<1>3. ASSUME NEW c \in Callers, NEW i \in AccountIds, NEW what,
             acCall' = [acCall EXCEPT ![c] = [at |-> what, told |-> "nothing", id |-> i]]
      PROVE  CallsFit'
  BY <1>3 DEF CallsFit
<1>4. CASE acCall' = [c \in Callers |-> Accts!Idle]
  BY <1>4 DEF CallsFit, Accts!Idle
<1>5. CASE \E c \in Callers, i \in AccountIds, what \in {"default", "amp"} : Accts!Resolves(c, i, what)
  BY <1>2, <1>3, <1>5 DEF Accts!Resolves
<1>6. CASE \E c \in Callers : \/ Accts!SetDefault(c) \/ \E on \in BOOLEAN : Accts!SetAmpState(c, on)
  BY <1>2, <1>6 DEF Accts!SetDefault, Accts!SetAmpState
<1>7. CASE \E c \in Callers, i \in AccountIds :
             Accts!Delete(c, i) \/ \E enabled, make \in BOOLEAN : Accts!Save(c, i, enabled, make)
  BY <1>2, <1>7 DEF Accts!Delete, Accts!Save
<1>8. CASE Accts!Migrate \/ Accts!Mark \/ Accts!Restart
  BY <1>1, <1>4, <1>8 DEF Accts!Migrate, Accts!Mark, Accts!Restart
<1> QED BY <1>5, <1>6, <1>7, <1>8 DEF Accts!Next

LEMMA AccountsKeep == ASSUME AccountsInv, Accts!Next PROVE AccountsInv'
<1>1. AccountsFit /\ ImportFits /\ CallsFit
  BY DEF AccountsInv
<1>2. CASE \E c \in Callers : \/ Accts!SetDefault(c) \/ \E on \in BOOLEAN : Accts!SetAmpState(c, on)
  BY <1>1, <1>2, AccountsSetDefault, AccountsSetAmp, ImportKeeps, CallsKeep DEF AccountsInv
<1>3. CASE \E c \in Callers, i \in AccountIds :
             Accts!Delete(c, i) \/ \E enabled, make \in BOOLEAN : Accts!Save(c, i, enabled, make)
  BY <1>1, <1>3, AccountsDelete, AccountsSave, ImportKeeps, CallsKeep DEF AccountsInv
<1>4. CASE \E c \in Callers, i \in AccountIds, what \in {"default", "amp"} : Accts!Resolves(c, i, what)
  <2>1. UNCHANGED <<account, made, chosen, raced>>
    BY <1>4 DEF Accts!Resolves
  <2> QED BY <1>1, <2>1, AccountsRest, ImportKeeps, CallsKeep DEF AccountsInv
<1>5. CASE Accts!Migrate
  BY <1>1, <1>5, AccountsMigrate, ImportKeeps, CallsKeep DEF AccountsInv
<1>6. CASE Accts!Mark \/ Accts!Restart
  <2>1. UNCHANGED <<account, made, chosen, raced>>
    BY <1>6 DEF Accts!Mark, Accts!Restart
  <2> QED BY <1>1, <2>1, AccountsRest, ImportKeeps, CallsKeep DEF AccountsInv
<1> QED BY <1>2, <1>3, <1>4, <1>5, <1>6 DEF Accts!Next

LEMMA AccountsStart == Accts!Init => AccountsInv
<1> SUFFICES ASSUME Accts!Init PROVE AccountsInv
  OBVIOUS
<1>1. /\ account = [i \in AccountIds |-> Accts!NoRow] /\ marker = FALSE /\ boot = "migrate"
      /\ acCall = [c \in Callers |-> Accts!Idle] /\ made = 0 /\ chosen = none /\ raced = FALSE /\ imports = 0 /\ torn = 0
  BY DEF Accts!Init
<1>2. MaxSaves \in Nat /\ Accts!NoRow \in AccountRows /\ Accts!NoRow.made = 0
  BY RecordsAssumption DEF Accts!AccountsAssumption, Accts!NoRow, AccountRows
<1>3. AccountsFit
  BY <1>1, <1>2 DEF AccountsFit, Accts!Default, Accts!Kept
<1>4. ImportFits /\ CallsFit
  BY <1>1 DEF ImportFits, CallsFit, Accts!Idle
<1> QED BY <1>3, <1>4 DEF AccountsInv

LEMMA AccountsTurn == AccountsInv /\ [AllNext]_allVars => AccountsInv'
<1> SUFFICES ASSUME AccountsInv, [AllNext]_allVars PROVE AccountsInv'
  OBVIOUS
<1>1. CASE Accts!Next
  BY <1>1, AccountsKeep
<1>2. CASE UNCHANGED accountsVars
  <2>1. UNCHANGED <<account, marker, boot, acCall, made, chosen, raced, imports, torn>>
    BY <1>2 DEF accountsVars
  <2>2. ImportFits' /\ CallsFit'
    BY <2>1 DEF AccountsInv, ImportFits, CallsFit
  <2> QED BY <2>1, <2>2, AccountsRest DEF AccountsInv
<1> QED BY <1>1, <1>2 DEF AllNext, allVars

LEMMA AccountsShow == AccountsInv => AccountsSafety
<1> SUFFICES ASSUME AccountsInv PROVE AccountsSafety
  OBVIOUS
<1>0. AccountsFit /\ ImportFits
  BY DEF AccountsInv
<1>1. Accts!TypeOK
  <2>1. \A i \in AccountIds : account[i].made \in 0..MaxSaves /\ (account[i].made = 0 => account[i] = Accts!NoRow)
    BY <1>0, RowIs DEF AccountsFit
  <2>2. Accts!Cardinality(Accts!Default) <= 1
    <3>1. CASE Accts!Default = {}
      <4>1. Cardinality({}) = 0
        BY FS_EmptySet
      <4> QED BY <3>1, <4>1 DEF Cardinality, Accts!Cardinality
    <3>2. CASE Accts!Default # {}
      <4>1. PICK i \in Accts!Default : Accts!Default = {i}
        BY <1>0, <3>2 DEF AccountsFit
      <4>2. Cardinality({i}) = 1
        BY FS_Singleton
      <4> QED BY <4>1, <4>2 DEF Cardinality, Accts!Cardinality
    <3> QED BY <3>1, <3>2
  <2>3. chosen \in AccountIds \cup {none}
    BY <1>0 DEF AccountsFit, Accts!Kept
  <2> QED BY <2>1, <2>2, <2>3 DEF Accts!TypeOK
<1>2. Accts!ChosenAnswers
  <2> SUFFICES ASSUME chosen \in Accts!Enabled, ~raced PROVE Accts!Resolved = chosen
    BY DEF Accts!ChosenAnswers
  <2>1. chosen \in AccountIds /\ chosen \in Accts!Kept /\ chosen # none
    BY RecordsAssumption DEF Accts!AccountsAssumption, Accts!Enabled, Accts!Kept
  <2>2. chosen \in Accts!Default
    BY <1>0, <2>1 DEF AccountsFit, Accts!Default
  <2>3. Accts!Enabled \cap Accts!Default = {chosen}
    BY <1>0, <2>2 DEF AccountsFit
  <2>4. Accts!Oldest({chosen}) \in {chosen}
    BY <1>0, <2>1, OldestIs
  <2> QED BY <2>3, <2>4 DEF Accts!Resolved
<1>3. Accts!ImportedOnce
  BY <1>0 DEF ImportFits, Accts!ImportedOnce
<1> QED BY <1>1, <1>2, <1>3 DEF AccountsSafety

\* A call that names no account gets the one last chosen while that one is enabled, through
\* edits, deletions and restarts, until a set_default whose account was deleted under it leaves
\* none chosen.  The account of the environment is imported once, and once more for each time
\* the process ended between an import and its marker.  All this with any number of accounts
\* and callers.
THEOREM AccountsHold == AllSpec => []AccountsSafety
<1>1. AllInit => AccountsInv
  BY AccountsStart DEF AllInit
<1> QED BY <1>1, AccountsTurn, AccountsShow, PTL DEF AllSpec

-----------------------------------------------------------------------------
(***************************************************************************)
(* The index of what was sent.                                             *)
(***************************************************************************)

NoMid == <<0, "none">>
AllShapes == OperationShapes \cup (IF LegacyOperation = NoOperation THEN {} ELSE {LegacyOperation.shape})
Everybody == UNION {Filed!Envelope(s) : s \in AllShapes}

\* The messages of the sends, and answers to them: each send has its own, and none is NoMid.
Mids == {<<n, r>> : n \in Nat \ {0}, r \in Everybody \cup {"all"}} \cup {<<-k, "reply">> : k \in Nat}

\* A send as the ledger keeps it: a group message went whole.
SendRows == [account : Mailboxes, shape : AllShapes, went : SUBSET Everybody, first : Everybody \cup {"none"}]
SendFits(s) ==
  /\ s.shape \in AllShapes
  /\ s.went \subseteq Filed!Envelope(s.shape)
  /\ s.shape.single /\ s.went # {} => s.first \in s.went
  /\ ~s.shape.single => s.went = Filed!Envelope(s.shape)
SendsFit == sends \in Seq(SendRows) /\ \A n \in 1..Len(sends) : SendFits(sends[n])

\* The rows of an operation are those of its send, or those of the older format until the store
\* is opened.
OfOp(table, n) == {x \in table : x.op = n}
PseudoRow(r) ==
  [id |-> <<"pseudo", 1, r>>, op |-> 1, mid |-> <<1, "all">>, to |-> r,
   role |-> Filed!RoleOf(LegacyOperation.shape, r)]
RowsFit(n) ==
  \/ OfOp(deliveries, n) = Filed!Deliveries(n) /\ OfOp(mappings, n) = Filed!Mappings(n)
  \/ /\ n = 1 /\ LegacyOperation # NoOperation /\ ~migrated
     /\ sends[1].shape = LegacyOperation.shape
     /\ OfOp(deliveries, 1) = {PseudoRow(r) : r \in Filed!Envelope(LegacyOperation.shape)} /\ OfOp(mappings, 1) = {}
TablesFit ==
  /\ DOMAIN ops \subseteq 1..Len(sends)
  /\ \A n \in DOMAIN ops :
       ops[n].account = sends[n].account /\ ops[n].canonical = Filed!Canonical(n) /\ RowsFit(n)
  /\ \A x \in deliveries \cup mappings : x.op \in DOMAIN ops

MailsFit == \A m \in mails : m.mid \in Mids /\ m.refs \in Seq(Mids)

AnswerFits ==
  /\ told.known \subseteq 1..Len(sends)
  /\ told.row # Filed!None => told.row.op \in 1..Len(sends)
  /\ Filed!FiledWhereItBelongs /\ Filed!DirectAnswerNamesItsSender

OperationsInv ==
  SendsFit /\ TablesFit /\ MailsFit /\ AnswerFits /\ replies \in Nat /\ migrated \in BOOLEAN

LEMMA NoMidIsNone == NoMid \notin Mids
BY DEF NoMid, Mids

LEMMA ShapeIs ==
  ASSUME NEW s \in AllShapes
  PROVE  s.single \in BOOLEAN /\ Filed!Envelope(s) \subseteq Everybody
<1>1. s.single \in BOOLEAN
  BY RecordsAssumption DEF Filed!OperationsAssumption, AllShapes
<1> QED BY <1>1 DEF Everybody

LEMMA MidIs ==
  ASSUME NEW s \in AllShapes, NEW n \in Nat \ {0}, NEW r \in Filed!Envelope(s)
  PROVE  Filed!Mid(n, s, r) \in Mids
BY ShapeIs DEF Filed!Mid, Mids

\* The rows of a send.
LEMMA DeliveriesAre ==
  ASSUME SendsFit, NEW n \in 1..Len(sends), NEW x \in Filed!Deliveries(n)
  PROVE  /\ sends[n].shape.single /\ x.op = n /\ x.to \in Filed!Went(n) /\ x.mid = <<n, x.to>>
         /\ x.mid = Filed!Mid(n, sends[n].shape, x.to) /\ x.role \in Filed!Roles /\ ~Filed!Pseudo(x.id)
BY DEF Filed!Deliveries, Filed!Mid, Filed!Roles, Filed!RoleOf, Filed!Pseudo

LEMMA MappingsAre ==
  ASSUME SendsFit, NEW n \in 1..Len(sends), NEW x \in Filed!Mappings(n)
  PROVE  /\ ~sends[n].shape.single /\ x.op = n /\ x.to \in Filed!Went(n) /\ x.mid = <<n, "all">>
         /\ x.mid = Filed!Mid(n, sends[n].shape, x.to) /\ x.role \in Filed!Roles
BY DEF Filed!Mappings, Filed!Mid, Filed!Roles, Filed!RoleOf

LEMMA Indexed ==
  ASSUME SendsFit, TablesFit, migrated, NEW a, NEW mid
  PROVE  /\ \A x \in Filed!OfAccount(deliveries, a, mid) :
              x.op \in DOMAIN ops /\ sends[x.op].account = a /\ x.mid = mid /\ x \in Filed!Deliveries(x.op)
         /\ \A x \in Filed!OfAccount(mappings, a, mid) :
              x.op \in DOMAIN ops /\ sends[x.op].account = a /\ x.mid = mid /\ x \in Filed!Mappings(x.op)
BY DEF TablesFit, RowsFit, OfOp, Filed!OfAccount

-----------------------------------------------------------------------------
\* What a reference gives is an operation of the account one of whose messages it is.
FiledUnder(row, a, mid) ==
  /\ row = [op |-> row.op, to |-> row.to, role |-> row.role]
  /\ row.op \in DOMAIN ops /\ sends[row.op].account = a
  /\ \E r \in Filed!Went(row.op) : Filed!Mid(row.op, sends[row.op].shape, r) = mid
  /\ row.to = "none" \/ (row.to \in Filed!Went(row.op) /\ Filed!Mid(row.op, sends[row.op].shape, row.to) = mid)

LEMMA RowFiled ==
  ASSUME SendsFit, TablesFit, migrated, NEW a, NEW mid,
         NEW x \in Filed!OfAccount(deliveries, a, mid) \cup Filed!OfAccount(mappings, a, mid)
  PROVE  FiledUnder(Filed!Row(x), a, mid) /\ FiledUnder([Filed!None EXCEPT !.op = x.op], a, mid)
<1>1. x.op \in DOMAIN ops /\ sends[x.op].account = a /\ x.mid = mid
      /\ (x \in Filed!Deliveries(x.op) \/ x \in Filed!Mappings(x.op))
  BY Indexed
<1>2. x.op \in 1..Len(sends)
  BY <1>1 DEF TablesFit
<1>3. x.to \in Filed!Went(x.op) /\ x.mid = Filed!Mid(x.op, sends[x.op].shape, x.to)
  BY <1>1, <1>2, DeliveriesAre, MappingsAre
<1> QED BY <1>1, <1>3 DEF FiledUnder, Filed!Row, Filed!None

LEMMA WholeFiled ==
  ASSUME SendsFit, TablesFit, migrated, NEW a, NEW mid \in Mids, NEW n \in Filed!Operations(a, mid)
  PROVE  FiledUnder([Filed!None EXCEPT !.op = n], a, mid)
<1>1. CASE n \in DOMAIN ops /\ ops[n].account = a /\ ops[n].canonical = mid
  <2>1. n \in 1..Len(sends) /\ sends[n].account = a /\ Filed!Canonical(n) = mid /\ SendFits(sends[n])
    BY <1>1 DEF TablesFit, SendsFit
  <2>2. Filed!Went(n) # {} /\ mid = Filed!Mid(n, sends[n].shape, sends[n].first)
    BY <2>1, NoMidIsNone DEF Filed!Canonical, NoMid
  <2>3. \E r \in Filed!Went(n) : Filed!Mid(n, sends[n].shape, r) = mid
    BY <2>1, <2>2 DEF SendFits, Filed!Mid, Filed!Went
  <2> QED BY <1>1, <2>1, <2>3 DEF FiledUnder, Filed!None
<1>2. CASE \E x \in Filed!OfAccount(deliveries, a, mid) \cup Filed!OfAccount(mappings, a, mid) : n = x.op
  BY <1>2, RowFiled
<1> QED BY <1>1, <1>2 DEF Filed!Operations

LEMMA OneIsThere == ASSUME NEW S, Filed!Cardinality(S) = 1 PROVE S # {} /\ Filed!Only(S) \in S
<1>1. Cardinality({}) = 0
  BY FS_EmptySet
<1>2. Filed!Cardinality({}) = 0
  BY <1>1 DEF Cardinality, Filed!Cardinality
<1>3. S # {}
  BY <1>2
<1> QED BY <1>3 DEF Filed!Only

LEMMA ReferenceFiled ==
  ASSUME SendsFit, TablesFit, migrated, NEW a, NEW mid \in Mids, NEW from,
         Filed!ByReference(a, mid, from) # Filed!None
  PROVE  FiledUnder(Filed!ByReference(a, mid, from), a, mid)
<1> DEFINE ds == Filed!OfAccount(deliveries, a, mid)
           ms == Filed!OfAccount(mappings, a, mid)
           os == Filed!Operations(a, mid)
           shared == {m.op : m \in ms}
           whole == IF Filed!Cardinality(os) = 1 THEN [Filed!None EXCEPT !.op = Filed!Only(os)] ELSE Filed!None
           row == Filed!ByReference(a, mid, from)
<1>1. row = IF Filed!Cardinality(ds) = 1 THEN Filed!Row(Filed!Only(ds))
            ELSE IF ds # {} /\ Filed!MatchOf(ds, from) # {} THEN Filed!Row(Filed!Only(Filed!MatchOf(ds, from)))
            ELSE IF ds # {} /\ whole # Filed!None THEN whole
            ELSE IF Filed!Cardinality(shared) # 1 THEN whole
            ELSE IF Filed!MatchOf(ms, from) # {} THEN Filed!Row(Filed!Only(Filed!MatchOf(ms, from)))
            ELSE [Filed!None EXCEPT !.op = Filed!Only(shared)]
  BY DEF Filed!ByReference
<1>2. ASSUME row = whole PROVE FiledUnder(row, a, mid)
  <2>1. Filed!Cardinality(os) = 1 /\ row = [Filed!None EXCEPT !.op = Filed!Only(os)]
    BY <1>2
  <2>2. Filed!Only(os) \in os
    BY <2>1, OneIsThere
  <2> QED BY <2>1, <2>2, WholeFiled
<1>3. ASSUME NEW table, table = ds \/ table = ms, Filed!MatchOf(table, from) # {},
             row = Filed!Row(Filed!Only(Filed!MatchOf(table, from)))
      PROVE  FiledUnder(row, a, mid)
  <2>1. Filed!Only(Filed!MatchOf(table, from)) \in Filed!MatchOf(table, from)
    BY <1>3 DEF Filed!Only
  <2>2. Filed!MatchOf(table, from) \subseteq table
    BY DEF Filed!MatchOf
  <2> QED BY <1>3, <2>1, <2>2, RowFiled
<1>4. ASSUME Filed!Cardinality(ds) = 1, row = Filed!Row(Filed!Only(ds)) PROVE FiledUnder(row, a, mid)
  BY <1>4, OneIsThere, RowFiled
<1>5. ASSUME Filed!Cardinality(shared) = 1, row = [Filed!None EXCEPT !.op = Filed!Only(shared)]
      PROVE  FiledUnder(row, a, mid)
  <2>1. Filed!Only(shared) \in shared
    BY <1>5, OneIsThere
  <2>2. PICK m \in ms : Filed!Only(shared) = m.op
    BY <2>1
  <2> QED BY <1>5, <2>2, RowFiled
<1> HIDE DEF ds, ms, os, shared, whole, row
<1>6. FiledUnder(row, a, mid)
  BY <1>1, <1>2, <1>3, <1>4, <1>5
<1> QED BY <1>6 DEF row

LEMMA OneIs == ASSUME NEW x PROVE Filed!Cardinality({x}) = 1 /\ Filed!Only({x}) = x
<1>1. Cardinality({x}) = 1
  BY FS_Singleton
<1>2. Filed!Cardinality({x}) = 1
  BY <1>1 DEF Cardinality, Filed!Cardinality
<1> QED BY <1>2 DEF Filed!Only

LEMMA NoneIs == Filed!Cardinality({}) = 0
<1>1. Cardinality({}) = 0
  BY FS_EmptySet
<1> QED BY <1>1 DEF Cardinality, Filed!Cardinality

\* The message somebody has of an indexed send gives his own row.
LEMMA ReferenceNames ==
  ASSUME SendsFit, TablesFit, migrated, NEW n \in DOMAIN ops, NEW from \in Filed!Went(n)
  PROVE  LET row == Filed!ByReference(sends[n].account, Filed!Mid(n, sends[n].shape, from), from)
         IN row.op = n /\ row.to = from
<1> DEFINE a == sends[n].account
           mid == Filed!Mid(n, sends[n].shape, from)
           ds == Filed!OfAccount(deliveries, a, mid)
           ms == Filed!OfAccount(mappings, a, mid)
<1>1. /\ n \in 1..Len(sends) /\ ops[n].account = a
      /\ OfOp(deliveries, n) = Filed!Deliveries(n) /\ OfOp(mappings, n) = Filed!Mappings(n)
      /\ \A x \in deliveries \cup mappings : x.op \in 1..Len(sends)
  BY DEF TablesFit, RowsFit
<1>2. CASE sends[n].shape.single
  <2>1. mid = <<n, from>>
    BY <1>2 DEF Filed!Mid
  <2>2. PICK d : d = [id |-> <<"real", n, from>>, op |-> n, mid |-> mid, to |-> from,
                      role |-> Filed!RoleOf(sends[n].shape, from)]
    OBVIOUS
  <2>3. d \in Filed!Deliveries(n)
    BY <1>2, <2>2 DEF Filed!Deliveries
  <2>4. d \in ds
    BY <1>1, <2>2, <2>3 DEF OfOp, Filed!OfAccount
  <2>5. ASSUME NEW x \in ds PROVE x = d
    <3>1. x.op \in 1..Len(sends) /\ x.mid = mid /\ x \in Filed!Deliveries(x.op)
      BY <1>1, Indexed DEF TablesFit
    <3>2. x.mid = <<x.op, x.to>>
      BY <3>1, DeliveriesAre
    <3>3. x.op = n /\ x.to = from /\ x \in Filed!Deliveries(n)
      BY <2>1, <3>1, <3>2
    <3> QED BY <1>2, <2>2, <3>3 DEF Filed!Deliveries
  <2>6. ds = {d}
    BY <2>4, <2>5
  <2>7. Filed!ByReference(a, mid, from) = Filed!Row(d)
    <3>1. Filed!Cardinality(ds) = 1 /\ Filed!Only(ds) = d
      BY <2>6, OneIs
    <3> QED BY <3>1 DEF Filed!ByReference
  <2> QED BY <2>2, <2>7 DEF Filed!Row
<1>3. CASE ~sends[n].shape.single
  <2>1. mid = <<n, "all">>
    BY <1>3 DEF Filed!Mid
  <2>2. PICK m : m = [op |-> n, mid |-> mid, to |-> from, role |-> Filed!RoleOf(sends[n].shape, from)]
    OBVIOUS
  <2>3. m \in Filed!Mappings(n)
    BY <1>3, <2>2 DEF Filed!Mappings
  <2>4. m \in ms
    BY <1>1, <2>2, <2>3 DEF OfOp, Filed!OfAccount
  <2>5. ASSUME NEW x \in ms PROVE x.op = n /\ (x.to = from => x = m)
    <3>1. x.op \in 1..Len(sends) /\ x.mid = mid /\ x \in Filed!Mappings(x.op)
      BY <1>1, Indexed DEF TablesFit
    <3>2. x.mid = <<x.op, "all">>
      BY <3>1, MappingsAre
    <3>3. x.op = n /\ x \in Filed!Mappings(n)
      BY <2>1, <3>1, <3>2
    <3> QED BY <1>3, <2>2, <3>3 DEF Filed!Mappings
  <2>6. ds = {}
    <3>1. ASSUME NEW x \in ds PROVE FALSE
      <4>1. x.op \in 1..Len(sends) /\ x.mid = mid /\ x \in Filed!Deliveries(x.op)
        BY <1>1, Indexed DEF TablesFit
      <4>2. x.mid = <<x.op, x.to>> /\ sends[x.op].shape.single
        BY <4>1, DeliveriesAre
      <4>3. x.op = n
        BY <2>1, <4>1, <4>2
      <4> QED BY <1>3, <4>2, <4>3
    <3> QED BY <3>1
  <2>7. {x.op : x \in ms} = {n} /\ {x \in ms : x.to = from} = {m}
    BY <2>2, <2>4, <2>5
  <2>8. Filed!MatchOf(ms, from) = {m}
    BY <2>7, OneIs DEF Filed!MatchOf
  <2>9. Filed!Cardinality({x.op : x \in ms}) = 1 /\ Filed!Only(Filed!MatchOf(ms, from)) = m /\ Filed!Cardinality(ds) # 1
    <3>1. Filed!Cardinality({n}) = 1 /\ Filed!Only({m}) = m /\ Filed!Cardinality({}) # 1
      <4>1. Filed!Cardinality({n}) = 1 /\ Filed!Only({m}) = m
        BY OneIs
      <4>2. Filed!Cardinality({}) # 1
        BY NoneIs
      <4> QED BY <4>1, <4>2
    <3> HIDE DEF ds, ms
    <3> QED BY <2>6, <2>7, <2>8, <3>1
  <2>10. Filed!ByReference(a, mid, from) = Filed!Row(m)
    BY <2>6, <2>8, <2>9 DEF Filed!ByReference
  <2> QED BY <2>2, <2>10 DEF Filed!Row
<1> QED BY <1>2, <1>3, ShapeIs DEF SendsFit, SendFits

LEMMA LeastIs ==
  ASSUME NEW S \in SUBSET Nat, S # {}
  PROVE  Filed!Min(S) \in S /\ \A n \in S : Filed!Min(S) <= n
<1>1. PICK m \in S : \A n \in S : ~(<<n, m>> \in OpToRel(<, Nat))
  BY WFMin, NatLessThanWellFounded
<1>2. \A n \in S : ~(n < m)
  BY <1>1 DEF OpToRel
<1>3. \E x \in S : \A y \in S : x <= y
  BY <1>2
<1> QED BY <1>3 DEF Filed!Min

\* An arriving message is filed by the newest reference that gives anything.
LEMMA ResolvedIs ==
  ASSUME NEW a, NEW m, NEW refs \in Seq(Mids), NEW mid \in Mids, m.refs = Append(refs, mid)
  PROVE  /\ \/ Filed!Resolve(a, m) = Filed!None
            \/ \E ref \in Filed!Range(m.refs) \cap Mids :
                 /\ Filed!Resolve(a, m) = Filed!ByReference(a, ref, m.sender)
                 /\ Filed!Resolve(a, m) # Filed!None
         /\ Filed!ByReference(a, mid, m.sender) # Filed!None =>
              Filed!Resolve(a, m) = Filed!ByReference(a, mid, m.sender)
         /\ mid \in Filed!Range(m.refs)
<1> DEFINE n == Len(m.refs)
           found == {k \in DOMAIN m.refs : Filed!ByReference(a, Filed!Ordered(m)[k], m.sender) # Filed!None}
<1>1. m.refs \in Seq(Mids) /\ n \in Nat /\ DOMAIN m.refs = 1..n /\ n = Len(refs) + 1 /\ m.refs[n] = mid /\ n >= 1
  OBVIOUS
<1>2. \A k \in 1..n : Filed!Ordered(m)[k] = m.refs[n - k + 1] /\ n - k + 1 \in 1..n
  BY <1>1 DEF Filed!Ordered, Filed!Reverse
<1>3. \A k \in 1..n : m.refs[k] \in Filed!Range(m.refs) \cap Mids
  BY <1>1 DEF Filed!Range
<1>4. Filed!Resolve(a, m) = IF found = {} THEN Filed!None
                            ELSE Filed!ByReference(a, Filed!Ordered(m)[Filed!Min(found)], m.sender)
  BY DEF Filed!Resolve
<1>5. found \subseteq 1..n /\ found \in SUBSET Nat
  BY <1>1
<1>6. found # {} => Filed!Min(found) \in found /\ \A k \in found : Filed!Min(found) <= k
  BY <1>5, LeastIs
<1>7. found # {} => \E ref \in Filed!Range(m.refs) \cap Mids :
                       /\ Filed!Resolve(a, m) = Filed!ByReference(a, ref, m.sender)
                       /\ Filed!Resolve(a, m) # Filed!None
  <2> SUFFICES ASSUME found # {}
               PROVE  \E ref \in Filed!Range(m.refs) \cap Mids :
                        /\ Filed!Resolve(a, m) = Filed!ByReference(a, ref, m.sender)
                        /\ Filed!Resolve(a, m) # Filed!None
    OBVIOUS
  <2>1. PICK k \in 1..n : k = Filed!Min(found) /\ k \in found
    BY <1>5, <1>6
  <2>2. Filed!Ordered(m)[k] \in Filed!Range(m.refs) \cap Mids
    BY <1>2, <1>3
  <2> QED BY <1>4, <2>1, <2>2
<1>8. ASSUME Filed!ByReference(a, mid, m.sender) # Filed!None
      PROVE  Filed!Resolve(a, m) = Filed!ByReference(a, mid, m.sender)
  <2>1. Filed!Ordered(m)[1] = mid
    BY <1>1, <1>2
  <2>2. 1 \in found
    BY <1>1, <1>8, <2>1
  <2>3. Filed!Min(found) \in 1..n /\ Filed!Min(found) <= 1
    BY <1>5, <1>6, <2>2
  <2>4. Filed!Min(found) = 1
    BY <2>3
  <2> QED BY <1>4, <2>1, <2>2, <2>4
<1>9. mid \in Filed!Range(m.refs)
  BY <1>1, <1>3
<1> HIDE DEF found
<1> QED BY <1>4, <1>7, <1>8, <1>9

-----------------------------------------------------------------------------
\* What was said of an operation stays so while sends are added.
SendsGrow == Len(sends) <= Len(sends') /\ \A n \in 1..Len(sends) : sends'[n] = sends[n]

LEMMA RowsStay ==
  ASSUME NEW n \in 1..Len(sends), sends'[n] = sends[n]
  PROVE  /\ Filed!Went(n)' = Filed!Went(n) /\ Filed!Canonical(n)' = Filed!Canonical(n)
         /\ Filed!Deliveries(n)' = Filed!Deliveries(n) /\ Filed!Mappings(n)' = Filed!Mappings(n)
BY DEF Filed!Went, Filed!Canonical, Filed!Deliveries, Filed!Mappings

LEMMA AnswerStays ==
  ASSUME SendsFit, SendsFit', AnswerFits, SendsGrow, UNCHANGED told
  PROVE  AnswerFits'
<1>1. Len(sends) \in Nat /\ Len(sends') \in Nat
  BY DEF SendsFit
<1>2. 1..Len(sends) \subseteq 1..Len(sends')
  BY <1>1 DEF SendsGrow
<1>3. \A n \in 1..Len(sends) : sends'[n] = sends[n] /\ Filed!Went(n)' = Filed!Went(n)
  BY RowsStay DEF SendsGrow
<1>4. told.known \subseteq 1..Len(sends) /\ (told.row # Filed!None => told.row.op \in 1..Len(sends))
  BY DEF AnswerFits
<1>5. Filed!FiledWhereItBelongs'
  BY <1>3, <1>4 DEF AnswerFits, Filed!FiledWhereItBelongs
<1>6. Filed!DirectAnswerNamesItsSender'
  BY <1>3, <1>4 DEF AnswerFits, Filed!DirectAnswerNamesItsSender
<1> QED BY <1>2, <1>4, <1>5, <1>6 DEF AnswerFits

\* record_operation, after the send or for a replay of it.
LEMMA TablesRecord ==
  ASSUME SendsFit, SendsFit', TablesFit, migrated, UNCHANGED migrated, SendsGrow, NEW n \in 1..Len(sends'),
         Filed!Recorded(n)
  PROVE  TablesFit'
<1>1. 1..Len(sends) \subseteq 1..Len(sends')
  BY DEF SendsFit, SendsGrow
<1>2. ASSUME NEW k \in 1..Len(sends)
      PROVE  /\ sends'[k] = sends[k] /\ Filed!Canonical(k)' = Filed!Canonical(k)
             /\ Filed!Deliveries(k)' = Filed!Deliveries(k) /\ Filed!Mappings(k)' = Filed!Mappings(k)
  BY RowsStay DEF SendsGrow
<1>3. ASSUME UNCHANGED <<ops, deliveries, mappings>> PROVE TablesFit'
  BY <1>1, <1>2, <1>3 DEF TablesFit, RowsFit, OfOp
<1>4. ASSUME Filed!Record(n) PROVE TablesFit'
  <2>1. /\ ops' = [k \in DOMAIN ops \cup {n} |->
                     IF k = n THEN [account |-> sends'[n].account, canonical |-> Filed!Canonical(n)'] ELSE ops[k]]
        /\ deliveries' = {d \in deliveries : d.op # n} \cup Filed!Deliveries(n)'
        /\ mappings' = {m \in mappings : m.op # n} \cup Filed!Mappings(n)'
    BY <1>4 DEF Filed!Record
  <2>2. (\A x \in Filed!Deliveries(n)' : x.op = n) /\ \A x \in Filed!Mappings(n)' : x.op = n
    BY DEF Filed!Deliveries, Filed!Mappings
  <2>3. DOMAIN ops' = DOMAIN ops \cup {n} /\ DOMAIN ops' \subseteq 1..Len(sends')
    BY <1>1, <2>1 DEF TablesFit
  <2>4. /\ OfOp(deliveries', n) = Filed!Deliveries(n)' /\ OfOp(mappings', n) = Filed!Mappings(n)'
        /\ ops'[n].account = sends'[n].account /\ ops'[n].canonical = Filed!Canonical(n)'
    BY <2>1, <2>2 DEF OfOp
  <2>5. ASSUME NEW k \in DOMAIN ops, k # n
        PROVE  /\ ops'[k].account = sends'[k].account /\ ops'[k].canonical = Filed!Canonical(k)' /\ RowsFit(k)'
    <3>1. k \in 1..Len(sends) /\ ops'[k] = ops[k] /\ ops[k].account = sends[k].account
          /\ ops[k].canonical = Filed!Canonical(k) /\ RowsFit(k)
      BY <2>1, <2>5 DEF TablesFit
    <3>2. OfOp(deliveries', k) = OfOp(deliveries, k) /\ OfOp(mappings', k) = OfOp(mappings, k)
      BY <2>1, <2>2, <2>5 DEF OfOp
    <3>3. OfOp(deliveries, k) = Filed!Deliveries(k) /\ OfOp(mappings, k) = Filed!Mappings(k)
      BY <3>1 DEF RowsFit
    <3>4. RowsFit(k)'
      BY <1>2, <3>1, <3>2, <3>3 DEF RowsFit
    <3> QED BY <1>2, <3>1, <3>4
  <2>6. \A x \in deliveries' \cup mappings' : x.op \in DOMAIN ops'
    BY <2>1, <2>2, <2>3 DEF TablesFit
  <2>7. RowsFit(n)'
    BY <2>4 DEF RowsFit
  <2> QED BY <2>3, <2>4, <2>5, <2>6, <2>7 DEF TablesFit
<1> QED BY <1>3, <1>4 DEF Filed!Recorded, Filed!tables

LEMMA OperationsSend ==
  ASSUME OperationsInv, NEW a \in Mailboxes, NEW shape \in OperationShapes, NEW thread \in {<<>>} \cup Filed!Threads,
         Filed!Send(a, shape, thread)
  PROVE  OperationsInv'
<1> DEFINE n == Len(sends) + 1
<1>1. PICK went, first :
        /\ went \in IF shape.single THEN SUBSET Filed!Envelope(shape) ELSE {Filed!Envelope(shape)}
        /\ first \in IF went = {} THEN {"none"} ELSE went
        /\ sends' = Append(sends, [account |-> a, shape |-> shape, went |-> went, first |-> first])
        /\ mails' = mails \cup {[mid |-> Filed!Mid(n, shape, r), to |-> r, sender |-> "us", refs |-> thread] : r \in went}
        /\ Filed!Recorded(n)
  <2>1. \E m \in {n} :
          \E went \in IF shape.single THEN SUBSET Filed!Envelope(shape) ELSE {Filed!Envelope(shape)} :
            \E first \in IF went = {} THEN {"none"} ELSE went :
              /\ sends' = Append(sends, [account |-> a, shape |-> shape, went |-> went, first |-> first])
              /\ mails' = mails \cup {[mid |-> Filed!Mid(m, shape, r), to |-> r, sender |-> "us", refs |-> thread] :
                                     r \in went}
              /\ Filed!Recorded(m)
    BY DEF Filed!Send
  <2> HIDE DEF n
  <2>2. \E went \in IF shape.single THEN SUBSET Filed!Envelope(shape) ELSE {Filed!Envelope(shape)} :
          \E first \in IF went = {} THEN {"none"} ELSE went :
            /\ sends' = Append(sends, [account |-> a, shape |-> shape, went |-> went, first |-> first])
            /\ mails' = mails \cup {[mid |-> Filed!Mid(n, shape, r), to |-> r, sender |-> "us", refs |-> thread] :
                                   r \in went}
            /\ Filed!Recorded(n)
    BY <2>1
  <2> QED BY <2>2
<1>2. migrated /\ UNCHANGED <<migrated, told, replies>>
  BY DEF Filed!Send
<1>3. SendsFit /\ TablesFit /\ MailsFit /\ AnswerFits /\ replies \in Nat /\ Len(sends) \in Nat /\ sends \in Seq(SendRows)
  BY DEF OperationsInv, SendsFit
<1>4. shape \in AllShapes /\ went \subseteq Filed!Envelope(shape) /\ shape.single \in BOOLEAN
  BY <1>1, ShapeIs DEF AllShapes
<1>5. PICK s \in SendRows : s = [account |-> a, shape |-> shape, went |-> went, first |-> first]
  BY <1>1, <1>4, ShapeIs DEF SendRows
<1>6. SendFits(s)
  <2>1. s.shape = shape /\ s.went = went /\ s.first = first
    BY <1>5
  <2> QED BY <1>1, <1>4, <2>1 DEF SendFits
<1>7. /\ sends' \in Seq(SendRows) /\ Len(sends') = n /\ sends'[n] = s /\ SendsGrow
  BY <1>1, <1>3, <1>5 DEF SendsGrow
<1>8. SendsFit'
  <2>1. \A k \in 1..Len(sends') : SendFits(sends'[k])
    BY <1>3, <1>6, <1>7 DEF SendsFit, SendsGrow
  <2> QED BY <1>7, <2>1 DEF SendsFit, SendFits
<1>9. n \in 1..Len(sends')
  BY <1>3, <1>7
<1>10. TablesFit'
  BY <1>1, <1>2, <1>3, <1>7, <1>8, <1>9, TablesRecord
<1>11. AnswerFits'
  BY <1>2, <1>3, <1>7, <1>8, AnswerStays
<1>12. thread \in Seq(Mids)
  <2>1. CASE thread = <<>>
    BY <2>1
  <2>2. CASE thread \in Filed!Threads
    <3>1. PICK m \in mails : thread = Append(m.refs, m.mid)
      BY <2>2 DEF Filed!Threads
    <3>2. m.refs \in Seq(Mids) /\ m.mid \in Mids
      BY <1>3 DEF MailsFit
    <3> QED BY <3>1, <3>2
  <2> QED BY <2>1, <2>2
<1>13. \A r \in went : Filed!Mid(n, shape, r) \in Mids
  BY <1>3, <1>4, MidIs
<1>14. MailsFit'
  BY <1>1, <1>3, <1>12, <1>13 DEF MailsFit
<1> QED BY <1>2, <1>3, <1>8, <1>10, <1>11, <1>14 DEF OperationsInv

LEMMA OperationsReplay ==
  ASSUME OperationsInv, NEW n \in 1..Len(sends), Filed!Replay(n)
  PROVE  OperationsInv'
<1>1. migrated /\ UNCHANGED <<sends, mails, migrated, told, replies>> /\ Filed!Recorded(n)
  BY DEF Filed!Replay
<1>2. SendsFit /\ TablesFit /\ MailsFit /\ AnswerFits
  BY DEF OperationsInv
<1>3. SendsFit' /\ SendsGrow /\ n \in 1..Len(sends')
  BY <1>1, <1>2 DEF SendsFit, SendFits, SendsGrow
<1>4. TablesFit' /\ AnswerFits'
  BY <1>1, <1>2, <1>3, TablesRecord, AnswerStays
<1>5. MailsFit'
  BY <1>1, <1>2 DEF MailsFit
<1> QED BY <1>1, <1>3, <1>4, <1>5 DEF OperationsInv

\* _migrate_legacy_pseudo_deliveries: rows of the older format become the mappings of their send.
LEMMA OperationsOpen == ASSUME OperationsInv, Filed!Open PROVE OperationsInv'
<1> DEFINE old == {d \in deliveries : Filed!Pseudo(d.id)}
<1>1. /\ migrated' = TRUE /\ deliveries' = deliveries \ old
      /\ mappings' = mappings \cup {[op |-> d.op, mid |-> d.mid, to |-> d.to, role |-> d.role] : d \in old}
      /\ UNCHANGED <<ops, sends, mails, told, replies>>
  BY DEF Filed!Open
<1>2. SendsFit /\ TablesFit /\ MailsFit /\ AnswerFits /\ replies \in Nat
  BY DEF OperationsInv
<1>3. SendsFit' /\ SendsGrow /\ MailsFit'
  BY <1>1, <1>2 DEF SendsFit, SendFits, SendsGrow, MailsFit
<1>4. AnswerFits'
  BY <1>1, <1>2, <1>3, AnswerStays
<1>5. ASSUME NEW n \in DOMAIN ops
      PROVE  OfOp(deliveries', n) = Filed!Deliveries(n) /\ OfOp(mappings', n) = Filed!Mappings(n)
  <2>1. n \in 1..Len(sends) /\ RowsFit(n)
    BY <1>2 DEF TablesFit
  <2>2. CASE OfOp(deliveries, n) = Filed!Deliveries(n) /\ OfOp(mappings, n) = Filed!Mappings(n)
    <3>1. \A d \in deliveries : d.op = n => d \notin old
      BY <1>2, <2>1, <2>2, DeliveriesAre DEF OfOp
    <3>2. OfOp(deliveries', n) = OfOp(deliveries, n) /\ OfOp(mappings', n) = OfOp(mappings, n)
      BY <1>1, <3>1 DEF OfOp
    <3> QED BY <2>2, <3>2
  <2>3. CASE /\ n = 1 /\ LegacyOperation # NoOperation /\ sends[1].shape = LegacyOperation.shape
             /\ OfOp(deliveries, 1) = {PseudoRow(r) : r \in Filed!Envelope(LegacyOperation.shape)}
             /\ OfOp(mappings, 1) = {}
    <3>1. ~sends[1].shape.single /\ Filed!Went(1) = Filed!Envelope(LegacyOperation.shape)
      BY <1>2, <2>1, <2>3, RecordsAssumption DEF Filed!OperationsAssumption, SendsFit, SendFits, Filed!Went
    <3>2. \A r : Filed!Pseudo(PseudoRow(r).id) /\ PseudoRow(r).op = 1
      BY DEF PseudoRow, Filed!Pseudo
    <3>3. OfOp(deliveries', 1) = {} /\ Filed!Deliveries(1) = {}
      BY <1>1, <2>3, <3>1, <3>2 DEF OfOp, Filed!Deliveries
    <3>4. OfOp(mappings', 1) =
            {[op |-> d.op, mid |-> d.mid, to |-> d.to, role |-> d.role] :
               d \in {PseudoRow(r) : r \in Filed!Envelope(LegacyOperation.shape)}}
      <4>1. OfOp(old, 1) = {PseudoRow(r) : r \in Filed!Envelope(LegacyOperation.shape)}
        BY <2>3, <3>2 DEF OfOp
      <4>2. OfOp(mappings', 1) = {[op |-> d.op, mid |-> d.mid, to |-> d.to, role |-> d.role] : d \in OfOp(old, 1)}
        <5> HIDE DEF old
        <5> QED BY <1>1, <2>3 DEF OfOp
      <4> QED BY <4>1, <4>2
    <3>5. OfOp(mappings', 1) =
            {[op |-> 1, mid |-> <<1, "all">>, to |-> r, role |-> Filed!RoleOf(LegacyOperation.shape, r)] :
               r \in Filed!Envelope(LegacyOperation.shape)}
      <4>1. \A r : [op |-> PseudoRow(r).op, mid |-> PseudoRow(r).mid, to |-> PseudoRow(r).to, role |-> PseudoRow(r).role]
                   = [op |-> 1, mid |-> <<1, "all">>, to |-> r, role |-> Filed!RoleOf(LegacyOperation.shape, r)]
        BY DEF PseudoRow
      <4>2. OfOp(mappings', 1) =
              {[op |-> PseudoRow(r).op, mid |-> PseudoRow(r).mid, to |-> PseudoRow(r).to, role |-> PseudoRow(r).role] :
                 r \in Filed!Envelope(LegacyOperation.shape)}
        BY <3>4
      <4> DEFINE f(r) == [op |-> PseudoRow(r).op, mid |-> PseudoRow(r).mid, to |-> PseudoRow(r).to,
                          role |-> PseudoRow(r).role]
                 g(r) == [op |-> 1, mid |-> <<1, "all">>, to |-> r, role |-> Filed!RoleOf(LegacyOperation.shape, r)]
                 all == Filed!Envelope(LegacyOperation.shape)
      <4>3. (\A r : f(r) = g(r)) /\ OfOp(mappings', 1) = {f(r) : r \in all}
        BY <4>1, <4>2
      <4> HIDE DEF f, g, all
      <4>4. OfOp(mappings', 1) = {g(r) : r \in all}
        BY <4>3
      <4> QED BY <4>4 DEF g, all
    <3>6. Filed!Mappings(1) =
            {[op |-> 1, mid |-> <<1, "all">>, to |-> r, role |-> Filed!RoleOf(LegacyOperation.shape, r)] :
               r \in Filed!Envelope(LegacyOperation.shape)}
      BY <2>3, <3>1 DEF Filed!Mappings, Filed!Mid
    <3> QED BY <2>3, <3>3, <3>5, <3>6
  <2> QED BY <2>1, <2>2, <2>3 DEF RowsFit
<1>6. \A x \in deliveries' \cup mappings' : x.op \in DOMAIN ops
  <2>1. old \subseteq deliveries
    OBVIOUS
  <2> HIDE DEF old
  <2> QED BY <1>1, <1>2, <2>1 DEF TablesFit
<1>7. TablesFit'
  <2>1. \A n \in DOMAIN ops : /\ Filed!Canonical(n)' = Filed!Canonical(n) /\ Filed!Deliveries(n)' = Filed!Deliveries(n)
                              /\ Filed!Mappings(n)' = Filed!Mappings(n)
    BY <1>1, <1>2, RowsStay DEF TablesFit
  <2> QED BY <1>1, <1>2, <1>5, <1>6, <2>1 DEF TablesFit, RowsFit
<1> QED BY <1>1, <1>2, <1>3, <1>4, <1>7 DEF OperationsInv

\* Where neither sends nor tables change.
LEMMA OperationsRest ==
  ASSUME OperationsInv, UNCHANGED <<ops, deliveries, mappings, sends>>, migrated' => migrated
  PROVE  SendsFit' /\ TablesFit'
<1>1. SendsFit /\ TablesFit
  BY DEF OperationsInv
<1>2. SendsFit'
  BY <1>1 DEF SendsFit, SendFits
<1>3. \A n \in DOMAIN ops : /\ Filed!Canonical(n)' = Filed!Canonical(n) /\ Filed!Deliveries(n)' = Filed!Deliveries(n)
                            /\ Filed!Mappings(n)' = Filed!Mappings(n)
  BY <1>1, RowsStay DEF TablesFit
<1> QED BY <1>1, <1>2, <1>3 DEF TablesFit, RowsFit

LEMMA OperationsAnswer ==
  ASSUME OperationsInv, NEW a \in Mailboxes, NEW m \in mails, Filed!Answer(a, m)
  PROVE  OperationsInv'
<1>1. migrated /\ replies' = replies + 1 /\ UNCHANGED <<ops, deliveries, mappings, sends, migrated>>
  BY DEF Filed!Answer, Filed!tables
<1>2. SendsFit /\ TablesFit /\ MailsFit /\ replies \in Nat /\ m.refs \in Seq(Mids) /\ m.mid \in Mids
  BY DEF OperationsInv, MailsFit
<1>3. PICK letter : letter = [mid |-> <<-replies, "reply">>, to |-> "us", sender |-> m.to, refs |-> Append(m.refs, m.mid)]
  OBVIOUS
<1>4. /\ \E others : mails' = mails \cup {[letter EXCEPT !.to = r] : r \in others \cup {"us"}}
      /\ told' = [row |-> Filed!Public(Filed!Resolve(a, letter)), account |-> a, from |-> m.to, latest |-> m.mid,
                  reads |-> Filed!Range(letter.refs), known |-> DOMAIN ops]
  <2>1. \E others \in SUBSET ({x.to : x \in mails} \ {"us", m.to}) :
          mails' = mails \cup {[letter EXCEPT !.to = r] : r \in others \cup {"us"}}
    BY <1>3, ZenonT(60) DEF Filed!Answer
  <2>2. told' = [row |-> Filed!Public(Filed!Resolve(a, letter)), account |-> a, from |-> m.to, latest |-> m.mid,
                 reads |-> Filed!Range(letter.refs), known |-> DOMAIN ops]
    BY <1>3 DEF Filed!Answer
  <2> QED BY <2>1, <2>2
<1>5. letter.refs = Append(m.refs, m.mid) /\ letter.refs \in Seq(Mids) /\ letter.sender = m.to /\ letter.mid \in Mids
  <2>1. <<-replies, "reply">> \in Mids
    BY <1>2 DEF Mids
  <2> QED BY <1>2, <1>3, <2>1
<1>6. MailsFit'
  <2>1. \A r : [letter EXCEPT !.to = r].mid = letter.mid /\ [letter EXCEPT !.to = r].refs = letter.refs
    BY <1>3
  <2> QED BY <1>2, <1>4, <1>5, <2>1 DEF MailsFit
<1>7. SendsFit' /\ TablesFit'
  BY <1>1, OperationsRest
<1>8. PICK row : row = Filed!Resolve(a, letter)
  OBVIOUS
<1>9. /\ told'.row = Filed!Public(row) /\ told'.account = a /\ told'.from = m.to /\ told'.latest = m.mid
      /\ told'.reads = Filed!Range(letter.refs) /\ told'.known = DOMAIN ops
  BY <1>4, <1>8
<1>10. row # Filed!None => \E ref \in Filed!Range(letter.refs) : FiledUnder(row, a, ref)
  <2> SUFFICES ASSUME row # Filed!None PROVE \E ref \in Filed!Range(letter.refs) : FiledUnder(row, a, ref)
    OBVIOUS
  <2>1. PICK ref \in Filed!Range(letter.refs) \cap Mids :
          row = Filed!ByReference(a, ref, letter.sender) /\ row # Filed!None
    BY <1>2, <1>5, <1>8, ResolvedIs
  <2>2. FiledUnder(row, a, ref)
    BY <1>1, <1>2, <2>1, ReferenceFiled
  <2> QED BY <2>1, <2>2
<1>11. Filed!Public(Filed!None) = Filed!None
  BY DEF Filed!Public, Filed!None
<1>12. ASSUME row # Filed!None
       PROVE  Filed!Public(row).op = row.op /\ Filed!Public(row).to = row.to /\ Filed!Public(row).role # "bcc"
  <2>1. row = [op |-> row.op, to |-> row.to, role |-> row.role]
    BY <1>10, <1>12 DEF FiledUnder
  <2>2. CASE row.role = "bcc"
    <3>1. Filed!Public(row) = [row EXCEPT !.role = "none"]
      BY <2>2 DEF Filed!Public
    <3>2. [row EXCEPT !.role = "none"].op = row.op /\ [row EXCEPT !.role = "none"].to = row.to
          /\ [row EXCEPT !.role = "none"].role = "none"
      BY <2>1
    <3> QED BY <3>1, <3>2
  <2>3. CASE row.role # "bcc"
    BY <2>3 DEF Filed!Public
  <2> QED BY <2>2, <2>3
<1>13. DOMAIN ops \subseteq 1..Len(sends) /\ \A n : Filed!Went(n)' = Filed!Went(n)
  BY <1>1, <1>2 DEF TablesFit, Filed!Went
<1>14. told'.row # Filed!None => row # Filed!None
  BY <1>9, <1>11
<1>15. told'.row # Filed!None => told'.row.op \in 1..Len(sends')
  BY <1>1, <1>9, <1>10, <1>12, <1>13, <1>14 DEF FiledUnder
<1>16. Filed!FiledWhereItBelongs'
  <2>1. ASSUME told'.row # Filed!None
        PROVE  /\ sends[row.op].account = a
               /\ \E r \in Filed!Went(row.op) : Filed!Mid(row.op, sends[row.op].shape, r) \in told'.reads
               /\ row.to # "none" =>
                    row.to \in Filed!Went(row.op) /\ Filed!Mid(row.op, sends[row.op].shape, row.to) \in told'.reads
    <3>1. PICK ref \in Filed!Range(letter.refs) : FiledUnder(row, a, ref)
      BY <1>10, <1>14, <2>1
    <3> QED BY <1>9, <3>1 DEF FiledUnder
  <2>2. told'.row # Filed!None => told'.row.op = row.op /\ told'.row.to = row.to
    BY <1>9, <1>12, <1>14
  <2> QED BY <1>1, <1>9, <2>1, <2>2 DEF Filed!FiledWhereItBelongs, Filed!Mid, Filed!None, Filed!Went
<1>17. Filed!DirectAnswerNamesItsSender'
  <2> SUFFICES ASSUME NEW n \in told'.known,
                      sends'[n].account = told'.account, told'.from \in Filed!Went(n)',
                      told'.latest = Filed!Mid(n, sends'[n].shape, told'.from)
               PROVE  /\ told'.row.op = n /\ told'.row.to = told'.from
                      /\ told'.row.role # "bcc"
    BY DEF Filed!DirectAnswerNamesItsSender, Filed!Mid, Filed!Went
  <2>1. n \in DOMAIN ops /\ sends[n].account = a /\ m.to \in Filed!Went(n) /\ m.mid = Filed!Mid(n, sends[n].shape, m.to)
    BY <1>1, <1>9, <1>13
  <2>2. Filed!ByReference(a, m.mid, m.to).op = n /\ Filed!ByReference(a, m.mid, m.to).to = m.to
    BY <1>1, <1>2, <2>1, ReferenceNames
  <2>3. n # 0 /\ Filed!None.op = 0
    BY <1>13, <2>1 DEF Filed!None
  <2>4. row = Filed!ByReference(a, m.mid, m.to) /\ row # Filed!None
    BY <1>2, <1>5, <1>8, <2>2, <2>3, ResolvedIs
  <2> QED BY <1>9, <1>12, <2>2, <2>4
<1>18. AnswerFits'
  <2>1. told'.known \subseteq 1..Len(sends')
    BY <1>1, <1>9, <1>13
  <2>2. told'.row # Filed!None' => told'.row.op \in 1..Len(sends')
    BY <1>15 DEF Filed!None
  <2> QED BY <1>16, <1>17, <2>1, <2>2 DEF AnswerFits
<1> QED BY <1>1, <1>2, <1>6, <1>7, <1>18 DEF OperationsInv

LEMMA OperationsKeep == ASSUME OperationsInv, Filed!Next PROVE OperationsInv'
<1>1. CASE Filed!Open
  BY <1>1, OperationsOpen
<1>2. CASE Filed!Restart
  <2>1. UNCHANGED <<ops, deliveries, mappings, sends, mails, told, replies>> /\ migrated' = FALSE /\ migrated
    BY <1>2 DEF Filed!Restart, Filed!tables
  <2>2. SendsFit' /\ TablesFit' /\ SendsGrow /\ SendsFit
    BY <2>1, OperationsRest DEF SendsGrow, OperationsInv, SendsFit
  <2>3. AnswerFits' /\ MailsFit'
    BY <2>1, <2>2, AnswerStays DEF OperationsInv, MailsFit
  <2> QED BY <2>1, <2>2, <2>3 DEF OperationsInv
<1>3. CASE \E a \in Mailboxes, shape \in OperationShapes : \E thread \in {<<>>} \cup Filed!Threads :
             Filed!Send(a, shape, thread)
  BY <1>3, OperationsSend
<1>4. CASE \E a \in Mailboxes, m \in mails : Filed!Answer(a, m)
  BY <1>4, OperationsAnswer
<1>5. CASE \E n \in 1..Len(sends) : Filed!Replay(n)
  BY <1>5, OperationsReplay
<1> QED BY <1>1, <1>2, <1>3, <1>4, <1>5 DEF Filed!Next

LEMMA OperationsStart == Filed!Init => OperationsInv
<1> SUFFICES ASSUME Filed!Init PROVE OperationsInv
  OBVIOUS
<1>1. migrated = FALSE /\ told = Filed!NotTold /\ replies = 0 /\ mappings = {}
  BY DEF Filed!Init
<1>2. AnswerFits
  BY <1>1 DEF AnswerFits, Filed!NotTold, Filed!None, Filed!FiledWhereItBelongs, Filed!DirectAnswerNamesItsSender
<1>3. CASE LegacyOperation = NoOperation
  <2>1. ops = <<>> /\ sends = <<>> /\ deliveries = {} /\ mails = {}
    BY <1>3 DEF Filed!Init
  <2>2. SendsFit
    BY <2>1 DEF SendsFit
  <2>3. TablesFit
    BY <1>1, <2>1 DEF TablesFit
  <2>4. MailsFit
    BY <2>1 DEF MailsFit
  <2> QED BY <1>1, <1>2, <2>2, <2>3, <2>4 DEF OperationsInv
<1>4. CASE LegacyOperation # NoOperation
  <2> DEFINE shape == LegacyOperation.shape
             all == Filed!Envelope(shape)
  <2>1. PICK send : send = [account |-> LegacyOperation.account, shape |-> shape, went |-> all, first |-> "none"]
    OBVIOUS
  <2>2. /\ ops = <<[account |-> LegacyOperation.account, canonical |-> <<1, "all">>]>>
        /\ sends = <<send>>
        /\ deliveries = {PseudoRow(r) : r \in all}
        /\ mails = {[mid |-> <<1, "all">>, to |-> r, sender |-> "us", refs |-> <<>>] : r \in all}
    BY <1>4, <2>1 DEF Filed!Init, PseudoRow
  <2>3. /\ LegacyOperation.account \in Mailboxes /\ shape.single = FALSE /\ all # {} /\ shape \in AllShapes
        /\ all \subseteq Everybody
    BY <1>4, RecordsAssumption DEF Filed!OperationsAssumption, Filed!Envelope, AllShapes, Everybody
  <2>4. send \in SendRows /\ SendFits(send)
    <3>1. send.shape = shape /\ send.went = all
      BY <2>1
    <3>2. SendFits(send)
      BY <2>3, <3>1 DEF SendFits
    <3>3. send \in SendRows
      BY <2>1, <2>3 DEF SendRows
    <3> QED BY <3>2, <3>3
  <2>5. SendsFit
    BY <2>2, <2>4 DEF SendsFit
  <2>6. Len(sends) = 1 /\ sends[1] = send /\ DOMAIN ops = {1} /\ ops[1].account = send.account
        /\ ops[1].canonical = <<1, "all">>
    BY <2>1, <2>2
  <2>7. Filed!Canonical(1) = <<1, "all">>
    BY <2>1, <2>3, <2>6 DEF Filed!Canonical, Filed!Went, Filed!Mid
  <2>8. RowsFit(1)
    <3>1. \A r : PseudoRow(r).op = 1
      BY DEF PseudoRow
    <3>2. OfOp(deliveries, 1) = {PseudoRow(r) : r \in all} /\ OfOp(mappings, 1) = {}
      BY <1>1, <2>2, <3>1 DEF OfOp
    <3> QED BY <1>1, <1>4, <2>1, <2>6, <3>2 DEF RowsFit
  <2>9. \A x \in deliveries \cup mappings : x.op = 1
    BY <1>1, <2>2 DEF PseudoRow
  <2>10. TablesFit
    BY <2>6, <2>7, <2>8, <2>9 DEF TablesFit
  <2>11. MailsFit
    <3>1. <<1, "all">> \in Mids
      BY DEF Mids
    <3>2. <<>> \in Seq(Mids)
      OBVIOUS
    <3>3. \A m \in mails : m.mid = <<1, "all">> /\ m.refs = <<>>
      BY <2>2
    <3> QED BY <3>1, <3>2, <3>3 DEF MailsFit
  <2> QED BY <1>1, <1>2, <2>5, <2>10, <2>11 DEF OperationsInv
<1> QED BY <1>3, <1>4

LEMMA OperationsTurn == OperationsInv /\ [AllNext]_allVars => OperationsInv'
<1> SUFFICES ASSUME OperationsInv, [AllNext]_allVars PROVE OperationsInv'
  OBVIOUS
<1>1. CASE Filed!Next
  BY <1>1, OperationsKeep
<1>2. CASE UNCHANGED operationsVars
  <2>1. UNCHANGED <<ops, deliveries, mappings, sends, mails, told, replies, migrated>>
    BY <1>2 DEF operationsVars
  <2>2. SendsFit' /\ TablesFit' /\ SendsGrow /\ SendsFit
    BY <2>1, OperationsRest DEF SendsGrow, OperationsInv, SendsFit
  <2>3. AnswerFits' /\ MailsFit'
    BY <2>1, <2>2, AnswerStays DEF OperationsInv, MailsFit
  <2> QED BY <2>1, <2>2, <2>3 DEF OperationsInv
<1> QED BY <1>1, <1>2 DEF AllNext, allVars

LEMMA OperationsShow == OperationsInv => OperationsSafety
<1> SUFFICES ASSUME OperationsInv PROVE OperationsSafety
  OBVIOUS
<1>1. SendsFit /\ TablesFit /\ AnswerFits
  BY DEF OperationsInv
<1>2. ASSUME NEW x \in deliveries \cup mappings PROVE x.op \in DOMAIN ops /\ x.role \in Filed!Roles
  <2>1. x.op \in DOMAIN ops /\ x.op \in 1..Len(sends) /\ RowsFit(x.op)
    BY <1>1 DEF TablesFit
  <2>2. CASE x \in Filed!Deliveries(x.op) \/ x \in Filed!Mappings(x.op)
    BY <1>1, <2>1, <2>2, DeliveriesAre, MappingsAre
  <2>3. CASE \E r : x = PseudoRow(r)
    BY <2>1, <2>3 DEF PseudoRow, Filed!RoleOf, Filed!Roles
  <2> QED BY <2>1, <2>2, <2>3 DEF RowsFit, OfOp
<1>3. ASSUME migrated, NEW d \in deliveries PROVE ~Filed!Pseudo(d.id)
  <2>1. d.op \in 1..Len(sends) /\ d \in Filed!Deliveries(d.op)
    BY <1>1, <1>3 DEF TablesFit, RowsFit, OfOp
  <2> QED BY <1>1, <2>1, DeliveriesAre
<1>4. Filed!TypeOK
  BY <1>1, <1>2, <1>3 DEF TablesFit, Filed!TypeOK
<1> QED BY <1>1, <1>4 DEF AnswerFits, OperationsSafety

\* An answer is filed under an operation of its own account it refers to, and one that answers a
\* recorded message directly is filed as its sender's, whose hidden place is not told: with any
\* number of sends, replays, failed recordings, answers to all and restarts, over a store that
\* began in the older format.
THEOREM OperationsHold == AllSpec => []OperationsSafety
<1>1. AllInit => OperationsInv
  BY OperationsStart DEF AllInit
<1> QED BY <1>1, OperationsTurn, OperationsShow, PTL DEF AllSpec
-----------------------------------------------------------------------------
(***************************************************************************)
(* Reads page by page.                                                     *)
(***************************************************************************)

LEMMA LeastExists ==
  ASSUME NEW W \in SUBSET Nat, W # {}
  PROVE  \E x \in W : \A y \in W : x <= y
<1>1. PICK m \in W : \A n \in W : ~(<<n, m>> \in OpToRel(<, Nat))
  BY WFMin, NatLessThanWellFounded
<1>2. \A n \in W : ~(n < m)
  BY <1>1 DEF OpToRel
<1> QED BY <1>2

\* Field values in an order that is sorted from each place to the next are sorted throughout.
LEMMA SortedThroughout ==
  ASSUME NEW n \in Nat, NEW v \in [1..n -> Int], \A j \in 1..(n - 1) : v[j] <= v[j + 1],
         NEW j \in 1..n, NEW k \in 1..n, j <= k
  PROVE  v[j] <= v[k]
<1> DEFINE bad == {l \in Nat : l \in 1..n /\ j <= l /\ ~(v[j] <= v[l])}
<1> SUFFICES ASSUME k \in bad PROVE FALSE
  OBVIOUS
<1>1. PICK l \in bad : \A m \in bad : l <= m
  <2>1. bad \in SUBSET Nat /\ bad # {}
    OBVIOUS
  <2> HIDE DEF bad
  <2> QED BY <2>1, LeastExists
<1>2. l # j /\ l \in 1..n /\ j <= l /\ l - 1 \in 1..(n - 1) /\ j <= l - 1 /\ l - 1 \in Nat
  BY <1>1
<1>3. l - 1 \notin bad
  BY <1>1, <1>2
<1>4. v[j] <= v[l - 1] /\ v[l - 1] <= v[(l - 1) + 1]
  BY <1>2, <1>3
<1>5. (l - 1) + 1 = l /\ v[j] \in Int /\ v[l] \in Int /\ v[l - 1] \in Int
  BY <1>2
<1> QED BY <1>1, <1>4, <1>5

\* Two orders of one set, each strictly ascending, are the same.
LEMMA AscendingOnce ==
  ASSUME NEW n \in Nat, NEW S, NEW s \in Surjection(1..n, S), NEW t \in Surjection(1..n, S), NEW v \in [S -> Int],
         \A j, k \in 1..n : j < k => v[s[j]] < v[s[k]],
         \A j, k \in 1..n : j < k => v[t[j]] < v[t[k]]
  PROVE  s = t
<1>1. /\ s \in [1..n -> S] /\ t \in [1..n -> S]
      /\ \A x \in S : (\E k \in 1..n : s[k] = x) /\ (\E k \in 1..n : t[k] = x)
  BY DEF Surjection
<1> DEFINE bad == {j \in Nat : j \in 1..n /\ s[j] # t[j]}
<1>0. bad = {} => s = t
  <2>1. bad = {} => \A j \in 1..n : s[j] = t[j]
    OBVIOUS
  <2> HIDE DEF bad
  <2> QED BY <1>1, <2>1
<1> SUFFICES ASSUME bad # {} PROVE FALSE
  BY <1>0
<1>2. PICK j \in bad : \A m \in bad : j <= m
  <2> HIDE DEF bad
  <2>1. bad \in SUBSET Nat
    BY DEF bad
  <2> QED BY <2>1, LeastExists
<1>3. j \in 1..n /\ s[j] # t[j] /\ s[j] \in S /\ t[j] \in S
  BY <1>1, <1>2
<1>4. \A m \in 1..n : m < j => s[m] = t[m]
  BY <1>2
<1>5. PICK k \in 1..n : t[k] = s[j]
  BY <1>1, <1>3
<1>6. PICK l \in 1..n : s[l] = t[j]
  BY <1>1, <1>3
<1>7. j < k
  <2>1. k # j
    BY <1>3, <1>5
  <2>2. ASSUME k < j PROVE FALSE
    <3>1. v[s[k]] < v[s[j]] /\ s[k] = t[k]
      BY <2>2, <1>3, <1>4
    <3> QED BY <3>1, <1>1, <1>3, <1>5
  <2> QED BY <2>1, <2>2, <1>3
<1>8. j < l
  <2>1. l # j
    BY <1>3, <1>6
  <2>2. ASSUME l < j PROVE FALSE
    <3>1. v[t[l]] < v[t[j]] /\ s[l] = t[l]
      BY <2>2, <1>3, <1>4
    <3> QED BY <3>1, <1>1, <1>3, <1>6
  <2> QED BY <2>1, <2>2, <1>3
<1>9. v[s[j]] < v[s[l]] /\ v[t[j]] < v[t[k]] /\ v[s[j]] \in Int /\ v[t[j]] \in Int
  BY <1>1, <1>3, <1>7, <1>8
<1> QED BY <1>5, <1>6, <1>9

LEMMA ReadsConstants ==
  /\ Stored \in [ReadIds -> [ReadColumns -> Int]] /\ NoValue \in Int /\ NoSort \notin ReadColumns
  /\ IsFiniteSet(ReadIds) /\ Other \in Seq([ReadColumns -> Int])
  /\ \A o \in Overridings : o.row \in ReadIds /\ o.column \in ReadColumns /\ o.value \in Int /\ o.priority \in Int
  /\ \A ask \in TableAsks :
       /\ ask.kind \in {"query", "export", "join"} /\ ask.effective \in BOOLEAN
       /\ ask.columns \subseteq ReadColumns /\ ask.sort \in ReadColumns \cup {NoSort} /\ ask.page \in Nat \ {0}
<1>1. Reads!IsFiniteSet(ReadIds) => IsFiniteSet(ReadIds)
  BY DEF Reads!IsFiniteSet, IsFiniteSet
<1> QED BY <1>1, RecordsAssumption DEF Reads!ReadsAssumption

LEMMA ReadsCardinality == ASSUME NEW S PROVE Reads!Cardinality(S) = Cardinality(S)
BY DEF Reads!Cardinality, Cardinality

RowValues == [ReadColumns -> Int]
SomeCells == UNION {[C -> Int] : C \in SUBSET ReadColumns}
GotRows == [id : ReadIds, cells : SomeCells, original : SomeCells, stored : RowValues]
PageRows == [id : ReadIds, stored : RowValues]
ReadCalls == [at : {"query", "lay", "join"}, ask : TableAsks, got : Seq(GotRows), page : Seq(PageRows)]

\* No two rows that match share the value they are sorted by.
Apart(ask) == \A i, j \in Reads!Found(ask) : i # j => tqRows[i][ask.sort] # tqRows[j][ask.sort]
Steady(ask) == ask.kind = "query" /\ ask.sort # NoSort /\ ~changed /\ Apart(ask)

\* What was got so far, and the page at hand, are what the order starts with.
Leads(got, page, s) ==
  /\ Len(got) + Len(page) <= Len(s)
  /\ \A j \in 1..Len(got) : got[j].id = s[j]
  /\ \A j \in 1..Len(page) : page[j].id = s[Len(got) + j]

RowTold(row, columns) ==
  \A c \in DOMAIN row.cells \cap columns :
    row.stored[c] = IF c \in DOMAIN row.original THEN row.original[c] ELSE row.cells[c]

ReadFits(k) ==
  /\ k \in ReadCalls /\ (k.at = "join" <=> k.ask.kind = "join") /\ (k.ask.kind = "export" => k.got = <<>>)
  /\ \A j \in DOMAIN k.got : RowTold(k.got[j], k.ask.columns)
  /\ k.at = "query" /\ Steady(k.ask) => \A s \in Reads!Orders(k.ask) : Leads(k.got, <<>>, s)
  /\ k.at = "lay" /\ Steady(k.ask) =>
       \E s \in Reads!Orders(k.ask) :
         Leads(k.got, k.page, s) /\ (Len(k.page) < k.ask.page => Len(k.got) + Len(k.page) = Len(s))

ReadsInv ==
  /\ tqRows \in [ReadIds -> RowValues]
  /\ overrides \in Seq(Overridings) /\ changed \in BOOLEAN
  /\ read # Reads!Idle => ReadFits(read)
  /\ \A j \in DOMAIN result.got : result.got[j].id \in ReadIds
  /\ Reads!PagesCover /\ Reads!OriginalIsTold

LEMMA OrderIs ==
  ASSUME tqRows \in [ReadIds -> RowValues], NEW ask \in TableAsks, NEW s \in Reads!Orders(ask)
  PROVE  \E n \in Nat : /\ Len(s) = n /\ s \in Surjection(1..n, Reads!Found(ask)) /\ DOMAIN s = 1..n
                        /\ \A j, k \in 1..n : j # k => s[j] # s[k]
                        /\ ask.sort # NoSort =>
                             \A j \in 1..(n - 1) : tqRows[s[j]][ask.sort] <= tqRows[s[j + 1]][ask.sort]
<1> DEFINE S == Reads!Found(ask)
<1>1. S \subseteq ReadIds
  BY DEF Reads!Found, Reads!Present
<1>2. IsFiniteSet(S) /\ Cardinality(S) \in Nat
  BY <1>1, ReadsConstants, FS_Subset, FS_CardinalityType
<1> DEFINE n == Cardinality(S)
<1>3. s \in [1..n -> S] /\ \A j, k \in 1..n : j # k => s[j] # s[k]
  BY ReadsCardinality DEF Reads!Orders, Reads!SetToSeqs
<1> HIDE DEF S
<1>4. n \in Nat
  BY <1>2
<1>5. Len(s) = n /\ DOMAIN s = 1..n
  <2> HIDE DEF n
  <2>1. s \in Seq(S)
    BY <1>3, <1>4
  <2> QED BY <1>3, <1>4, <2>1
<1>6. Cardinality(1..n) = n
  <2> HIDE DEF n
  <2> QED BY <1>4, FS_Interval
<1>7. s \in Injection(1..n, S)
  BY <1>3 DEF Injection, IsInjective
<1>8. s \in Surjection(1..n, S)
  <2>1. Cardinality(1..n) = Cardinality(S)
    BY <1>6
  <2> HIDE DEF n
  <2> QED BY <1>2, <1>7, <2>1, FS_Injection
<1>9. ask.sort # NoSort => \A j \in 1..(n - 1) : tqRows[s[j]][ask.sort] <= tqRows[s[j + 1]][ask.sort]
  <2>1. ask.sort # NoSort => \A j \in 1..Len(s) - 1 : tqRows[s[j]][ask.sort] <= tqRows[s[j + 1]][ask.sort]
    BY DEF Reads!Orders, Reads!Field
  <2> HIDE DEF n
  <2> QED BY <1>5, <2>1
<1> QED BY <1>3, <1>4, <1>5, <1>8, <1>9 DEF S

\* Rows that are apart have one order, and it ascends.
LEMMA OrderAscends ==
  ASSUME tqRows \in [ReadIds -> RowValues], NEW ask \in TableAsks, ask.sort # NoSort, Apart(ask),
         NEW s \in Reads!Orders(ask)
  PROVE  \E n \in Nat : /\ n = Cardinality(Reads!Found(ask)) /\ Len(s) = n /\ DOMAIN s = 1..n
                        /\ s \in Surjection(1..n, Reads!Found(ask))
                        /\ \A j, k \in 1..n : j < k => tqRows[s[j]][ask.sort] < tqRows[s[k]][ask.sort]
<1> DEFINE S == Reads!Found(ask)
<1>1. S \subseteq ReadIds
  BY DEF Reads!Found, Reads!Present
<1>2. PICK n \in Nat : /\ Len(s) = n /\ s \in Surjection(1..n, S) /\ DOMAIN s = 1..n
                       /\ \A j, k \in 1..n : j # k => s[j] # s[k]
                       /\ \A j \in 1..(n - 1) : tqRows[s[j]][ask.sort] <= tqRows[s[j + 1]][ask.sort]
  BY OrderIs
<1>3. n = Cardinality(S)
  <2>1. DOMAIN s = 1..Cardinality(S)
    BY ReadsCardinality DEF Reads!Orders, Reads!SetToSeqs
  <2>2. Cardinality(S) \in Nat
    BY <1>1, ReadsConstants, FS_Subset, FS_CardinalityType
  <2> HIDE DEF S
  <2>3. 1..n = 1..Cardinality(S)
    BY <1>2, <2>1
  <2> QED BY <2>2, <2>3
<1>4. s \in [1..n -> S]
  BY <1>2 DEF Surjection
<1>5. \A i \in S : tqRows[i][ask.sort] \in Int
  BY <1>1, ReadsConstants DEF RowValues
<1> DEFINE w == [j \in 1..n |-> tqRows[s[j]][ask.sort]]
<1>6. w \in [1..n -> Int] /\ \A j \in 1..(n - 1) : w[j] <= w[j + 1]
  BY <1>2, <1>4, <1>5
<1>7. ASSUME NEW j \in 1..n, NEW k \in 1..n, j < k PROVE tqRows[s[j]][ask.sort] < tqRows[s[k]][ask.sort]
  <2>1. w[j] <= w[k]
    <3>1. j <= k
      BY <1>7
    <3> HIDE DEF w
    <3> QED BY <1>6, <3>1, SortedThroughout
  <2>2. s[j] # s[k] /\ s[j] \in S /\ s[k] \in S
    BY <1>2, <1>4, <1>7
  <2>3. tqRows[s[j]][ask.sort] # tqRows[s[k]][ask.sort]
    BY <2>2 DEF Apart
  <2>4. w[j] = tqRows[s[j]][ask.sort] /\ w[k] = tqRows[s[k]][ask.sort] /\ w[j] \in Int /\ w[k] \in Int
    BY <1>6
  <2> HIDE DEF w
  <2> QED BY <2>1, <2>3, <2>4
<1> HIDE DEF S
<1> QED BY <1>2, <1>3, <1>7 DEF S

LEMMA OneOrder ==
  ASSUME tqRows \in [ReadIds -> RowValues], NEW ask \in TableAsks, ask.sort # NoSort, Apart(ask),
         NEW s \in Reads!Orders(ask), NEW t \in Reads!Orders(ask)
  PROVE  s = t
<1> DEFINE S == Reads!Found(ask)
<1> DEFINE v == [i \in S |-> tqRows[i][ask.sort]]
<1>1. S \subseteq ReadIds
  BY DEF Reads!Found, Reads!Present
<1>2. v \in [S -> Int]
  BY <1>1, ReadsConstants DEF RowValues
<1>3. \E n \in Nat : n = Cardinality(S)
  BY OrderAscends
<1>4. PICK n \in Nat : n = Cardinality(S)
  BY <1>3
<1>5. \A x \in Reads!Orders(ask) :
        x \in Surjection(1..n, S) /\ \A j, k \in 1..n : j < k => v[x[j]] < v[x[k]]
  <2> TAKE x \in Reads!Orders(ask)
  <2>1. /\ x \in Surjection(1..n, S)
        /\ \A j, k \in 1..n : j < k => tqRows[x[j]][ask.sort] < tqRows[x[k]][ask.sort]
    BY <1>4, OrderAscends
  <2>2. x \in [1..n -> S]
    BY <2>1 DEF Surjection
  <2> QED BY <2>1, <2>2
<1> HIDE DEF v, S
<1> QED BY <1>2, <1>5, AscendingOnce

-----------------------------------------------------------------------------
\* A page cut from an order.
LEMMA PageIs ==
  ASSUME tqRows \in [ReadIds -> RowValues], NEW ask \in TableAsks, NEW s \in Reads!Orders(ask), NEW o \in Nat
  PROVE  LET page == Reads!Page(ask, s, o) IN
         /\ page \in Seq(PageRows)
         /\ o <= Len(s) =>
              /\ o + Len(page) <= Len(s)
              /\ \A j \in 1..Len(page) : page[j].id = s[o + j]
              /\ Len(page) < ask.page => o + Len(page) = Len(s)
<1> DEFINE page == Reads!Page(ask, s, o)
<1>1. PICK n \in Nat : Len(s) = n /\ s \in Surjection(1..n, Reads!Found(ask))
  BY OrderIs
<1>2. PICK m \in Nat : m = ask.page /\ m # 0
  BY ReadsConstants
<1>3. \A j \in 1..n : s[j] \in ReadIds
  <2>1. \A j \in 1..n : s[j] \in Reads!Found(ask)
    BY <1>1 DEF Surjection
  <2> QED BY <2>1 DEF Reads!Found, Reads!Present
<1> DEFINE l == IF o + m < n THEN m ELSE IF o < n THEN n - o ELSE 0
<1>4. page = [j \in 1..l |-> [id |-> s[o + j], stored |-> tqRows[s[o + j]]]]
  BY <1>1, <1>2 DEF Reads!Page
<1>5. l \in Nat /\ \A j \in 1..l : o + j \in 1..n
  BY <1>1, <1>2
<1>6. /\ o <= n => o + l <= n
      /\ o <= n => (l < m => o + l = n)
  BY <1>1, <1>2
<1> HIDE DEF l, page
<1>7. \A j \in 1..l : page[j] \in PageRows /\ page[j].id = s[o + j]
  BY <1>3, <1>4, <1>5 DEF PageRows
<1>8. page \in [1..l -> PageRows]
  BY <1>4, <1>7
<1>9. page \in Seq(PageRows) /\ Len(page) = l
  BY <1>5, <1>8
<1>10. /\ page \in Seq(PageRows)
       /\ o <= Len(s) =>
            /\ o + Len(page) <= Len(s)
            /\ \A j \in 1..Len(page) : page[j].id = s[o + j]
            /\ Len(page) < ask.page => o + Len(page) = Len(s)
  BY <1>1, <1>2, <1>6, <1>7, <1>9
<1> QED BY <1>10 DEF page

\* Of any overrides one stands over the others.
Stands(p, k, l) == IF p[k] = p[l] THEN k > l ELSE p[k] > p[l]

LEMMA OneStands ==
  ASSUME NEW m \in Nat, NEW p \in [1..m -> Int], NEW W \in SUBSET (1..m), W # {}
  PROVE  \E k \in W : \A l \in W \ {k} : Stands(p, k, l)
<1> DEFINE Good(V) == \E k \in V : \A l \in V \ {k} : Stands(p, k, l)
<1> DEFINE bad == {n \in Nat : n <= m /\ \E V \in SUBSET (1..n) : V # {} /\ ~Good(V)}
<1>1. ASSUME bad # {} PROVE FALSE
  <2>1. PICK n \in bad : \A k \in bad : n <= k
    <3>1. bad \in SUBSET Nat
      OBVIOUS
    <3> HIDE DEF bad
    <3> QED BY <1>1, <3>1, LeastExists
  <2>2. PICK V \in SUBSET (1..n) : V # {} /\ ~Good(V)
    BY <2>1
  <2>3. n \in Nat /\ n <= m /\ n # 0
    <3>1. n \in Nat /\ n <= m
      BY <2>1
    <3> HIDE DEF bad, Good
    <3>2. 1..0 = {}
      OBVIOUS
    <3> QED BY <2>2, <3>1, <3>2
  <2>4. n - 1 \in Nat /\ n - 1 <= m /\ n - 1 \notin bad
    <3>1. bad \subseteq Nat
      OBVIOUS
    <3> HIDE DEF bad
    <3> QED BY <2>1, <2>3, <3>1
  <2>5. \A U \in SUBSET (1..(n - 1)) : U # {} => Good(U)
    BY <2>4
  <2> HIDE DEF Good
  <2>6. n \in V
    <3>1. n \notin V => V \in SUBSET (1..(n - 1))
      BY <2>3
    <3> QED BY <2>2, <2>5, <3>1
  <2> DEFINE U == V \ {n}
  <2>7. U \in SUBSET (1..(n - 1)) /\ V \subseteq 1..m
    BY <2>2, <2>3
  <2>8. U # {}
    <3>1. U = {} => V = {n}
      BY <2>6
    <3>2. Good({n})
      BY DEF Good
    <3> QED BY <2>2, <3>1, <3>2
  <2>9. PICK k \in U : \A l \in U \ {k} : Stands(p, k, l)
    BY <2>5, <2>7, <2>8 DEF Good
  <2>10. k \in 1..m /\ n \in 1..m /\ k < n /\ p[k] \in Int /\ p[n] \in Int
    BY <2>3, <2>6, <2>7
  <2>11. CASE p[k] > p[n]
    <3>1. \A l \in V \ {k} : Stands(p, k, l)
      BY <2>9, <2>10, <2>11 DEF Stands
    <3> QED BY <2>2, <3>1 DEF Good
  <2>12. CASE ~(p[k] > p[n])
    <3>1. Stands(p, n, k)
      BY <2>10, <2>12 DEF Stands
    <3>2. \A l \in U \ {k} : Stands(p, n, l)
      <4> SUFFICES ASSUME NEW l \in U \ {k} PROVE Stands(p, n, l)
        OBVIOUS
      <4>1. l \in 1..(n - 1) /\ p[l] \in Int /\ Stands(p, k, l)
        BY <2>3, <2>7, <2>9
      <4> QED BY <4>1, <2>3, <2>10, <2>12 DEF Stands
    <3>3. \A l \in V \ {n} : Stands(p, n, l)
      BY <3>1, <3>2
    <3> QED BY <2>2, <2>6, <3>3 DEF Good
  <2> QED BY <2>11, <2>12
<1>2. m \notin bad
  BY <1>1
<1> QED BY <1>2

\* The override that is told is one in force on that cell.
LEMMA SelectedIs ==
  ASSUME overrides \in Seq(Overridings), NEW i, NEW c, Reads!Over(i, c) # {}
  PROVE  /\ Reads!Selected(i, c) \in Reads!Over(i, c)
         /\ overrides[Reads!Selected(i, c)].value \in Int /\ i \in ReadIds /\ c \in ReadColumns
<1>1. PICK m \in Nat : m = Len(overrides) /\ DOMAIN overrides = 1..m
  OBVIOUS
<1>2. \A k \in 1..m : overrides[k] \in Overridings
  BY <1>1
<1> DEFINE W == Reads!Over(i, c)
<1> DEFINE p == [k \in 1..m |-> overrides[k].priority]
<1>3. p \in [1..m -> Int] /\ W \in SUBSET (1..m)
  BY <1>1, <1>2, ReadsConstants DEF Reads!Over
<1>4. \A k, l \in W : Reads!First(k, l) = Stands(p, k, l)
  BY <1>3 DEF Reads!First, Stands
<1>5. PICK k \in W : \A l \in W \ {k} : Stands(p, k, l)
  <2> HIDE DEF W, p
  <2>1. W # {}
    BY DEF W
  <2> QED BY <1>3, <2>1, OneStands
<1>6. \A l \in W \ {k} : Reads!First(k, l)
  BY <1>4, <1>5
<1>7. Reads!Selected(i, c) \in W
  BY <1>6 DEF Reads!Selected
<1>8. \A l \in W : overrides[l].value \in Int /\ overrides[l].row = i /\ overrides[l].column = c /\ overrides[l] \in Overridings
  BY <1>1, <1>2, <1>3, ReadsConstants DEF Reads!Over
<1> QED BY <1>7, <1>8, ReadsConstants

\* A row as it is told.
LEMMA ToldIs ==
  ASSUME overrides \in Seq(Overridings), NEW ask \in TableAsks, NEW row \in PageRows
  PROVE  /\ Reads!Told(ask, row) \in GotRows /\ Reads!Told(ask, row).id = row.id
         /\ RowTold(Reads!Told(ask, row), ask.columns)
<1> DEFINE laid == IF ask.effective THEN {c \in ReadColumns : Reads!Over(row.id, c) # {}} ELSE {}
<1> DEFINE cells == [c \in ask.columns \cup laid |->
                       IF c \in laid THEN overrides[Reads!Selected(row.id, c)].value ELSE row.stored[c]]
<1> DEFINE original == [c \in laid |-> Reads!Original(ask, row, c)]
<1>1. Reads!Told(ask, row) = [id |-> row.id, cells |-> cells, original |-> original, stored |-> row.stored]
  BY DEF Reads!Told
<1>2. row.id \in ReadIds /\ row.stored \in [ReadColumns -> Int]
  BY DEF PageRows, RowValues
<1>3. laid \subseteq ReadColumns /\ \A c \in laid : Reads!Over(row.id, c) # {}
  OBVIOUS
<1>4. ask.columns \subseteq ReadColumns
  BY ReadsConstants
<1> HIDE DEF laid
<1>5. cells \in [ask.columns \cup laid -> Int]
  BY <1>2, <1>3, <1>4, SelectedIs
<1>6. original \in [laid -> Int]
  BY <1>2, <1>3, <1>4, ReadsConstants DEF Reads!Original
<1>7. /\ DOMAIN cells = ask.columns \cup laid /\ DOMAIN original = laid
      /\ \A c \in ask.columns : c \in laid => original[c] = row.stored[c]
      /\ \A c \in ask.columns : c \notin laid => cells[c] = row.stored[c]
  BY DEF Reads!Original
<1> HIDE DEF cells, original
<1>8. cells \in SomeCells /\ original \in SomeCells
  BY <1>3, <1>4, <1>5, <1>6 DEF SomeCells
<1> DEFINE t == [id |-> row.id, cells |-> cells, original |-> original, stored |-> row.stored]
<1>9. t \in GotRows /\ t.id = row.id
  BY <1>2, <1>8 DEF GotRows, RowValues
<1>10. RowTold(t, ask.columns)
  BY <1>7 DEF RowTold
<1> HIDE DEF t
<1> QED BY <1>1, <1>9, <1>10 DEF t

-----------------------------------------------------------------------------
\* What stands still while a read goes on: the orders of its rows, and whether the rows are apart.
SameRows == tqRows' = tqRows

LEMMA RowsBeside ==
  ASSUME SameRows
  PROVE  /\ \A ask : Reads!Found(ask)' = Reads!Found(ask) /\ Reads!Orders(ask)' = Reads!Orders(ask)
         /\ \A ask : Apart(ask)' <=> Apart(ask)
<1>1. \A ask : Reads!Found(ask)' = Reads!Found(ask)
  BY DEF SameRows, Reads!Found, Reads!Present, Reads!Field
<1>2. \A ask : Reads!Orders(ask)' = Reads!Orders(ask)
  BY <1>1 DEF SameRows, Reads!Orders, Reads!Field
<1>3. \A ask : Apart(ask)' <=> Apart(ask)
  BY <1>1 DEF SameRows, Apart
<1> QED BY <1>1, <1>2, <1>3

\* A step beside the read.
LEMMA ReadsBeside ==
  ASSUME ReadsInv, tqRows' \in [ReadIds -> RowValues], overrides' \in Seq(Overridings), changed' \in BOOLEAN,
         read' = read, result' = result, changed' \/ (SameRows /\ changed' = changed)
  PROVE  ReadsInv'
<1>1. (Reads!PagesCover /\ Reads!OriginalIsTold)'
  BY DEF ReadsInv, Reads!PagesCover, Reads!OriginalIsTold
<1>2. ASSUME read' # Reads!Idle PROVE ReadFits(read)'
  <2>1. ReadFits(read)
    BY <1>2 DEF ReadsInv, Reads!Idle
  <2>2. CASE changed'
    <3>1. \A ask : ~Steady(ask)'
      BY <2>2 DEF Steady
    <3> QED BY <2>1, <3>1 DEF ReadFits
  <2>3. CASE SameRows /\ changed' = changed
    <3>1. \A ask : Steady(ask)' <=> Steady(ask)
      BY <2>3, RowsBeside DEF Steady
    <3> QED BY <2>1, <2>3, <3>1, RowsBeside DEF ReadFits
  <2> QED BY <2>2, <2>3
<1> QED BY <1>1, <1>2 DEF ReadsInv

\* A step of the read that answers.
LEMMA ReadGives ==
  ASSUME ReadsInv, read \in ReadCalls, NEW got, Reads!Gives(got),
         \A j \in DOMAIN got : got[j].id \in ReadIds,
         read.ask.kind = "query" => \A j \in DOMAIN got : RowTold(got[j], read.ask.columns),
         Steady(read.ask) => \E s \in Reads!Orders(read.ask) :
            DOMAIN got = 1..Len(s) /\ \A j \in 1..Len(s) : got[j].id = s[j]
  PROVE  ReadsInv'
<1> DEFINE found == [i \in Reads!Found(read.ask) |-> tqRows[i]]
<1>1. /\ read' = Reads!Idle /\ tqRows' = tqRows /\ overrides' = overrides /\ changed' = changed
      /\ result' = [ask |-> read.ask, got |-> got, found |-> found, changed |-> changed]
  BY DEF Reads!Gives, Reads!Quiet
<1>2. result'.ask = read.ask /\ result'.got = got /\ result'.found = found /\ result'.changed = changed
  BY <1>1
<1>3. Reads!OriginalIsTold'
  BY <1>2 DEF Reads!OriginalIsTold, RowTold
<1>4. Reads!PagesCover'
  <2> SUFFICES ASSUME read.ask.kind = "query", read.ask.sort # NoSort, ~changed,
                      \A i, j \in DOMAIN found : i # j => found[i][read.ask.sort] # found[j][read.ask.sort]
               PROVE  /\ {got[j].id : j \in DOMAIN got} = DOMAIN found
                      /\ \A j, k \in DOMAIN got : j < k => found[got[j].id][read.ask.sort] < found[got[k].id][read.ask.sort]
    BY <1>2 DEF Reads!PagesCover
  <2>1. Steady(read.ask)
    BY DEF Steady, Apart
  <2>2. PICK s \in Reads!Orders(read.ask) : DOMAIN got = 1..Len(s) /\ \A j \in 1..Len(s) : got[j].id = s[j]
    BY <2>1
  <2>3. read.ask \in TableAsks
    BY DEF ReadCalls
  <2>4. PICK n \in Nat : /\ Len(s) = n /\ s \in Surjection(1..n, Reads!Found(read.ask)) /\ DOMAIN s = 1..n
                         /\ \A j, k \in 1..n : j < k => tqRows[s[j]][read.ask.sort] < tqRows[s[k]][read.ask.sort]
    BY <2>1, <2>3, OrderAscends DEF ReadsInv, Steady
  <2>5. \A x \in Reads!Found(read.ask) : \E k \in 1..n : s[k] = x
    BY <2>4 DEF Surjection
  <2>6. \A k \in 1..n : s[k] \in Reads!Found(read.ask)
    BY <2>4 DEF Surjection
  <2>7. \A i \in Reads!Found(read.ask) : found[i] = tqRows[i]
    OBVIOUS
  <2>8. DOMAIN found = Reads!Found(read.ask)
    OBVIOUS
  <2> HIDE DEF found
  <2>9. {got[j].id : j \in DOMAIN got} = DOMAIN found
    BY <2>2, <2>4, <2>5, <2>6, <2>8
  <2>10. ASSUME NEW j \in DOMAIN got, NEW k \in DOMAIN got, j < k
         PROVE  found[got[j].id][read.ask.sort] < found[got[k].id][read.ask.sort]
    <3>1. j \in 1..n /\ k \in 1..n /\ got[j].id = s[j] /\ got[k].id = s[k]
      BY <2>2, <2>4
    <3> QED BY <2>4, <2>6, <2>7, <2>10, <3>1
  <2> QED BY <2>9, <2>10
<1> QED BY <1>1, <1>2, <1>3, <1>4 DEF ReadsInv

\* A step of the read that goes on.
LEMMA ReadGoesOn ==
  ASSUME ReadsInv, UNCHANGED <<tqRows, overrides, changed, result>>, ReadFits(read')
  PROVE  ReadsInv'
<1>1. (Reads!PagesCover /\ Reads!OriginalIsTold)'
  BY DEF ReadsInv, Reads!PagesCover, Reads!OriginalIsTold
<1>2. \A ask : Steady(ask)' <=> Steady(ask)
  BY RowsBeside DEF Steady, SameRows
<1>3. ReadFits(read)'
  BY <1>2, RowsBeside DEF ReadFits, SameRows
<1> QED BY <1>1, <1>3 DEF ReadsInv

-----------------------------------------------------------------------------
LEMMA ReadBegins == ASSUME ReadsInv, NEW ask \in TableAsks, Reads!Begin(ask) PROVE ReadsInv'
<1> DEFINE r == [at |-> IF ask.kind = "export" THEN "query" ELSE ask.kind, ask |-> ask, got |-> <<>>, page |-> <<>>]
<1>1. read' = r /\ changed' = FALSE /\ tqRows' = tqRows /\ overrides' = overrides /\ result' = result
  BY DEF Reads!Begin
<1>2. r \in ReadCalls /\ r.ask = ask /\ r.got = <<>> /\ r.page = <<>> /\ r.at \in {"query", "join"}
      /\ (r.at = "join" <=> ask.kind = "join")
  BY ReadsConstants DEF ReadCalls
<1> HIDE DEF r
<1>3. \A s \in Reads!Orders(ask) : Leads(<<>>, <<>>, s)
  <2> SUFFICES ASSUME NEW s \in Reads!Orders(ask) PROVE Leads(<<>>, <<>>, s)
    OBVIOUS
  <2>1. PICK n \in Nat : Len(s) = n
    BY OrderIs DEF ReadsInv
  <2> QED BY <2>1 DEF Leads
<1>4. ReadFits(r)'
  <2>1. \A x : Reads!Orders(x)' = Reads!Orders(x)
    BY <1>1, RowsBeside DEF SameRows
  <2> QED BY <1>2, <1>3, <2>1 DEF ReadFits
<1>5. (Reads!PagesCover /\ Reads!OriginalIsTold)'
  BY <1>1 DEF ReadsInv, Reads!PagesCover, Reads!OriginalIsTold
<1> QED BY <1>1, <1>4, <1>5 DEF ReadsInv

LEMMA ReadQueries == ASSUME ReadsInv, Reads!Query PROVE ReadsInv'
<1>1. read.at = "query" /\ UNCHANGED <<tqRows, overrides, changed, result>>
  BY DEF Reads!Query, Reads!Quiet
<1>2. ReadFits(read) /\ read \in ReadCalls
  <2>1. ReadFits(read)
    BY <1>1 DEF ReadsInv, Reads!Idle
  <2> QED BY <2>1 DEF ReadFits
<1>3. PICK s \in Reads!Orders(read.ask) :
        read' = [read EXCEPT !.at = "lay", !.page = Reads!Page(read.ask, s, Len(read.got))]
  BY DEF Reads!Query
<1>4. read.ask \in TableAsks /\ read.got \in Seq(GotRows)
  BY <1>2 DEF ReadCalls
<1>5. Len(read.got) \in Nat
  BY <1>4
<1> DEFINE page == Reads!Page(read.ask, s, Len(read.got))
<1>6. /\ page \in Seq(PageRows)
      /\ Len(read.got) <= Len(s) =>
           /\ Len(read.got) + Len(page) <= Len(s)
           /\ \A j \in 1..Len(page) : page[j].id = s[Len(read.got) + j]
           /\ Len(page) < read.ask.page => Len(read.got) + Len(page) = Len(s)
  BY <1>4, <1>5, PageIs DEF ReadsInv
<1> HIDE DEF page
<1>7. /\ read' \in ReadCalls /\ read'.at = "lay" /\ read'.ask = read.ask /\ read'.got = read.got
      /\ read'.page = page
  <2>1. read' = [read EXCEPT !.at = "lay", !.page = page]
    BY <1>3 DEF page
  <2> QED BY <1>2, <1>6, <2>1 DEF ReadCalls
<1>8. Steady(read.ask) =>
        Leads(read.got, page, s) /\ (Len(page) < read.ask.page => Len(read.got) + Len(page) = Len(s))
  <2> SUFFICES ASSUME Steady(read.ask)
               PROVE  Leads(read.got, page, s) /\ (Len(page) < read.ask.page => Len(read.got) + Len(page) = Len(s))
    OBVIOUS
  <2>1. Leads(read.got, <<>>, s)
    BY <1>1, <1>2 DEF ReadFits
  <2>2. Len(read.got) <= Len(s) /\ \A j \in 1..Len(read.got) : read.got[j].id = s[j]
    <3>1. Len(<<>>) = 0 /\ Len(read.got) + 0 = Len(read.got)
      BY <1>5
    <3> QED BY <2>1, <3>1 DEF Leads
  <2> QED BY <1>6, <2>2 DEF Leads
<1>9. ReadFits(read')
  BY <1>1, <1>2, <1>7, <1>8 DEF ReadFits
<1> QED BY <1>1, <1>9, ReadGoesOn

LEMMA ReadLays == ASSUME ReadsInv, Reads!ApplyOverrides PROVE ReadsInv'
<1>1. read.at = "lay"
  BY DEF Reads!ApplyOverrides
<1>2. ReadFits(read) /\ read \in ReadCalls
  <2>1. ReadFits(read)
    BY <1>1 DEF ReadsInv, Reads!Idle
  <2> QED BY <2>1 DEF ReadFits
<1>3. /\ read.ask \in TableAsks /\ read.got \in Seq(GotRows) /\ read.page \in Seq(PageRows)
      /\ read.ask.kind \in {"query", "export"}
  BY <1>1, <1>2, ReadsConstants DEF ReadCalls, ReadFits
<1> DEFINE page == [j \in DOMAIN read.page |-> Reads!Told(read.ask, read.page[j])]
<1> DEFINE got == read.got \o page
<1>4. PICK m \in Nat : m = Len(read.page) /\ DOMAIN read.page = 1..m
  BY <1>3
<1>5. PICK l \in Nat : l = Len(read.got) /\ DOMAIN read.got = 1..l
  BY <1>3
<1>6. \A j \in 1..m : /\ page[j] \in GotRows /\ page[j].id = read.page[j].id
                      /\ RowTold(page[j], read.ask.columns)
  <2> SUFFICES ASSUME NEW j \in 1..m PROVE /\ Reads!Told(read.ask, read.page[j]) \in GotRows
                                           /\ Reads!Told(read.ask, read.page[j]).id = read.page[j].id
                                           /\ RowTold(Reads!Told(read.ask, read.page[j]), read.ask.columns)
    BY <1>4
  <2>1. read.page[j] \in PageRows
    BY <1>3, <1>4
  <2> QED BY <1>3, <2>1, ToldIs DEF ReadsInv
<1>7. DOMAIN page = 1..m /\ page = [j \in 1..m |-> page[j]]
  BY <1>4
<1>8. \/ /\ read.ask.kind = "export"
         /\ Reads!Gives([j \in DOMAIN page |-> [page[j] EXCEPT !.original = <<>>]])
      \/ /\ read.ask.kind = "query" /\ Len(page) < read.ask.page
         /\ Reads!Gives(got)
      \/ /\ read.ask.kind = "query" /\ ~(Len(page) < read.ask.page)
         /\ read' = [read EXCEPT !.at = "query", !.got = got] /\ UNCHANGED result /\ Reads!Quiet
  BY <1>3 DEF Reads!ApplyOverrides
<1> HIDE DEF page
<1>9. page \in Seq(GotRows) /\ Len(page) = m
  <2>1. page \in [1..m -> GotRows]
    BY <1>6, <1>7
  <2> QED BY <2>1
<1>10. /\ got \in Seq(GotRows) /\ Len(got) = l + m /\ DOMAIN got = 1..(l + m)
       /\ \A j \in 1..l : got[j] = read.got[j]
       /\ \A j \in 1..m : got[l + j] = page[j]
  <2>1. got \in Seq(GotRows) /\ Len(got) = l + m
    BY <1>3, <1>5, <1>9
  <2>2. DOMAIN got = 1..(l + m)
    BY <2>1
  <2>3. \A j \in 1..(l + m) : got[j] = IF j <= l THEN read.got[j] ELSE page[j - l]
    BY <1>3, <1>5, <1>9
  <2>4. \A j \in 1..l : j \in 1..(l + m) /\ j <= l
    OBVIOUS
  <2>5. \A j \in 1..m : l + j \in 1..(l + m) /\ ~(l + j <= l) /\ (l + j) - l = j
    OBVIOUS
  <2> HIDE DEF got
  <2> QED BY <2>1, <2>2, <2>3, <2>4, <2>5
<1> HIDE DEF got
<1>11. \A j \in 1..(l + m) : j \in 1..l \/ \E k \in 1..m : j = l + k
  <2> TAKE j \in 1..(l + m)
  <2>1. j \notin 1..l => j - l \in 1..m /\ j = l + (j - l)
    OBVIOUS
  <2> QED BY <2>1
<1>12. \A j \in DOMAIN got : RowTold(got[j], read.ask.columns)
  <2>1. \A j \in 1..l : RowTold(read.got[j], read.ask.columns)
    BY <1>2, <1>5 DEF ReadFits
  <2>2. \A j \in 1..l : RowTold(got[j], read.ask.columns)
    BY <1>10, <2>1
  <2>3. \A j \in 1..m : RowTold(got[l + j], read.ask.columns)
    BY <1>6, <1>10
  <2>4. DOMAIN got = 1..(l + m)
    BY <1>10
  <2> QED BY <1>11, <2>2, <2>3, <2>4
<1>13. \A j \in DOMAIN got : got[j].id \in ReadIds
  <2>1. \A j \in DOMAIN got : got[j] \in GotRows
    BY <1>10
  <2> QED BY <2>1 DEF GotRows
<1>14. \A s \in Reads!Orders(read.ask) : Leads(read.got, read.page, s) =>
         /\ Len(got) <= Len(s) /\ \A j \in 1..Len(got) : got[j].id = s[j]
         /\ Leads(got, <<>>, s)
  <2> TAKE s \in Reads!Orders(read.ask)
  <2> HAVE Leads(read.got, read.page, s)
  <2>1. /\ l + m <= Len(s)
        /\ \A j \in 1..l : read.got[j].id = s[j]
        /\ \A j \in 1..m : read.page[j].id = s[l + j]
    BY <1>4, <1>5 DEF Leads
  <2>2. \A j \in 1..(l + m) : got[j].id = s[j]
    <3>1. \A j \in 1..l : got[j].id = s[j]
      BY <1>10, <2>1
    <3>2. \A j \in 1..m : got[l + j].id = s[l + j]
      BY <1>6, <1>10, <2>1
    <3> QED BY <1>11, <3>1, <3>2
  <2>3. Len(<<>>) = 0 /\ Len(got) + 0 = Len(got)
    BY <1>10
  <2> QED BY <1>10, <2>1, <2>2, <2>3 DEF Leads
<1>15. Steady(read.ask) => \E s \in Reads!Orders(read.ask) :
         Leads(read.got, read.page, s) /\ (m < read.ask.page => l + m = Len(s))
  BY <1>1, <1>2, <1>4, <1>5 DEF ReadFits
<1>16. CASE read.ask.kind = "export"
  <2> DEFINE plain == [j \in DOMAIN page |-> [page[j] EXCEPT !.original = <<>>]]
  <2>1. Reads!Gives(plain)
    BY <1>8, <1>16
  <2>2. \A j \in DOMAIN plain : plain[j].id \in ReadIds
    BY <1>6, <1>7 DEF GotRows
  <2>3. ~Steady(read.ask)
    BY <1>16 DEF Steady
  <2> HIDE DEF plain
  <2> QED BY <1>2, <1>16, <2>1, <2>2, <2>3, ReadGives
<1>17. CASE read.ask.kind = "query" /\ Len(page) < read.ask.page
  <2>1. Reads!Gives(got)
    BY <1>8, <1>17
  <2>2. Steady(read.ask) => \E s \in Reads!Orders(read.ask) :
           DOMAIN got = 1..Len(s) /\ \A j \in 1..Len(s) : got[j].id = s[j]
    BY <1>9, <1>10, <1>14, <1>15, <1>17
  <2> QED BY <1>2, <1>12, <1>13, <2>1, <2>2, ReadGives
<1>18. CASE read.ask.kind = "query" /\ ~(Len(page) < read.ask.page)
  <2>1. /\ read' = [read EXCEPT !.at = "query", !.got = got] /\ result' = result
        /\ tqRows' = tqRows /\ overrides' = overrides /\ changed' = changed
    BY <1>8, <1>18 DEF Reads!Quiet
  <2>2. read' \in ReadCalls /\ read'.at = "query" /\ read'.ask = read.ask /\ read'.got = got
    BY <1>2, <1>10, <2>1 DEF ReadCalls
  <2>3. ASSUME Steady(read.ask), NEW t \in Reads!Orders(read.ask) PROVE Leads(got, <<>>, t)
    <3>1. PICK s \in Reads!Orders(read.ask) : Leads(read.got, read.page, s)
      BY <1>15, <2>3
    <3>2. s = t
      BY <1>3, <2>3, OneOrder DEF ReadsInv, Steady
    <3> QED BY <1>14, <3>1, <3>2
  <2>4. ReadFits(read')
    BY <1>12, <1>18, <2>2, <2>3 DEF ReadFits
  <2> QED BY <2>1, <2>4, ReadGoesOn
<1> QED BY <1>8, <1>16, <1>17, <1>18

-----------------------------------------------------------------------------
LEMMA ReadJoins == ASSUME ReadsInv, NEW c \in ReadColumns, Reads!Join(c) PROVE ReadsInv'
<1>1. read.at = "join"
  BY DEF Reads!Join
<1>2. ReadFits(read) /\ read \in ReadCalls /\ read.ask.kind = "join"
  BY <1>1 DEF ReadsInv, Reads!Idle, ReadFits
<1> DEFINE pairs == {p \in Reads!Found(read.ask) \X DOMAIN Other : tqRows[p[1]][c] = Other[p[2]][c]}
<1> DEFINE Joined(s) == [j \in DOMAIN s |-> [id |-> s[j][1], cells |-> tqRows[s[j][1]], original |-> <<>>,
                                             stored |-> tqRows[s[j][1]]]]
<1>3. \E page \in SUBSET pairs : Reads!Gives(Joined(Reads!SetToSeq(page)))
  BY DEF Reads!Join, Reads!kSubset
<1>4. PICK page \in SUBSET pairs : Reads!Gives(Joined(Reads!SetToSeq(page)))
  BY <1>3
<1>5. IsFiniteSet(page)
  <2>1. IsFiniteSet(Reads!Found(read.ask))
    <3>1. Reads!Found(read.ask) \in SUBSET ReadIds
      BY DEF Reads!Found, Reads!Present
    <3> QED BY <3>1, ReadsConstants, FS_Subset
  <2>2. IsFiniteSet(DOMAIN Other)
    <3>1. PICK n \in Nat : DOMAIN Other = 1..n
      BY ReadsConstants
    <3> QED BY <3>1, FS_Interval
  <2>3. IsFiniteSet(Reads!Found(read.ask) \X DOMAIN Other)
    BY <2>1, <2>2, FS_Product
  <2>4. page \in SUBSET (Reads!Found(read.ask) \X DOMAIN Other)
    OBVIOUS
  <2> HIDE DEF pairs
  <2> QED BY <2>3, <2>4, FS_Subset
<1> DEFINE s == Reads!SetToSeq(page)
<1>6. s \in [1..Cardinality(page) -> page]
  <2>1. ExistsBijection(1..Cardinality(page), page)
    BY <1>5, FS_CardinalityType
  <2>2. PICK f \in Bijection(1..Cardinality(page), page) : TRUE
    BY <2>1 DEF ExistsBijection
  <2>3. f \in [1..Cardinality(page) -> page] /\ Reads!IsInjective(f)
    BY <2>2 DEF Bijection, Injection, IsInjective, Reads!IsInjective
  <2>4. s = CHOOSE g \in [1..Cardinality(page) -> page] : Reads!IsInjective(g)
    BY ReadsCardinality DEF Reads!SetToSeq
  <2> HIDE DEF s
  <2> QED BY <2>3, <2>4
<1>7. \A j \in DOMAIN s : s[j][1] \in ReadIds
  <2>1. \A p \in page : p[1] \in ReadIds
    BY DEF Reads!Found, Reads!Present
  <2> HIDE DEF s, pairs
  <2> QED BY <1>6, <2>1
<1> HIDE DEF s
<1> DEFINE got == Joined(s)
<1>8. Reads!Gives(got)
  BY <1>4 DEF s
<1>9. \A j \in DOMAIN got : got[j].id \in ReadIds
  BY <1>7
<1>10. ~Steady(read.ask)
  BY <1>2 DEF Steady
<1> HIDE DEF got
<1> QED BY <1>2, <1>8, <1>9, <1>10, ReadGives

LEMMA ReadsEdits ==
  ASSUME ReadsInv,
         \/ Reads!Tick \/ \E o \in Overridings : Reads!SetOverride(o)
         \/ \E i \in ReadIds, row \in {Stored[j] : j \in ReadIds} \cup {Reads!Deleted} : Reads!Edit(i, row)
  PROVE  ReadsInv'
<1>1. tqRows \in [ReadIds -> RowValues] /\ overrides \in Seq(Overridings) /\ changed \in BOOLEAN
  BY DEF ReadsInv
<1>2. CASE Reads!Tick
  <2>1. /\ read' = read /\ result' = result /\ tqRows' = tqRows /\ overrides' = overrides /\ changed' = changed
    BY <1>2 DEF Reads!Tick, Reads!Reading
  <2> QED BY <1>1, <2>1, ReadsBeside DEF SameRows
<1>3. CASE \E o \in Overridings : Reads!SetOverride(o)
  <2>1. PICK o \in Overridings : Reads!SetOverride(o)
    BY <1>3
  <2>2. /\ read' = read /\ result' = result /\ tqRows' = tqRows /\ changed' = changed
        /\ overrides' = Append(overrides, o)
    BY <2>1 DEF Reads!SetOverride, Reads!Reading
  <2>3. overrides' \in Seq(Overridings)
    BY <1>1, <2>2, AppendProperties
  <2> QED BY <1>1, <2>2, <2>3, ReadsBeside DEF SameRows
<1>4. CASE \E i \in ReadIds, row \in {Stored[j] : j \in ReadIds} \cup {Reads!Deleted} : Reads!Edit(i, row)
  <2>1. PICK i \in ReadIds, row \in {Stored[j] : j \in ReadIds} \cup {Reads!Deleted} : Reads!Edit(i, row)
    BY <1>4
  <2>2. /\ read' = read /\ result' = result /\ overrides' = overrides /\ changed' = TRUE
        /\ tqRows' = [tqRows EXCEPT ![i] = row]
    BY <2>1 DEF Reads!Edit, Reads!Reading
  <2>3. row \in RowValues
    BY ReadsConstants DEF Reads!Deleted, RowValues
  <2> QED BY <1>1, <2>2, <2>3, ReadsBeside
<1> QED BY <1>2, <1>3, <1>4

LEMMA ReadsKeep == ASSUME ReadsInv, Reads!Next PROVE ReadsInv'
<1>1. CASE \E ask \in TableAsks : Reads!Begin(ask)
  BY <1>1, ReadBegins
<1>2. CASE \E c \in ReadColumns : Reads!Join(c)
  BY <1>2, ReadJoins
<1> QED BY <1>1, <1>2, ReadQueries, ReadLays, ReadsEdits DEF Reads!Next

LEMMA ReadsStart == Reads!Init => ReadsInv
<1> SUFFICES ASSUME Reads!Init PROVE ReadsInv
  OBVIOUS
<1>1. /\ tqRows = Stored /\ overrides = <<>> /\ read = Reads!Idle /\ changed = FALSE
      /\ result.got = <<>> /\ result.ask = Reads!Idle
  BY DEF Reads!Init, Reads!NoResult
<1>2. Reads!PagesCover /\ Reads!OriginalIsTold
  BY <1>1 DEF Reads!PagesCover, Reads!OriginalIsTold
<1>3. tqRows \in [ReadIds -> RowValues]
  BY <1>1, ReadsConstants DEF RowValues
<1>4. overrides \in Seq(Overridings) /\ changed \in BOOLEAN /\ DOMAIN result.got = {}
  <2>1. <<>> \in Seq(Overridings) /\ DOMAIN <<>> = {}
    OBVIOUS
  <2> QED BY <1>1, <2>1
<1> QED BY <1>1, <1>2, <1>3, <1>4 DEF ReadsInv

LEMMA ReadsTurn == ReadsInv /\ [AllNext]_allVars => ReadsInv'
<1> SUFFICES ASSUME ReadsInv, [AllNext]_allVars PROVE ReadsInv'
  OBVIOUS
<1>1. CASE Reads!Next
  BY <1>1, ReadsKeep
<1>2. CASE UNCHANGED readsVars
  <2>1. /\ read' = read /\ result' = result /\ tqRows' = tqRows /\ overrides' = overrides /\ changed' = changed
    BY <1>2 DEF readsVars
  <2>2. tqRows \in [ReadIds -> RowValues] /\ overrides \in Seq(Overridings) /\ changed \in BOOLEAN
    BY DEF ReadsInv
  <2> QED BY <2>1, <2>2, ReadsBeside DEF SameRows
<1> QED BY <1>1, <1>2 DEF AllNext, allVars

LEMMA ReadsShow == ReadsInv => ReadsSafety
<1> SUFFICES ASSUME ReadsInv PROVE Reads!TypeOK /\ Reads!PagesCover /\ Reads!OriginalIsTold
  BY DEF ReadsSafety
<1>1. \A k \in DOMAIN overrides : overrides[k] \in Overridings
  BY DEF ReadsInv
<1> QED BY <1>1 DEF ReadsInv, Reads!TypeOK

\* Pages sorted by a column without equal values give each row that matches once and in order, for
\* any table, page size and overrides, unless a row is changed while they are read; and the stored
\* row can be read off the effective one in the columns that were asked for.
THEOREM ReadsHold == AllSpec => []ReadsSafety
<1>1. AllInit => ReadsInv
  BY ReadsStart DEF AllInit
<1> QED BY <1>1, ReadsShow, ReadsTurn, PTL DEF AllSpec

-----------------------------------------------------------------------------
(***************************************************************************)
(* Tables: what an upsert does with its rows, one after the other.         *)
(***************************************************************************)

LEMMA GreatestIs ==
  ASSUME NEW n \in Nat, NEW W \in SUBSET (1..n), W # {}
  PROVE  Data!Max(W) \in W /\ \A x \in W : x <= Data!Max(W)
<1> DEFINE rests == {k \in Nat : \E x \in W : k = n - x}
<1>1. \A x \in W : n - x \in rests
  OBVIOUS
<1>2. PICK k \in rests : \A l \in rests : k <= l
  <2>1. rests \in SUBSET Nat /\ rests # {}
    BY <1>1
  <2> HIDE DEF rests
  <2> QED BY <2>1, LeastExists
<1>3. PICK x \in W : k = n - x
  OBVIOUS
<1>4. \A y \in W : x >= y
  BY <1>1, <1>2, <1>3
<1> QED BY <1>4 DEF Data!Max

\* The upsert of a batch is defined on all sets of its indices.
Upserts(g, t, c, start, batch, n) ==
  g = [v \in SUBSET (1..n) |->
         IF v = {} THEN start ELSE Data!UpsertStep(t, c, g[v \ {Data!Max(v)}], batch[Data!Max(v)])]

LEMMA UpsertExists ==
  ASSUME NEW t, NEW c, NEW start, NEW batch
  PROVE  \A n \in Nat : \E g : Upserts(g, t, c, start, batch, n)
<1> DEFINE bad == {n \in Nat : ~\E g : Upserts(g, t, c, start, batch, n)}
<1> SUFFICES ASSUME bad # {} PROVE FALSE
  OBVIOUS
<1>1. PICK n \in bad : \A m \in bad : n <= m
  <2> HIDE DEF bad
  <2>1. bad \in SUBSET Nat
    BY DEF bad
  <2> QED BY <2>1, LeastExists
<1> DEFINE Taken(v, w) == Data!UpsertStep(t, c, v, batch[Data!Max(w)])
<1>2. CASE n = 0
  <2> DEFINE g == [w \in SUBSET (1..0) |-> start]
  <2>1. \A w \in SUBSET (1..0) : w = {}
    OBVIOUS
  <2>2. Upserts(g, t, c, start, batch, 0)
    BY <2>1 DEF Upserts
  <2> QED BY <1>2, <2>2
<1>3. CASE n # 0
  <2>1. n \in Nat /\ n - 1 \in Nat /\ n - 1 \notin bad
    BY <1>1, <1>3
  <2>2. PICK g : Upserts(g, t, c, start, batch, n - 1)
    BY <2>1
  <2> DEFINE fewer == SUBSET (1..(n - 1))
  <2> DEFINE sets == SUBSET (1..n)
  <2>3. g = [w \in fewer |-> IF w = {} THEN start ELSE Taken(g[w \ {Data!Max(w)}], w)]
    BY <2>2 DEF Upserts
  <2> DEFINE h == [w \in sets |-> IF w = {} THEN start ELSE Taken(g[w \ {Data!Max(w)}], w)]
  <2>4. \A w \in sets : w # {} => w \ {Data!Max(w)} \in fewer
    <3> SUFFICES ASSUME NEW w \in sets, w # {}, NEW x \in w, x # Data!Max(w) PROVE x \in 1..(n - 1)
      OBVIOUS
    <3>1. Data!Max(w) \in 1..n /\ x \in 1..n /\ x <= Data!Max(w)
      BY <2>1, GreatestIs
    <3> QED BY <3>1, <2>1
  <2>5. fewer \subseteq sets
    BY <2>1
  <2> HIDE DEF Taken, fewer, sets
  <2>6. \A w \in fewer : h[w] = g[w]
    BY <2>3, <2>5
  <2>7. h = [w \in sets |-> IF w = {} THEN start ELSE Taken(h[w \ {Data!Max(w)}], w)]
    BY <2>4, <2>6
  <2> HIDE DEF h
  <2>8. Upserts(h, t, c, start, batch, n)
    BY <2>7 DEF Upserts, Taken, sets
  <2> QED BY <2>8
<1> QED BY <1>2, <1>3

Upserted(t, c, start, batch) == Data!FoldLeft(LAMBDA st, given : Data!UpsertStep(t, c, st, given), start, batch)

\* An upsert goes through its batch one row after the other.
Goes(h, t, c, start, batch, n) ==
  /\ h[0] = start /\ h[n] = Upserted(t, c, start, batch)
  /\ \A k \in 1..n : h[k] = Data!UpsertStep(t, c, h[k - 1], batch[k])

LEMMA UpsertTrace ==
  ASSUME NEW t, NEW c, NEW start, NEW batch, NEW n \in Nat, DOMAIN batch = 1..n
  PROVE  \E h : Goes(h, t, c, start, batch, n)
<1> DEFINE g == CHOOSE g : g = [v \in SUBSET (1..n) |->
         IF v = {} THEN start ELSE Data!UpsertStep(t, c, g[v \ {Data!Max(v)}], batch[Data!Max(v)])]
<1>1. Upserted(t, c, start, batch) = g[1..n]
  BY DEF Upserted, Data!FoldLeft, Data!MapThenFoldSet
<1>2. Upserts(g, t, c, start, batch, n)
  <2>1. \E f : Upserts(f, t, c, start, batch, n)
    BY UpsertExists
  <2> QED BY <2>1 DEF Upserts
<1> HIDE DEF g
<1> DEFINE h == [k \in 0..n |-> g[1..k]]
<1>3. h[0] = start
  <2>1. 1..0 = {} /\ {} \in SUBSET (1..n)
    OBVIOUS
  <2> QED BY <1>2, <2>1 DEF Upserts
<1>4. h[n] = Upserted(t, c, start, batch)
  BY <1>1
<1>5. ASSUME NEW k \in 1..n PROVE h[k] = Data!UpsertStep(t, c, h[k - 1], batch[k])
  <2>1. 1..k \in SUBSET (1..n) /\ k \in 1..k /\ k - 1 \in 0..n /\ k \in 0..n
    OBVIOUS
  <2>2. Data!Max(1..k) = k
    <3>1. Data!Max(1..k) \in 1..k /\ k <= Data!Max(1..k)
      BY <2>1, GreatestIs
    <3> QED BY <3>1
  <2>3. (1..k) \ {k} = 1..(k - 1)
    OBVIOUS
  <2>4. g[1..k] = Data!UpsertStep(t, c, g[(1..k) \ {k}], batch[k])
    BY <1>2, <2>1, <2>2 DEF Upserts
  <2> QED BY <2>1, <2>3, <2>4
<1>6. Goes(h, t, c, start, batch, n)
  <2> HIDE DEF h
  <2> QED BY <1>3, <1>4, <1>5 DEF Goes
<1> QED BY <1>6

-----------------------------------------------------------------------------
(***************************************************************************)
(* Tables.                                                                 *)
(***************************************************************************)

OperationRecords ==
  [action : {"add_column", "create_index", "drop_column"}, table : Tables, column : TableColumns]

LEMMA DataConstants ==
  /\ Null \notin Tables /\ NoRowKey \notin RowKeys
  /\ MaxTableRows \in Nat /\ MaxRecords \in Nat /\ MaxBatch \in Nat
  /\ \A c \in TableColumns : Declarations[c].default \in Data!Cells
  /\ \A given \in Given : Data!Partial(given)
  /\ \A batch \in Batches :
       /\ Len(batch) \in 0..MaxBatch /\ DOMAIN batch = 1..Len(batch)
       /\ batch # <<>> => Len(batch) # 0
       /\ \A i \in DOMAIN batch : Data!Partial(batch[i])
  /\ \A plan \in Plans : plan \in Seq(OperationRecords)
<1>1. ASSUME NEW batch \in Batches
      PROVE  /\ batch \in Seq({batch[i] : i \in DOMAIN batch}) /\ Len(batch) <= MaxBatch
             /\ \A i \in DOMAIN batch : Data!Partial(batch[i])
  BY RecordsAssumption DEF Data!DataAssumption
<1>2. ASSUME NEW batch \in Batches
      PROVE  /\ Len(batch) \in Nat /\ DOMAIN batch = 1..Len(batch)
             /\ batch # <<>> => Len(batch) # 0
  BY <1>1
<1>3. /\ Null \notin Tables /\ NoRowKey \notin RowKeys
      /\ MaxTableRows \in Nat /\ MaxRecords \in Nat /\ MaxBatch \in Nat
      /\ \A c \in TableColumns : Declarations[c].default \in Data!Cells
      /\ \A given \in Given : Data!Partial(given)
      /\ \A plan \in Plans : plan \in Seq(OperationRecords)
  BY RecordsAssumption DEF Data!DataAssumption, OperationRecords
<1>4. ASSUME NEW batch \in Batches PROVE Len(batch) \in 0..MaxBatch
  <2>1. Len(batch) \in Nat /\ Len(batch) <= MaxBatch
    BY <1>1, <1>2
  <2> QED BY <1>3, <2>1
<1> QED BY <1>1, <1>2, <1>3, <1>4

LEMMA DataFinite == ASSUME NEW S PROVE Data!IsFiniteSet(S) = IsFiniteSet(S) /\ Data!Cardinality(S) = Cardinality(S)
BY DEF Data!IsFiniteSet, IsFiniteSet, Data!Cardinality, Cardinality

TableRecords == [table : Tables, cells : [TableColumns -> Data!Cells]]
SomeRows == [Data!Ids -> {Data!NoRow} \cup TableRecords]
DoneRecords == {Data!NoOp} \cup [kind : Data!Kinds, table : Tables]
PlanRecords == [plan : Plans, status : {"planned", "review", "applied", "rolled_back"}]
ImportRecords == [at : 1..MaxBatch, table : Tables, batch : Batches, key : RowKeys \cup {NoRowKey}]

DataTyped ==
  /\ schema \in [Tables -> SUBSET TableColumns] /\ indexes \in [Tables -> SUBSET TableColumns]
  /\ sdRows \in SomeRows /\ trail \in [Data!Ids -> Data!Events]
  /\ done \in [Data!AllKeys -> DoneRecords] /\ inserted \in [Data!AllKeys -> SUBSET Data!Ids]
  /\ migrations \in Seq(PlanRecords) /\ IsFiniteSet(attached)
  /\ Len(migrations) + Cardinality(attached) <= MaxRecords
  /\ importing # Data!NotImporting => importing \in ImportRecords /\ importing.at <= Len(importing.batch)

\* A row that is there has a trail and a declared table, and what the trail knows it does not forget.
TrailKnows(table, events) ==
  \A id \in Data!Ids : table[id] # Data!NoRow => events[id] # "none" /\ schema[table[id].table] # {}
RowsStand(before, after) ==
  \A id \in Data!Ids : after[id] # Data!NoRow => before[id] # Data!NoRow /\ after[id].table = before[id].table
Keeps(before, after) == \A id \in Data!Ids : before[id] # "none" => after[id] # "none"

\* The keys of the rows of an import are used by nothing else.
KeyFitsIn(k) ==
  /\ done[k].kind = "insert" => \E id : inserted[k] = {id}
  /\ inserted[k] # {} => done[k].kind \in {"insert", "upsert"}
  /\ k[2] # 0 => done[k].kind \in {"none", "insert"}
RowKeysFit == \A k \in Data!AllKeys : KeyFitsIn(k)

RowsImported ==
  importing # Data!NotImporting /\ importing.key # NoRowKey =>
    \A i \in 1..importing.at - 1 : done[<<importing.key, i>>].kind = "insert"

\* An applied migration declares and indexes what it says, and no other applied one indexes the same.
InEffect(plan) ==
  \A i \in DOMAIN plan :
    /\ plan[i].action \in {"add_column", "create_index"}
    /\ plan[i].column \in schema[plan[i].table]
    /\ plan[i].action = "create_index" => plan[i].column \in indexes[plan[i].table]
SameIndex(o, p) ==
  o.action = "create_index" /\ p.action = "create_index" /\ o.table = p.table /\ o.column = p.column
MigrationsFit ==
  /\ \A m \in DOMAIN migrations : migrations[m].status = "applied" => InEffect(migrations[m].plan)
  /\ \A m, l \in DOMAIN migrations : m # l /\ migrations[m].status = "applied" /\ migrations[l].status = "applied" =>
       \A i \in DOMAIN migrations[m].plan, j \in DOMAIN migrations[l].plan :
         ~SameIndex(migrations[m].plan[i], migrations[l].plan[j])
IndexesDeclared == \A t \in Tables : indexes[t] \subseteq schema[t]

AttachedFit ==
  \A a \in attached :
    /\ a.table \in Tables /\ schema[a.table] # {}
    /\ a.kind = "override" => a.column \in schema[a.table]
    /\ a.kind # "view" => a.row \in Data!Ids /\ trail[a.row] # "none"

DataInv ==
  /\ DataTyped /\ TrailKnows(sdRows, trail) /\ RowKeysFit /\ RowsImported /\ MigrationsFit /\ IndexesDeclared
  /\ AttachedFit

-----------------------------------------------------------------------------
LEMMA StoredRowIs ==
  ASSUME NEW table \in SomeRows, NEW id \in Data!Ids
  PROVE  /\ table[id] = Data!NoRow => table[id].table \notin Tables
         /\ table[id] # Data!NoRow => table[id] \in TableRecords
         /\ table[id] \in TableRecords => table[id] # Data!NoRow
BY DataConstants DEF SomeRows, TableRecords, Data!NoRow

LEMMA PayloadIs ==
  ASSUME DataTyped, NEW t \in Tables, NEW given, Data!Partial(given)
  PROVE  [table |-> t, cells |-> Data!Payload(t, given)] \in TableRecords
<1>1. schema[t] \subseteq TableColumns
  BY DEF DataTyped
<1>2. \A c \in TableColumns : /\ c \in DOMAIN given => given[c] \in Data!Cells
                              /\ Declarations[c].default \in Data!Cells /\ Null \in Data!Cells
  BY DataConstants DEF Data!Partial, Data!Cells
<1>3. Data!Payload(t, given) \in [TableColumns -> Data!Cells]
  BY <1>1, <1>2 DEF Data!Payload
<1> QED BY <1>3 DEF TableRecords

LEMMA WithIs ==
  ASSUME NEW given, Data!Partial(given), NEW row \in TableRecords
  PROVE  /\ [row EXCEPT !.cells = Data!With(given, @)] \in TableRecords
         /\ [row EXCEPT !.cells = Data!With(given, @)].table = row.table
<1>1. Data!With(given, row.cells) \in [TableColumns -> Data!Cells]
  BY DEF Data!Partial, TableRecords, Data!With
<1> QED BY <1>1 DEF TableRecords

LEMMA FreshIs ==
  ASSUME NEW events, Data!Free(events) # {}
  PROVE  Data!Fresh(events) \in Data!Free(events) /\ Data!Fresh(events) \in Data!Ids
         /\ events[Data!Fresh(events)] = "none"
<1> DEFINE free == Data!Free(events)
<1>1. free \in SUBSET Nat
  BY DataConstants DEF Data!Free, Data!Ids
<1>2. \E x \in free : \A y \in free : x <= y
  <2> HIDE DEF free
  <2>1. free # {}
    BY DEF free
  <2> QED BY <1>1, <2>1, LeastExists
<1>3. Data!Fresh(events) \in free
  BY <1>2 DEF Data!Fresh
<1> QED BY <1>3 DEF Data!Free

\* The trail after a write.
LEMMA ToldTrail ==
  ASSUME NEW before \in SomeRows, NEW after \in SomeRows, NEW audited, NEW events \in [Data!Ids -> Data!Events],
         TrailKnows(before, events), RowsStand(before, after)
  PROVE  /\ Data!Told(before, after, audited, events) \in [Data!Ids -> Data!Events]
         /\ TrailKnows(after, Data!Told(before, after, audited, events))
         /\ Keeps(events, Data!Told(before, after, audited, events))
<1> DEFINE onward == Data!Told(before, after, audited, events)
<1>1. onward \in [Data!Ids -> Data!Events]
  BY DEF Data!Told, Data!Events
<1>2. \A id \in Data!Ids : onward[id] = "none" => events[id] = "none"
  BY DEF Data!Told
<1> HIDE DEF onward
<1> QED BY <1>1, <1>2 DEF onward, TrailKnows, Keeps, RowsStand

-----------------------------------------------------------------------------
\* What does not change stays fit while the schema grows and no trail is lost.
Grows == \A t \in Tables : schema[t] \subseteq schema'[t]

LEMMA AttachedStays ==
  ASSUME AttachedFit, Grows, Keeps(trail, trail'), attached' = attached
  PROVE  AttachedFit'
BY DEF AttachedFit, Grows, Keeps

LEMMA PlansAre ==
  ASSUME DataTyped, NEW m \in DOMAIN migrations
  PROVE  /\ migrations[m] \in PlanRecords /\ migrations[m].plan \in Plans
         /\ migrations[m].plan \in Seq(OperationRecords)
         /\ \A i \in DOMAIN migrations[m].plan :
              /\ migrations[m].plan[i] \in OperationRecords
              /\ migrations[m].plan[i].table \in Tables /\ migrations[m].plan[i].column \in TableColumns
<1>1. migrations[m] \in PlanRecords
  BY DEF DataTyped
<1>2. migrations[m].plan \in Plans
  BY <1>1 DEF PlanRecords
<1>3. migrations[m].plan \in Seq(OperationRecords)
  BY <1>2, DataConstants
<1>4. \A i \in DOMAIN migrations[m].plan : migrations[m].plan[i] \in OperationRecords
  BY <1>3
<1> QED BY <1>1, <1>2, <1>3, <1>4 DEF OperationRecords

LEMMA MigrationsStay ==
  ASSUME DataTyped, MigrationsFit, Grows, \A t \in Tables : indexes[t] \subseteq indexes'[t], migrations' = migrations
  PROVE  MigrationsFit'
<1>1. ASSUME NEW m \in DOMAIN migrations, migrations[m].status = "applied" PROVE InEffect(migrations[m].plan)'
  <2>1. InEffect(migrations[m].plan)
    BY <1>1 DEF MigrationsFit
  <2> QED BY <2>1, PlansAre DEF InEffect, Grows
<1> QED BY <1>1 DEF MigrationsFit

\* A write under a key, remembered and credited.
LEMMA KeyWritten ==
  ASSUME DataTyped, RowKeysFit, NEW k, NEW kind \in Data!Kinds, NEW t \in Tables, NEW ids \in SUBSET Data!Ids,
         Data!Unknown(k), Data!Remember(k, kind, t), Data!Credit(k, ids),
         k[2] # 0 => kind = "insert", kind = "insert" => \E id : ids = {id},
         ids # {} => kind \in {"insert", "upsert"}
  PROVE  /\ done' \in [Data!AllKeys -> DoneRecords] /\ inserted' \in [Data!AllKeys -> SUBSET Data!Ids]
         /\ RowKeysFit'
         /\ \A l \in Data!AllKeys : done[l].kind = "insert" => done'[l].kind = "insert"
         /\ k \in Data!AllKeys => done'[k].kind = kind
<1> DEFINE r == [kind |-> kind, table |-> t]
<1>1. CASE k \notin Data!AllKeys
  <2>1. done' = done /\ inserted' = inserted
    BY <1>1 DEF Data!Remember, Data!Credit
  <2> QED BY <1>1, <2>1 DEF DataTyped, RowKeysFit, KeyFitsIn
<1>2. CASE k \in Data!AllKeys
  <2>1. done[k] = Data!NoOp /\ done' = [done EXCEPT ![k] = r] /\ inserted' = [inserted EXCEPT ![k] = @ \cup ids]
    BY <1>2 DEF Data!Unknown, Data!Remember, Data!Credit
  <2>2. done \in [Data!AllKeys -> DoneRecords] /\ inserted \in [Data!AllKeys -> SUBSET Data!Ids] /\ r \in DoneRecords
        /\ r.kind = kind
    BY DEF DataTyped, DoneRecords
  <2> HIDE DEF r
  <2>3. done[k].kind = "none" /\ inserted[k] = {}
    BY <1>2, <2>1 DEF RowKeysFit, KeyFitsIn, Data!NoOp
  <2>4. /\ done' \in [Data!AllKeys -> DoneRecords] /\ inserted' \in [Data!AllKeys -> SUBSET Data!Ids]
        /\ done'[k] = r /\ inserted'[k] = ids
        /\ \A l \in Data!AllKeys \ {k} : done'[l] = done[l] /\ inserted'[l] = inserted[l]
    BY <1>2, <2>1, <2>2, <2>3
  <2>5. KeyFitsIn(k)'
    BY <2>2, <2>4 DEF KeyFitsIn
  <2>6. \A l \in Data!AllKeys \ {k} : KeyFitsIn(l)'
    BY <2>4 DEF RowKeysFit, KeyFitsIn
  <2> QED BY <2>2, <2>3, <2>4, <2>5, <2>6 DEF RowKeysFit
<1> QED BY <1>1, <1>2

LEMMA NothingCredited == ASSUME DataTyped, NEW k, inserted' = inserted PROVE Data!Credit(k, {})
BY DEF DataTyped, Data!Credit

\* The import under way keeps what it has inserted.
LEMMA ImportStays ==
  ASSUME DataTyped, RowsImported, importing' = importing,
         \A l \in Data!AllKeys : done[l].kind = "insert" => done'[l].kind = "insert"
  PROVE  RowsImported'
<1> SUFFICES ASSUME importing # Data!NotImporting, importing.key # NoRowKey, NEW i \in 1..importing.at - 1
             PROVE  done'[<<importing.key, i>>].kind = "insert"
  BY DEF RowsImported
<1>1. importing \in ImportRecords
  BY DEF DataTyped
<1>2. importing.key \in RowKeys /\ importing.at \in 1..MaxBatch
  BY <1>1 DEF ImportRecords
<1>3. <<importing.key, i>> \in Data!AllKeys
  BY <1>2, DataConstants DEF Data!AllKeys
<1> QED BY <1>3 DEF RowsImported

\* A mutation of rows under the key of a call, beside any import.
LEMMA RowsChange ==
  ASSUME DataInv, NEW k \in Data!CallKeys, NEW kind \in Data!Kinds, NEW t \in Tables, NEW ids \in SUBSET Data!Ids,
         Data!Unknown(k), Data!Remember(k, kind, t), Data!Credit(k, ids), kind = "insert" => \E id : ids = {id},
         ids # {} => kind \in {"insert", "upsert"},
         sdRows' \in SomeRows, trail' \in [Data!Ids -> Data!Events], TrailKnows(sdRows', trail'), Keeps(trail, trail'),
         UNCHANGED <<schema, indexes, attached, migrations, importing>>
  PROVE  DataInv'
<1>1. k[2] = 0
  BY DEF Data!CallKeys
<1>2. DataTyped /\ RowKeysFit /\ RowsImported /\ MigrationsFit /\ IndexesDeclared /\ AttachedFit
  BY DEF DataInv
<1>3. /\ done' \in [Data!AllKeys -> DoneRecords] /\ inserted' \in [Data!AllKeys -> SUBSET Data!Ids]
      /\ RowKeysFit'
      /\ \A l \in Data!AllKeys : done[l].kind = "insert" => done'[l].kind = "insert"
  BY <1>1, <1>2, KeyWritten
<1>4. Grows /\ \A x \in Tables : indexes[x] \subseteq indexes'[x]
  BY DEF Grows
<1>5. DataTyped'
  BY <1>2, <1>3 DEF DataTyped
<1>6. RowsImported'
  BY <1>2, <1>3, ImportStays
<1>7. MigrationsFit' /\ AttachedFit' /\ IndexesDeclared'
  BY <1>2, <1>4, MigrationsStay, AttachedStays DEF IndexesDeclared
<1>8. TrailKnows(sdRows, trail)'
  BY DEF TrailKnows
<1> QED BY <1>3, <1>5, <1>6, <1>7, <1>8 DEF DataInv

\* A change of the schema or of what is attached, which leaves keys and trails alone.
LEMMA SchemaChanges ==
  ASSUME DataInv, Grows, schema' \in [Tables -> SUBSET TableColumns],
         indexes' \in [Tables -> SUBSET TableColumns], \A t \in Tables : indexes[t] \subseteq indexes'[t],
         IndexesDeclared', sdRows' \in SomeRows, TrailKnows(sdRows', trail),
         UNCHANGED <<trail, done, inserted, attached, migrations, importing>>
  PROVE  DataInv'
<1>1. DataTyped /\ RowKeysFit /\ RowsImported /\ MigrationsFit /\ AttachedFit
  BY DEF DataInv
<1>2. DataTyped'
  BY <1>1 DEF DataTyped
<1>3. RowKeysFit' /\ RowsImported'
  BY <1>1 DEF RowKeysFit, KeyFitsIn, RowsImported
<1>4. Keeps(trail, trail')
  BY DEF Keeps
<1>5. MigrationsFit' /\ AttachedFit'
  BY <1>1, <1>4, MigrationsStay, AttachedStays
<1>6. TrailKnows(sdRows, trail)'
  <2> SUFFICES ASSUME NEW id \in Data!Ids, sdRows'[id] # Data!NoRow
               PROVE  trail[id] # "none" /\ schema'[sdRows'[id].table] # {}
    BY DEF TrailKnows
  <2>1. trail[id] # "none" /\ schema[sdRows'[id].table] # {}
    BY DEF TrailKnows
  <2>2. sdRows'[id].table \in Tables
    BY StoredRowIs DEF TableRecords
  <2> QED BY <2>1, <2>2 DEF Grows
<1> QED BY <1>2, <1>3, <1>5, <1>6 DEF DataInv

-----------------------------------------------------------------------------
LEMMA DataKnows == ASSUME DataInv PROVE
  /\ DataTyped /\ TrailKnows(sdRows, trail) /\ IndexesDeclared
  /\ schema \in [Tables -> SUBSET TableColumns] /\ indexes \in [Tables -> SUBSET TableColumns]
  /\ sdRows \in SomeRows /\ trail \in [Data!Ids -> Data!Events]
BY DEF DataInv, DataTyped

LEMMA TableCreated ==
  ASSUME DataInv, NEW t \in Tables, NEW cs \in SUBSET TableColumns, Data!CreateTable(t, cs)
  PROVE  DataInv'
<1>1. /\ schema[t] = {} /\ schema' = [schema EXCEPT ![t] = cs]
      /\ UNCHANGED <<indexes, sdRows, trail, done, inserted, attached, migrations, importing>>
  BY DEF Data!CreateTable
<1>2. schema' \in [Tables -> SUBSET TableColumns] /\ Grows
  BY <1>1, DataKnows DEF Grows
<1>3. IndexesDeclared'
  BY <1>1, <1>2, DataKnows DEF IndexesDeclared, Grows
<1> QED BY <1>1, <1>2, <1>3, DataKnows, SchemaChanges

LEMMA ColumnAdded ==
  ASSUME DataInv, NEW t \in Tables, NEW c \in TableColumns, Data!AddColumn(t, c)
  PROVE  DataInv'
<1>1. /\ schema' = [schema EXCEPT ![t] = @ \cup {c}] /\ sdRows' = Data!WithColumn(t, c)
      /\ UNCHANGED <<indexes, trail, done, inserted, attached, migrations, importing>>
  BY DEF Data!AddColumn
<1>2. schema' \in [Tables -> SUBSET TableColumns] /\ Grows
  BY <1>1, DataKnows DEF Grows
<1>3. IndexesDeclared'
  BY <1>1, <1>2, DataKnows DEF IndexesDeclared, Grows
<1>4. ASSUME NEW id \in Data!Ids
      PROVE  /\ sdRows'[id] \in {Data!NoRow} \cup TableRecords
             /\ sdRows'[id] # Data!NoRow => sdRows[id] # Data!NoRow /\ sdRows'[id].table = sdRows[id].table
  <2>1. sdRows'[id] = IF sdRows[id].table = t THEN [sdRows[id] EXCEPT !.cells[c] = Declarations[c].default]
                                              ELSE sdRows[id]
    BY <1>1 DEF Data!WithColumn
  <2>2. sdRows[id] \in {Data!NoRow} \cup TableRecords
    BY DataKnows DEF SomeRows
  <2>3. CASE sdRows[id].table = t
    <3>1. sdRows[id] \in TableRecords /\ sdRows[id] # Data!NoRow
      BY <2>3, DataKnows, StoredRowIs
    <3>2. /\ [sdRows[id] EXCEPT !.cells[c] = Declarations[c].default] \in TableRecords
          /\ [sdRows[id] EXCEPT !.cells[c] = Declarations[c].default].table = sdRows[id].table
      BY <3>1, DataConstants DEF TableRecords
    <3> QED BY <2>1, <2>3, <3>1, <3>2
  <2>4. CASE sdRows[id].table # t
    BY <2>1, <2>2, <2>4
  <2> QED BY <2>3, <2>4
<1>5. sdRows' \in SomeRows
  BY <1>1, <1>4 DEF SomeRows, Data!WithColumn
<1>6. TrailKnows(sdRows', trail)
  BY <1>4, DataKnows DEF TrailKnows
<1> QED BY <1>1, <1>2, <1>3, <1>5, <1>6, DataKnows, SchemaChanges

LEMMA IndexCreated ==
  ASSUME DataInv, NEW t \in Tables, NEW c \in TableColumns, Data!CreateIndex(t, c)
  PROVE  DataInv'
<1>1. /\ c \in schema[t] /\ indexes' = [indexes EXCEPT ![t] = @ \cup {c}]
      /\ UNCHANGED <<schema, sdRows, trail, done, inserted, attached, migrations, importing>>
  BY DEF Data!CreateIndex, Data!Indexable
<1>2. indexes' \in [Tables -> SUBSET TableColumns] /\ \A x \in Tables : indexes[x] \subseteq indexes'[x]
  BY <1>1, DataKnows
<1>3. IndexesDeclared' /\ Grows
  BY <1>1, DataKnows DEF IndexesDeclared, Grows
<1> QED BY <1>1, <1>2, <1>3, DataKnows, SchemaChanges

-----------------------------------------------------------------------------
\* An insert, by a caller or by an import.
LEMMA InsertIs ==
  ASSUME DataInv, NEW t \in Tables, NEW given, Data!Partial(given), NEW k, Data!InsertRow(t, given, k)
  PROVE  /\ Data!Unknown(k) /\ Data!Remember(k, "insert", t)
         /\ \E id \in Data!Ids : Data!Credit(k, {id})
         /\ sdRows' \in SomeRows /\ trail' \in [Data!Ids -> Data!Events]
         /\ TrailKnows(sdRows', trail') /\ Keeps(trail, trail')
<1> DEFINE id == Data!Fresh(trail)
<1> DEFINE r == [table |-> t, cells |-> Data!Payload(t, given)]
<1>1. /\ Data!Unknown(k) /\ Data!Remember(k, "insert", t) /\ Data!Free(trail) # {} /\ schema[t] # {}
      /\ sdRows' = [sdRows EXCEPT ![id] = r] /\ trail' = [trail EXCEPT ![id] = "present"]
      /\ Data!Credit(k, {id})
  BY DEF Data!InsertRow
<1>2. id \in Data!Ids /\ r \in TableRecords /\ r.table = t
  BY <1>1, DataKnows, FreshIs, PayloadIs
<1> HIDE DEF id, r
<1>3. sdRows' \in SomeRows
  BY <1>1, <1>2, DataKnows DEF SomeRows
<1>4. trail' \in [Data!Ids -> Data!Events] /\ Keeps(trail, trail')
  BY <1>1, <1>2, DataKnows DEF Keeps, Data!Events
<1>5. TrailKnows(sdRows', trail')
  BY <1>1, <1>2, DataKnows DEF TrailKnows, SomeRows
<1> QED BY <1>1, <1>2, <1>3, <1>4, <1>5

LEMMA Inserts ==
  ASSUME DataInv, NEW t \in Tables, NEW given \in Given, NEW k \in Data!CallKeys, Data!Insert(t, given, k)
  PROVE  DataInv'
<1>1. Data!InsertRow(t, given, k) /\ UNCHANGED <<schema, indexes, attached, migrations, importing>>
  BY DEF Data!Insert
<1>2. Data!Partial(given)
  BY DataConstants
<1>3. /\ Data!Unknown(k) /\ Data!Remember(k, "insert", t)
      /\ \E id \in Data!Ids : Data!Credit(k, {id})
      /\ sdRows' \in SomeRows /\ trail' \in [Data!Ids -> Data!Events]
      /\ TrailKnows(sdRows', trail') /\ Keeps(trail, trail')
  BY <1>1, <1>2, InsertIs
<1>4. PICK id \in Data!Ids : Data!Credit(k, {id})
  BY <1>3
<1>5. "insert" \in Data!Kinds /\ {id} \in SUBSET Data!Ids
  BY DEF Data!Kinds
<1> QED BY <1>1, <1>3, <1>4, <1>5, RowsChange

LEMMA Updates ==
  ASSUME DataInv, NEW t \in Tables, NEW c \in TableColumns, NEW v, NEW given, Data!Partial(given),
         NEW k \in Data!CallKeys, Data!Update(t, c, v, given, k)
  PROVE  DataInv'
<1> DEFINE hit == Data!Matches(sdRows, t, c, v)
<1>1. /\ Data!Unknown(k) /\ Data!Remember(k, "update", t)
      /\ sdRows' = [id \in Data!Ids |-> IF id \in hit THEN [sdRows[id] EXCEPT !.cells = Data!With(given, @)]
                                                     ELSE sdRows[id]]
      /\ trail' = Data!Told(sdRows, sdRows', Data!Seen(hit), trail)
      /\ UNCHANGED <<schema, indexes, inserted, attached, migrations, importing>>
  BY DEF Data!Update
<1>3. ASSUME NEW id \in hit PROVE sdRows[id] \in TableRecords /\ sdRows[id] # Data!NoRow
  BY DataKnows, StoredRowIs DEF Data!Matches
<1> HIDE DEF hit
<1>4. sdRows' \in SomeRows /\ RowsStand(sdRows, sdRows')
  BY <1>1, <1>3, WithIs, DataKnows DEF SomeRows, RowsStand
<1>5. trail' \in [Data!Ids -> Data!Events] /\ TrailKnows(sdRows', trail') /\ Keeps(trail, trail')
  BY <1>1, <1>4, ToldTrail, DataKnows
<1>6. Data!Credit(k, {}) /\ "update" \in Data!Kinds
  BY <1>1, NothingCredited, DataKnows DEF Data!Kinds
<1> QED BY <1>1, <1>4, <1>5, <1>6, RowsChange

LEMMA Deletes ==
  ASSUME DataInv, NEW t \in Tables, NEW c \in TableColumns, NEW v, NEW k \in Data!CallKeys, Data!Delete(t, c, v, k)
  PROVE  DataInv'
<1> DEFINE hit == Data!Matches(sdRows, t, c, v)
<1>1. /\ Data!Unknown(k) /\ Data!Remember(k, "delete", t)
      /\ sdRows' = [id \in Data!Ids |-> IF id \in hit THEN Data!NoRow ELSE sdRows[id]]
      /\ trail' = Data!Told(sdRows, sdRows', Data!Seen(hit), trail)
      /\ UNCHANGED <<schema, indexes, inserted, attached, migrations, importing>>
  BY DEF Data!Delete
<1> HIDE DEF hit
<1>2. sdRows' \in SomeRows /\ RowsStand(sdRows, sdRows')
  BY <1>1, DataKnows DEF SomeRows, RowsStand
<1>3. trail' \in [Data!Ids -> Data!Events] /\ TrailKnows(sdRows', trail') /\ Keeps(trail, trail')
  BY <1>1, <1>2, ToldTrail, DataKnows
<1>4. Data!Credit(k, {}) /\ "delete" \in Data!Kinds
  BY <1>1, NothingCredited, DataKnows DEF Data!Kinds
<1> QED BY <1>1, <1>2, <1>3, <1>4, RowsChange

-----------------------------------------------------------------------------
\* What an upsert has made of rows and trail so far.
UpsertStates ==
  [rows : SomeRows, trail : [Data!Ids -> Data!Events], new : SUBSET Data!Ids, ok : BOOLEAN]
UpsertFits(st) == st \in UpsertStates /\ TrailKnows(st.rows, st.trail) /\ Keeps(trail, st.trail)

LEMMA UpsertRowIs ==
  ASSUME DataInv, NEW t \in Tables, NEW c, NEW st, UpsertFits(st), NEW given, Data!Partial(given), schema[t] # {}
  PROVE  UpsertFits(Data!UpsertRow(t, c, st, given))
<1> DEFINE hit == Data!Matches(st.rows, t, c, given[c])
<1> DEFINE first == CHOOSE id \in hit : \A i \in hit : id <= i
<1> DEFINE fresh == Data!Fresh(st.trail)
<1> DEFINE updated == [id \in Data!Ids |-> IF id \in hit THEN [st.rows[id] EXCEPT !.cells = Data!With(given, @)]
                                                        ELSE st.rows[id]]
<1> DEFINE after == Data!UpsertRow(t, c, st, given)
<1> DEFINE r == [table |-> t, cells |-> Data!Payload(t, given)]
<1>1. /\ st \in UpsertStates /\ st.rows \in SomeRows /\ st.trail \in [Data!Ids -> Data!Events]
      /\ st.new \in SUBSET Data!Ids /\ TrailKnows(st.rows, st.trail) /\ Keeps(trail, st.trail)
  BY DEF UpsertFits, UpsertStates
<1>2. \/ after = [st EXCEPT !.rows = updated, !.trail = Data!Told(st.rows, updated, {first}, st.trail)]
      \/ after = [st EXCEPT !.ok = FALSE]
      \/ /\ Data!Free(st.trail) # {}
         /\ after = [st EXCEPT !.rows[fresh] = r, !.trail[fresh] = "present", !.new = @ \cup {fresh}]
  BY DEF Data!UpsertRow
<1>3. ASSUME NEW id \in hit PROVE st.rows[id] \in TableRecords /\ st.rows[id] # Data!NoRow
  BY <1>1, StoredRowIs DEF Data!Matches
<1>4. r \in TableRecords /\ r.table = t
  BY PayloadIs, DataKnows
<1> HIDE DEF hit, first, after, r
<1>5. CASE after = [st EXCEPT !.rows = updated, !.trail = Data!Told(st.rows, updated, {first}, st.trail)]
  <2>1. updated \in SomeRows /\ RowsStand(st.rows, updated)
    BY <1>1, <1>3, WithIs DEF SomeRows, RowsStand
  <2> HIDE DEF updated
  <2> DEFINE onward == Data!Told(st.rows, updated, {first}, st.trail)
  <2>2. /\ onward \in [Data!Ids -> Data!Events]
        /\ TrailKnows(updated, onward) /\ Keeps(st.trail, onward)
    BY <1>1, <2>1, ToldTrail
  <2> HIDE DEF onward
  <2>3. /\ after \in UpsertStates /\ after.rows = updated /\ after.trail = onward
    BY <1>1, <1>5, <2>1, <2>2 DEF UpsertStates, onward
  <2>4. Keeps(trail, onward)
    BY <1>1, <2>2 DEF Keeps
  <2> QED BY <2>2, <2>3, <2>4 DEF UpsertFits, after
<1>6. CASE after = [st EXCEPT !.ok = FALSE]
  BY <1>1, <1>6 DEF UpsertFits, UpsertStates, after
<1>7. CASE /\ Data!Free(st.trail) # {}
           /\ after = [st EXCEPT !.rows[fresh] = r, !.trail[fresh] = "present", !.new = @ \cup {fresh}]
  <2>1. fresh \in Data!Ids
    BY <1>7, FreshIs
  <2> HIDE DEF fresh
  <2> DEFINE more == [st.rows EXCEPT ![fresh] = r]
  <2> DEFINE onward == [st.trail EXCEPT ![fresh] = "present"]
  <2> DEFINE added == st.new \cup {fresh}
  <2>2. after = [st EXCEPT !.rows = more, !.trail = onward, !.new = added]
    BY <1>1, <1>7 DEF UpsertStates
  <2>3. more \in SomeRows
    BY <1>1, <1>4, <2>1 DEF SomeRows
  <2>4. onward \in [Data!Ids -> Data!Events] /\ Keeps(trail, onward)
    BY <1>1, <2>1 DEF Keeps, Data!Events
  <2>5. TrailKnows(more, onward)
    <3>1. /\ more[fresh] = r /\ onward[fresh] = "present"
          /\ \A id \in Data!Ids \ {fresh} : more[id] = st.rows[id] /\ onward[id] = st.trail[id]
      BY <1>1, <2>1 DEF SomeRows
    <3> HIDE DEF more, onward
    <3> QED BY <1>1, <1>4, <3>1 DEF TrailKnows
  <2>6. added \in SUBSET Data!Ids
    BY <1>1, <2>1
  <2> HIDE DEF more, onward, added
  <2>7. after \in UpsertStates /\ after.rows = more /\ after.trail = onward
    BY <1>1, <2>2, <2>3, <2>4, <2>6 DEF UpsertStates
  <2> QED BY <2>4, <2>5, <2>7 DEF UpsertFits, after
<1> QED BY <1>2, <1>5, <1>6, <1>7

LEMMA UpsertStepIs ==
  ASSUME DataInv, NEW t \in Tables, NEW c, NEW st, UpsertFits(st), NEW given, Data!Partial(given), schema[t] # {}
  PROVE  UpsertFits(Data!UpsertStep(t, c, st, given))
<1> DEFINE after == Data!UpsertRow(t, c, st, given)
<1>1. UpsertFits(after)
  BY UpsertRowIs
<1>2. Data!UpsertStep(t, c, st, given) = [after EXCEPT !.ok = @ /\ Data!Fits(t, after.rows)]
  BY DEF Data!UpsertStep
<1> HIDE DEF after
<1> DEFINE fits == after.ok /\ Data!Fits(t, after.rows)
<1>3. fits \in BOOLEAN
  BY <1>1 DEF UpsertFits, UpsertStates
<1>4. Data!UpsertStep(t, c, st, given) = [after EXCEPT !.ok = fits]
  BY <1>2
<1> HIDE DEF fits
<1> QED BY <1>1, <1>3, <1>4 DEF UpsertFits, UpsertStates

LEMMA UpsertedIs ==
  ASSUME DataInv, NEW t \in Tables, NEW c, NEW start, UpsertFits(start), NEW batch \in Batches, schema[t] # {}
  PROVE  UpsertFits(Upserted(t, c, start, batch))
<1>1. PICK n \in Nat : DOMAIN batch = 1..n
  BY DataConstants
<1>2. PICK h : /\ h[0] = start /\ h[n] = Upserted(t, c, start, batch)
               /\ \A k \in 1..n : h[k] = Data!UpsertStep(t, c, h[k - 1], batch[k])
  <2>1. \E h : Goes(h, t, c, start, batch, n)
    BY <1>1, UpsertTrace
  <2> QED BY <2>1 DEF Goes
<1> DEFINE bad == {k \in Nat : k <= n /\ ~UpsertFits(h[k])}
<1>3. ASSUME bad # {} PROVE FALSE
  <2>1. PICK k \in bad : \A m \in bad : k <= m
    <3>1. bad \in SUBSET Nat
      OBVIOUS
    <3> HIDE DEF bad
    <3> QED BY <1>3, <3>1, LeastExists
  <2>2. k # 0 /\ k \in Nat /\ k <= n /\ ~UpsertFits(h[k])
    BY <1>2, <2>1
  <2>3. k - 1 \in Nat /\ k - 1 <= n /\ k - 1 \notin bad
    <3>1. bad \subseteq Nat
      OBVIOUS
    <3> HIDE DEF bad
    <3> QED BY <2>1, <2>2, <3>1
  <2>4. UpsertFits(h[k - 1])
    BY <2>3
  <2>5. k \in 1..n /\ h[k] = Data!UpsertStep(t, c, h[k - 1], batch[k])
    BY <1>2, <2>2
  <2>6. Data!Partial(batch[k])
    BY <1>1, <2>5, DataConstants
  <2> QED BY <2>2, <2>4, <2>5, <2>6, UpsertStepIs
<1>4. n \notin bad
  BY <1>3
<1> QED BY <1>2, <1>4

LEMMA UpsertsTurn ==
  ASSUME DataInv, NEW t \in Tables, NEW c, NEW batch \in Batches, NEW k \in Data!CallKeys, Data!Upsert(t, batch, c, k)
  PROVE  DataInv'
<1> DEFINE start == [rows |-> sdRows, trail |-> trail, new |-> {}, ok |-> TRUE]
<1> DEFINE end == Upserted(t, c, start, batch)
<1>1. /\ Data!Unknown(k) /\ Data!Remember(k, "upsert", t) /\ c \in schema[t]
      /\ sdRows' = end.rows /\ trail' = end.trail /\ Data!Credit(k, end.new)
      /\ UNCHANGED <<schema, indexes, attached, migrations, importing>>
  BY DEF Data!Upsert, Upserted
<1>2. UpsertFits(start)
  BY DataKnows DEF UpsertFits, UpsertStates, Keeps
<1> HIDE DEF start
<1>3. UpsertFits(end)
  BY <1>1, <1>2, UpsertedIs
<1> HIDE DEF end
<1>4. /\ sdRows' \in SomeRows /\ trail' \in [Data!Ids -> Data!Events] /\ TrailKnows(sdRows', trail')
      /\ Keeps(trail, trail') /\ end.new \in SUBSET Data!Ids
  BY <1>1, <1>3 DEF UpsertFits, UpsertStates
<1>5. "upsert" \in Data!Kinds
  BY DEF Data!Kinds
<1> QED BY <1>1, <1>4, <1>5, RowsChange

-----------------------------------------------------------------------------
\* Something is attached to a table, a row or a cell.
LEMMA Attaches ==
  ASSUME DataInv, NEW item, Data!Attach(item), item.table \in Tables, schema[item.table] # {},
         item.kind = "override" => item.column \in schema[item.table],
         item.kind # "view" => item.row \in Data!Ids /\ trail[item.row] # "none"
  PROVE  DataInv'
<1>1. /\ Len(migrations) + Cardinality(attached) < MaxRecords /\ attached' = attached \cup {item}
      /\ UNCHANGED <<schema, indexes, sdRows, trail, done, inserted, migrations, importing>>
  BY DataFinite DEF Data!Attach, Data!Recordable
<1>2. DataTyped
  BY DataKnows
<1>3. IsFiniteSet(attached') /\ Cardinality(attached') <= Cardinality(attached) + 1 /\ Cardinality(attached) \in Nat
      /\ Cardinality(attached') \in Nat
  <2>1. IsFiniteSet(attached) /\ Cardinality(attached) \in Nat
    BY <1>2, FS_CardinalityType DEF DataTyped
  <2>2. /\ IsFiniteSet(attached')
        /\ Cardinality(attached') = IF item \in attached THEN Cardinality(attached) ELSE Cardinality(attached) + 1
    BY <1>1, <2>1, FS_AddElement
  <2> QED BY <2>1, <2>2
<1>4. Len(migrations) \in Nat
  BY <1>2 DEF DataTyped
<1>5. Len(migrations) + Cardinality(attached') <= MaxRecords
  BY <1>1, <1>3, <1>4, DataConstants
<1>6. DataTyped'
  BY <1>1, <1>2, <1>3, <1>5 DEF DataTyped
<1>7. AttachedFit'
  BY <1>1 DEF DataInv, AttachedFit
<1>8. Grows /\ MigrationsFit'
  BY <1>1, <1>2, MigrationsStay DEF DataInv, Grows
<1>9. RowKeysFit' /\ RowsImported' /\ IndexesDeclared' /\ TrailKnows(sdRows, trail)'
  BY <1>1 DEF DataInv, RowKeysFit, KeyFitsIn, RowsImported, IndexesDeclared, TrailKnows
<1> QED BY <1>6, <1>7, <1>8, <1>9 DEF DataInv

LEMMA PointersAttach ==
  ASSUME DataInv,
         \/ \E id \in Data!Ids, c \in TableColumns : Data!SetOverride(id, c)
         \/ \E id \in Data!Ids : Data!LinkMemory(id)
         \/ \E t \in Tables : Data!CreateView(t)
  PROVE  DataInv'
<1>0. ASSUME NEW id \in Data!Ids, sdRows[id] # Data!NoRow
      PROVE  sdRows[id].table \in Tables /\ trail[id] # "none" /\ schema[sdRows[id].table] # {}
  BY <1>0, DataKnows, StoredRowIs DEF TrailKnows, TableRecords
<1>1. CASE \E id \in Data!Ids, c \in TableColumns : Data!SetOverride(id, c)
  <2>1. PICK id \in Data!Ids, c \in TableColumns : Data!SetOverride(id, c)
    BY <1>1
  <2> DEFINE item == [kind |-> "override", table |-> sdRows[id].table, row |-> id, column |-> c]
  <2>2. sdRows[id] # Data!NoRow /\ c \in schema[sdRows[id].table] /\ Data!Attach(item)
    BY <2>1 DEF Data!SetOverride
  <2>3. item.kind = "override" /\ item.table = sdRows[id].table /\ item.row = id /\ item.column = c
    OBVIOUS
  <2> HIDE DEF item
  <2> QED BY <1>0, <2>2, <2>3, Attaches
<1>2. CASE \E id \in Data!Ids : Data!LinkMemory(id)
  <2>1. PICK id \in Data!Ids : Data!LinkMemory(id)
    BY <1>2
  <2> DEFINE item == [kind |-> "memory", table |-> sdRows[id].table, row |-> id]
  <2>2. sdRows[id] # Data!NoRow /\ Data!Attach(item)
    BY <2>1 DEF Data!LinkMemory
  <2>3. item.kind = "memory" /\ item.table = sdRows[id].table /\ item.row = id
    OBVIOUS
  <2> HIDE DEF item
  <2> QED BY <1>0, <2>2, <2>3, Attaches
<1>3. CASE \E t \in Tables : Data!CreateView(t)
  <2>1. PICK t \in Tables : Data!CreateView(t)
    BY <1>3
  <2> DEFINE item == [kind |-> "view", table |-> t]
  <2>2. schema[t] # {} /\ Data!Attach(item)
    BY <2>1 DEF Data!CreateView
  <2>3. item.kind = "view" /\ item.table = t
    OBVIOUS
  <2> HIDE DEF item
  <2> QED BY <2>2, <2>3, Attaches
<1> QED BY <1>1, <1>2, <1>3

-----------------------------------------------------------------------------
\* What an import does to rows, keys and itself.
LEMMA ImportChanges ==
  ASSUME DataInv, RowKeysFit', RowsImported', TrailKnows(sdRows', trail'), Keeps(trail, trail'),
         sdRows' \in SomeRows, trail' \in [Data!Ids -> Data!Events],
         done' \in [Data!AllKeys -> DoneRecords], inserted' \in [Data!AllKeys -> SUBSET Data!Ids],
         importing' # Data!NotImporting => importing' \in ImportRecords /\ importing'.at <= Len(importing'.batch),
         UNCHANGED <<schema, indexes, attached, migrations>>
  PROVE  DataInv'
<1>1. DataTyped /\ MigrationsFit /\ IndexesDeclared /\ AttachedFit
  BY DEF DataInv
<1>2. Grows /\ \A x \in Tables : indexes[x] \subseteq indexes'[x]
  BY DEF Grows
<1>3. DataTyped'
  BY <1>1 DEF DataTyped
<1>4. MigrationsFit' /\ AttachedFit' /\ IndexesDeclared'
  BY <1>1, <1>2, MigrationsStay, AttachedStays DEF IndexesDeclared
<1>5. TrailKnows(sdRows, trail)'
  BY DEF TrailKnows
<1> QED BY <1>3, <1>4, <1>5 DEF DataInv

LEMMA ImportIs ==
  ASSUME DataInv, importing # Data!NotImporting
  PROVE  /\ importing \in ImportRecords /\ importing.at \in 1..MaxBatch /\ importing.table \in Tables
         /\ importing.batch \in Batches /\ importing.key \in RowKeys \cup {NoRowKey}
         /\ importing.at <= Len(importing.batch) /\ importing.at \in DOMAIN importing.batch
         /\ Len(importing.batch) \in 0..MaxBatch /\ Data!Partial(importing.batch[importing.at])
         /\ importing.key # NoRowKey => Data!ImportKey \in Data!AllKeys
<1>1. importing \in ImportRecords /\ importing.at <= Len(importing.batch)
  BY DEF DataInv, DataTyped
<1>2. /\ importing.at \in 1..MaxBatch /\ importing.table \in Tables
      /\ importing.batch \in Batches /\ importing.key \in RowKeys \cup {NoRowKey}
  BY <1>1 DEF ImportRecords
<1>3. importing.at \in DOMAIN importing.batch /\ Len(importing.batch) \in 0..MaxBatch
  BY <1>1, <1>2, DataConstants
<1>4. Data!Partial(importing.batch[importing.at])
  BY <1>2, <1>3, DataConstants
<1>5. importing.at \in 0..MaxBatch
  BY <1>2, DataConstants
<1> QED BY <1>1, <1>2, <1>3, <1>4, <1>5 DEF Data!ImportKey, Data!AllKeys

\* An import that goes on has inserted one row more.
LEMMA ImportAdvances ==
  ASSUME DataInv, importing # Data!NotImporting, Data!Advance,
         \A l \in Data!AllKeys : done[l].kind = "insert" => done'[l].kind = "insert",
         importing.key # NoRowKey => done'[Data!ImportKey].kind = "insert"
  PROVE  /\ RowsImported'
         /\ importing' # Data!NotImporting => importing' \in ImportRecords /\ importing'.at <= Len(importing'.batch)
<1>1. CASE importing' = Data!NotImporting
  BY <1>1 DEF RowsImported
<1>2. CASE importing' # Data!NotImporting
  <2> DEFINE n == importing.at + 1
  <2>1. importing.at # Len(importing.batch) /\ importing' = [importing EXCEPT !.at = n]
    BY <1>2 DEF Data!Advance
  <2>2. n \in 1..MaxBatch /\ n <= Len(importing.batch) /\ importing.at = n - 1
    BY <2>1, ImportIs, DataConstants
  <2> HIDE DEF n
  <2>3. importing' \in ImportRecords /\ importing'.at = n /\ importing'.batch = importing.batch
        /\ importing'.key = importing.key
    BY <2>1, <2>2, ImportIs DEF ImportRecords
  <2>4. ASSUME importing.key # NoRowKey, NEW i \in 1..n - 1 PROVE done'[<<importing.key, i>>].kind = "insert"
    <3>1. CASE i = importing.at
      BY <2>4, <3>1 DEF Data!ImportKey
    <3>2. CASE i # importing.at
      <4>1. i \in 1..importing.at - 1 /\ i \in 0..MaxBatch
        BY <2>2, <3>2, ImportIs, DataConstants
      <4>2. done[<<importing.key, i>>].kind = "insert"
        BY <2>4, <4>1 DEF DataInv, RowsImported
      <4>3. <<importing.key, i>> \in Data!AllKeys
        BY <2>4, <4>1, ImportIs DEF Data!AllKeys
      <4> QED BY <4>2, <4>3
    <3> QED BY <3>1, <3>2
  <2>5. RowsImported'
    BY <2>3, <2>4 DEF RowsImported
  <2> QED BY <2>2, <2>3, <2>5
<1> QED BY <1>1, <1>2

LEMMA ImportsBegin ==
  ASSUME DataInv, NEW t \in Tables, NEW batch \in Batches, NEW k \in RowKeys \cup {NoRowKey},
         Data!ImportBegins(t, batch, k)
  PROVE  DataInv'
<1> DEFINE begun == [at |-> 1, table |-> t, batch |-> batch, key |-> k]
<1>1. /\ batch # <<>> /\ importing' = begun
      /\ UNCHANGED <<schema, indexes, sdRows, trail, done, inserted, attached, migrations>>
  BY DEF Data!ImportBegins
<1>2. Len(batch) \in 1..MaxBatch /\ 1 \in 1..MaxBatch
  BY <1>1, DataConstants
<1>3. begun \in ImportRecords /\ begun.at = 1 /\ begun.at <= Len(begun.batch)
  BY <1>2 DEF ImportRecords
<1> HIDE DEF begun
<1>4. RowsImported'
  BY <1>1, <1>3 DEF RowsImported
<1>5. RowKeysFit' /\ TrailKnows(sdRows', trail') /\ Keeps(trail, trail')
  BY <1>1 DEF DataInv, RowKeysFit, KeyFitsIn, TrailKnows, Keeps
<1> QED BY <1>1, <1>3, <1>4, <1>5, ImportChanges DEF DataInv, DataTyped

LEMMA ImportsRow == ASSUME DataInv, Data!ImportRow PROVE DataInv'
<1> DEFINE k == Data!ImportKey
<1> DEFINE given == importing.batch[importing.at]
<1>1. /\ importing # Data!NotImporting /\ Data!InsertRow(importing.table, given, k) /\ Data!Advance
      /\ UNCHANGED <<schema, indexes, attached, migrations>>
  BY DEF Data!ImportRow
<1>2. importing.table \in Tables /\ Data!Partial(given)
  BY <1>1, ImportIs
<1> HIDE DEF given, k
<1>3. /\ Data!Unknown(k) /\ Data!Remember(k, "insert", importing.table)
      /\ \E id \in Data!Ids : Data!Credit(k, {id})
      /\ sdRows' \in SomeRows /\ trail' \in [Data!Ids -> Data!Events]
      /\ TrailKnows(sdRows', trail') /\ Keeps(trail, trail')
  BY <1>1, <1>2, InsertIs
<1>4. PICK id \in Data!Ids : Data!Credit(k, {id})
  BY <1>3
<1>5. "insert" \in Data!Kinds /\ {id} \in SUBSET Data!Ids /\ DataTyped /\ RowKeysFit
  BY DEF Data!Kinds, DataInv
<1>6. /\ done' \in [Data!AllKeys -> DoneRecords] /\ inserted' \in [Data!AllKeys -> SUBSET Data!Ids]
      /\ RowKeysFit'
      /\ \A l \in Data!AllKeys : done[l].kind = "insert" => done'[l].kind = "insert"
      /\ k \in Data!AllKeys => done'[k].kind = "insert"
  BY <1>2, <1>3, <1>4, <1>5, KeyWritten
<1>7. importing.key # NoRowKey => done'[Data!ImportKey].kind = "insert"
  BY <1>1, <1>6, ImportIs DEF k
<1>8. /\ RowsImported'
      /\ importing' # Data!NotImporting => importing' \in ImportRecords /\ importing'.at <= Len(importing'.batch)
  BY <1>1, <1>6, <1>7, ImportAdvances
<1> QED BY <1>1, <1>3, <1>6, <1>8, ImportChanges

LEMMA ImportsReplay == ASSUME DataInv, Data!ImportReplays PROVE DataInv'
<1> DEFINE k == Data!ImportKey
<1>1. /\ importing # Data!NotImporting /\ ~Data!Unknown(k) /\ Data!Advance
      /\ UNCHANGED <<schema, indexes, sdRows, trail, done, inserted, attached, migrations>>
  BY DEF Data!ImportReplays
<1>2. k \in Data!AllKeys /\ done[k] # Data!NoOp
  BY <1>1 DEF Data!Unknown
<1>3. done[k].kind \in Data!Kinds
  BY <1>2 DEF DataInv, DataTyped, DoneRecords
<1>4. k[2] # 0
  BY <1>1, ImportIs DEF Data!ImportKey
<1>5. done'[k].kind = "insert"
  BY <1>1, <1>2, <1>3, <1>4 DEF DataInv, RowKeysFit, KeyFitsIn, Data!Kinds
<1>6. /\ RowsImported'
      /\ importing' # Data!NotImporting => importing' \in ImportRecords /\ importing'.at <= Len(importing'.batch)
  BY <1>1, <1>5, ImportAdvances
<1>7. RowKeysFit' /\ TrailKnows(sdRows', trail') /\ Keeps(trail, trail')
  BY <1>1 DEF DataInv, RowKeysFit, KeyFitsIn, TrailKnows, Keeps
<1> QED BY <1>1, <1>6, <1>7, ImportChanges DEF DataInv, DataTyped

LEMMA ImportsStop == ASSUME DataInv, Data!ImportStops PROVE DataInv'
<1>1. /\ importing' = Data!NotImporting
      /\ UNCHANGED <<schema, indexes, sdRows, trail, done, inserted, attached, migrations>>
  BY DEF Data!ImportStops
<1>2. RowsImported' /\ RowKeysFit' /\ TrailKnows(sdRows', trail') /\ Keeps(trail, trail')
  BY <1>1 DEF DataInv, RowKeysFit, KeyFitsIn, TrailKnows, Keeps, RowsImported
<1> QED BY <1>1, <1>2, ImportChanges DEF DataInv, DataTyped

-----------------------------------------------------------------------------
\* What recorded migrations allow, as the one at the end is added.
LEMMA PlanIs ==
  ASSUME NEW plan \in Plans
  PROVE  /\ DOMAIN plan = 1..Len(plan) /\ Len(plan) \in Nat
         /\ \A i \in DOMAIN plan :
              plan[i] \in OperationRecords /\ plan[i].table \in Tables /\ plan[i].column \in TableColumns
<1>1. plan \in Seq(OperationRecords)
  BY DataConstants
<1>2. \A i \in DOMAIN plan : plan[i] \in OperationRecords
  BY <1>1
<1> QED BY <1>1, <1>2 DEF OperationRecords

LEMMA BeforeIs ==
  ASSUME NEW plan \in Plans, NEW action, NEW t
  PROVE  /\ Data!Before(plan, Len(plan) + 1, action, t) =
              {plan[i].column : i \in {i \in DOMAIN plan : plan[i].action = action /\ plan[i].table = t}}
         /\ Data!Before(plan, Len(plan) + 1, action, t) \subseteq TableColumns
         /\ \A i \in DOMAIN plan : plan[i].action = action /\ plan[i].table = t =>
              plan[i].column \in Data!Before(plan, Len(plan) + 1, action, t)
<1>1. DOMAIN plan = 1..Len(plan) /\ Len(plan) \in Nat /\ \A i \in DOMAIN plan : plan[i].column \in TableColumns
  BY PlanIs
<1>2. 1..(Len(plan) + 1) - 1 = DOMAIN plan
  BY <1>1
<1>3. Data!Before(plan, Len(plan) + 1, action, t) =
        {plan[i].column : i \in {i \in DOMAIN plan : plan[i].action = action /\ plan[i].table = t}}
  BY <1>2 DEF Data!Before
<1> QED BY <1>1, <1>3

LEMMA MigrationAppended ==
  ASSUME DataTyped, NEW plan \in Plans, NEW outcome \in {"planned", "review", "applied", "rolled_back"},
         Data!Recordable, Data!Planned(plan, outcome)
  PROVE  /\ migrations' \in Seq(PlanRecords) /\ DOMAIN migrations' = 1..Len(migrations) + 1
         /\ Len(migrations') + Cardinality(attached) <= MaxRecords
         /\ migrations'[Len(migrations) + 1].plan = plan /\ migrations'[Len(migrations) + 1].status = outcome
         /\ DOMAIN migrations = 1..Len(migrations) /\ \A m \in DOMAIN migrations : migrations'[m] = migrations[m]
<1> DEFINE r == [plan |-> plan, status |-> outcome]
<1>1. migrations' = Append(migrations, r) /\ Len(migrations) + Cardinality(attached) < MaxRecords
  BY DataFinite DEF Data!Planned, Data!Recordable
<1>2. migrations \in Seq(PlanRecords) /\ r \in PlanRecords /\ r.plan = plan /\ r.status = outcome
      /\ IsFiniteSet(attached)
  BY DEF DataTyped, PlanRecords
<1> HIDE DEF r
<1>3. /\ migrations' \in Seq(PlanRecords) /\ Len(migrations') = Len(migrations) + 1 /\ Len(migrations) \in Nat
      /\ migrations'[Len(migrations) + 1] = r /\ \A m \in 1..Len(migrations) : migrations'[m] = migrations[m]
      /\ DOMAIN migrations = 1..Len(migrations) /\ DOMAIN migrations' = 1..Len(migrations) + 1
  <2>1. /\ migrations' \in Seq(PlanRecords) /\ Len(migrations') = Len(migrations) + 1
        /\ migrations'[Len(migrations) + 1] = r /\ \A m \in 1..Len(migrations) : migrations'[m] = migrations[m]
    BY <1>1, <1>2, AppendProperties
  <2> QED BY <1>2, <2>1
<1>4. Cardinality(attached) \in Nat
  BY <1>2, FS_CardinalityType
<1>5. Len(migrations') + Cardinality(attached) <= MaxRecords
  BY <1>1, <1>3, <1>4, DataConstants
<1> QED BY <1>2, <1>3, <1>5

LEMMA MigrationPlanned ==
  ASSUME DataInv, NEW plan \in Plans, Data!PlanMigration(plan)
  PROVE  DataInv'
<1>1. PICK outcome \in {"planned", "review"} : Data!Planned(plan, outcome)
  BY DEF Data!PlanMigration
<1>2. Data!Recordable /\ UNCHANGED <<schema, indexes, sdRows, trail, done, inserted, attached, importing>>
  BY DEF Data!PlanMigration
<1>3. DataTyped
  BY DEF DataInv
<1>4. /\ migrations' \in Seq(PlanRecords) /\ DOMAIN migrations' = 1..Len(migrations) + 1
      /\ Len(migrations') + Cardinality(attached) <= MaxRecords
      /\ migrations'[Len(migrations) + 1].status = outcome
      /\ DOMAIN migrations = 1..Len(migrations) /\ \A m \in DOMAIN migrations : migrations'[m] = migrations[m]
  BY <1>1, <1>2, <1>3, MigrationAppended
<1>5. DataTyped'
  BY <1>2, <1>3, <1>4 DEF DataTyped
<1>6. \A m \in DOMAIN migrations' : migrations'[m].status = "applied" =>
        m \in DOMAIN migrations /\ migrations'[m] = migrations[m]
  <2>1. Len(migrations) \in Nat
    BY <1>3 DEF DataTyped
  <2> QED BY <1>1, <1>4, <2>1
<1>7. \A m \in DOMAIN migrations : InEffect(migrations[m].plan) <=> InEffect(migrations[m].plan)'
  BY <1>2, <1>4 DEF InEffect
<1>8. MigrationsFit'
  BY <1>6, <1>7 DEF DataInv, MigrationsFit
<1>9. /\ RowKeysFit' /\ RowsImported' /\ IndexesDeclared' /\ AttachedFit'
      /\ TrailKnows(sdRows, trail)'
  BY <1>2 DEF DataInv, RowKeysFit, KeyFitsIn, RowsImported, IndexesDeclared, AttachedFit, TrailKnows
<1> QED BY <1>5, <1>8, <1>9 DEF DataInv

LEMMA MigrationApplied ==
  ASSUME DataInv, NEW plan \in Plans, Data!ApplyMigration(plan)
  PROVE  DataInv'
<1> DEFINE added(t) == Data!Before(plan, Len(plan) + 1, "add_column", t)
<1> DEFINE indexed(t) == Data!Before(plan, Len(plan) + 1, "create_index", t)
<1>1. /\ Data!Recordable /\ Data!Planned(plan, "applied")
      /\ schema' = [t \in Tables |-> schema[t] \cup added(t)]
      /\ sdRows' = [id \in Data!Ids |-> IF sdRows[id] = Data!NoRow THEN Data!NoRow
           ELSE [sdRows[id] EXCEPT !.cells = Data!With([c \in added(sdRows[id].table) |-> Declarations[c].default], @)]]
      /\ indexes' = [t \in Tables |-> indexes[t] \cup indexed(t)]
      /\ UNCHANGED <<trail, done, inserted, attached, importing>>
  BY DEF Data!ApplyMigration
<1>2. ASSUME NEW i \in DOMAIN plan
      PROVE  \/ plan[i].action = "add_column"
             \/ /\ plan[i].action = "create_index"
                /\ \/ plan[i].column \in schema[plan[i].table] \ indexes[plan[i].table]
                   \/ \E j \in DOMAIN plan : /\ plan[j].action = "add_column" /\ plan[j].table = plan[i].table
                                             /\ plan[j].column = plan[i].column
  <2>1. \/ plan[i].action = "add_column"
        \/ /\ plan[i].action = "create_index"
           /\ \/ plan[i].column \in schema[plan[i].table] \ indexes[plan[i].table]
              \/ plan[i].column \in Data!Before(plan, i, "add_column", plan[i].table)
    BY DEF Data!ApplyMigration, Data!Indexable
  <2>2. \A j \in 1..i - 1 : j \in DOMAIN plan
    BY PlanIs
  <2> QED BY <2>1, <2>2 DEF Data!Before
<1>3. \A i \in DOMAIN plan : plan[i].action = "add_column" => plan[i].column \notin schema[plan[i].table]
  BY DEF Data!ApplyMigration, Data!Addable
<1>4. DataTyped /\ IndexesDeclared /\ TrailKnows(sdRows, trail) /\ MigrationsFit /\ AttachedFit
  BY DEF DataInv
<1>5. ASSUME NEW t \in Tables
      PROVE  /\ added(t) \subseteq TableColumns /\ indexed(t) \subseteq TableColumns
             /\ indexed(t) = {plan[i].column : i \in {i \in DOMAIN plan : plan[i].action = "create_index" /\ plan[i].table = t}}
             /\ \A i \in DOMAIN plan : plan[i].action = "add_column" /\ plan[i].table = t => plan[i].column \in added(t)
             /\ \A i \in DOMAIN plan : plan[i].action = "create_index" /\ plan[i].table = t => plan[i].column \in indexed(t)
  BY BeforeIs
<1> HIDE DEF added, indexed
<1>6. /\ schema' \in [Tables -> SUBSET TableColumns] /\ indexes' \in [Tables -> SUBSET TableColumns]
      /\ Grows /\ \A t \in Tables : indexes[t] \subseteq indexes'[t]
  BY <1>1, <1>4, <1>5 DEF DataTyped, Grows
<1>7. ASSUME NEW i \in DOMAIN plan
      PROVE  /\ plan[i].action \in {"add_column", "create_index"} /\ plan[i].column \in schema'[plan[i].table]
             /\ plan[i].action = "create_index" =>
                  plan[i].column \in indexes'[plan[i].table] \ indexes[plan[i].table]
  <2>1. plan[i].table \in Tables
    BY PlanIs
  <2>2. CASE plan[i].action = "add_column"
    BY <1>1, <1>5, <2>1, <2>2
  <2>3. CASE plan[i].action = "create_index" /\ plan[i].column \in schema[plan[i].table] \ indexes[plan[i].table]
    BY <1>1, <1>5, <2>1, <2>3
  <2>4. ASSUME plan[i].action = "create_index", NEW j \in DOMAIN plan, plan[j].action = "add_column",
               plan[j].table = plan[i].table, plan[j].column = plan[i].column
        PROVE  /\ plan[i].column \in schema'[plan[i].table]
               /\ plan[i].column \in indexes'[plan[i].table] \ indexes[plan[i].table]
    BY <1>1, <1>3, <1>4, <1>5, <2>1, <2>4 DEF IndexesDeclared
  <2> QED BY <1>2, <2>2, <2>3, <2>4
<1>8. ASSUME NEW t \in Tables PROVE indexes'[t] \subseteq schema'[t]
  <2> SUFFICES ASSUME NEW c \in indexed(t) PROVE c \in schema'[t]
    BY <1>1, <1>4, <1>6 DEF IndexesDeclared, Grows
  <2>1. PICK i \in DOMAIN plan : plan[i].action = "create_index" /\ plan[i].table = t /\ plan[i].column = c
    BY <1>5
  <2> QED BY <1>7, <2>1
<1>9. ASSUME NEW id \in Data!Ids
      PROVE  /\ sdRows'[id] \in {Data!NoRow} \cup TableRecords
             /\ sdRows'[id] # Data!NoRow => sdRows[id] # Data!NoRow /\ sdRows'[id].table = sdRows[id].table
  <2>1. CASE sdRows[id] = Data!NoRow
    BY <1>1, <2>1
  <2>2. CASE sdRows[id] # Data!NoRow
    <3> DEFINE given == [c \in added(sdRows[id].table) |-> Declarations[c].default]
    <3>1. sdRows[id] \in TableRecords /\ sdRows[id].table \in Tables
      BY <2>2, DataKnows, StoredRowIs DEF TableRecords
    <3>2. Data!Partial(given)
      BY <1>5, <3>1, DataConstants DEF Data!Partial
    <3>3. sdRows'[id] = [sdRows[id] EXCEPT !.cells = Data!With(given, @)]
      BY <1>1, <2>2
    <3> HIDE DEF given
    <3> QED BY <2>2, <3>1, <3>2, <3>3, WithIs
  <2> QED BY <2>1, <2>2
<1>10. sdRows' \in SomeRows
  BY <1>1, <1>9 DEF SomeRows
<1>11. TrailKnows(sdRows, trail)'
  <2> SUFFICES ASSUME NEW id \in Data!Ids, sdRows'[id] # Data!NoRow
               PROVE  trail'[id] # "none" /\ schema'[sdRows'[id].table] # {}
    BY DEF TrailKnows
  <2>1. trail[id] # "none" /\ schema[sdRows'[id].table] # {} /\ trail' = trail
    BY <1>1, <1>4, <1>9 DEF TrailKnows
  <2>2. sdRows'[id].table \in Tables
    BY <1>10, StoredRowIs DEF TableRecords
  <2> QED BY <1>6, <2>1, <2>2 DEF Grows
<1>12. /\ migrations' \in Seq(PlanRecords) /\ DOMAIN migrations' = 1..Len(migrations) + 1
       /\ Len(migrations') + Cardinality(attached) <= MaxRecords
       /\ migrations'[Len(migrations) + 1].plan = plan
       /\ DOMAIN migrations = 1..Len(migrations) /\ \A m \in DOMAIN migrations : migrations'[m] = migrations[m]
  BY <1>1, <1>4, MigrationAppended
<1>13. DataTyped'
  BY <1>1, <1>4, <1>6, <1>10, <1>12 DEF DataTyped
<1>14. MigrationsFit'
  <2>1. ASSUME NEW m \in DOMAIN migrations' PROVE m \in DOMAIN migrations \/ migrations'[m].plan = plan
    <3>1. Len(migrations) \in Nat
      BY <1>4 DEF DataTyped
    <3> QED BY <1>12, <3>1
  <2>2. InEffect(plan)'
    BY <1>7 DEF InEffect
  <2>3. ASSUME NEW m \in DOMAIN migrations, migrations[m].status = "applied"
        PROVE  /\ InEffect(migrations[m].plan)'
               /\ \A i \in DOMAIN migrations[m].plan, j \in DOMAIN plan : ~SameIndex(migrations[m].plan[i], plan[j])
               /\ \A i \in DOMAIN migrations[m].plan, j \in DOMAIN plan : ~SameIndex(plan[j], migrations[m].plan[i])
    <3>1. InEffect(migrations[m].plan)
      BY <1>4, <2>3 DEF MigrationsFit
    <3>2. migrations'[m].plan = migrations[m].plan
      BY <1>12
    <3>3. InEffect(migrations[m].plan)'
      BY <1>4, <1>6, <3>1, <3>2, PlansAre DEF InEffect, Grows
    <3> QED BY <1>7, <3>1, <3>3 DEF InEffect, SameIndex
  <2>4. ASSUME NEW m \in DOMAIN migrations', migrations'[m].status = "applied" PROVE InEffect(migrations[m].plan)'
    BY <1>12, <2>1, <2>2, <2>3, <2>4
  <2>5. ASSUME NEW m \in DOMAIN migrations', NEW l \in DOMAIN migrations', m # l,
               migrations'[m].status = "applied", migrations'[l].status = "applied",
               NEW i \in DOMAIN migrations'[m].plan, NEW j \in DOMAIN migrations'[l].plan
        PROVE  ~SameIndex(migrations'[m].plan[i], migrations'[l].plan[j])
    <3> DEFINE n == Len(migrations) + 1
    <3>1. n \notin DOMAIN migrations /\ \A x \in DOMAIN migrations' : x \in DOMAIN migrations \/ x = n
      <4>1. Len(migrations) \in Nat
        BY <1>4 DEF DataTyped
      <4> QED BY <1>12, <4>1
    <3> HIDE DEF n
    <3>2. CASE m \in DOMAIN migrations /\ l \in DOMAIN migrations
      BY <1>4, <1>12, <2>5, <3>2 DEF MigrationsFit
    <3>3. CASE m = n
      <4>1. l \in DOMAIN migrations /\ migrations'[l] = migrations[l] /\ migrations'[m].plan = plan
        BY <1>12, <2>5, <3>1, <3>3 DEF n
      <4> QED BY <2>3, <2>5, <4>1
    <3>4. CASE l = n
      <4>1. m \in DOMAIN migrations /\ migrations'[m] = migrations[m] /\ migrations'[l].plan = plan
        BY <1>12, <2>5, <3>1, <3>4 DEF n
      <4> QED BY <2>3, <2>5, <4>1
    <3> QED BY <3>1, <3>2, <3>3, <3>4
  <2> QED BY <2>4, <2>5 DEF MigrationsFit
<1>15. AttachedFit'
  BY <1>1, <1>4, <1>6, AttachedStays DEF Keeps
<1>16. RowKeysFit' /\ RowsImported' /\ IndexesDeclared'
  BY <1>1, <1>8 DEF DataInv, RowKeysFit, KeyFitsIn, RowsImported, IndexesDeclared
<1> QED BY <1>11, <1>13, <1>14, <1>15, <1>16 DEF DataInv

LEMMA MigrationRolledBack ==
  ASSUME DataInv, NEW m \in DOMAIN migrations, Data!RollbackMigration(m)
  PROVE  DataInv'
<1> DEFINE plan == migrations[m].plan
<1> DEFINE dropped(t) == Data!Before(plan, Len(plan) + 1, "create_index", t)
<1> DEFINE indexing(t) == {i \in DOMAIN plan : plan[i].action = "create_index" /\ plan[i].table = t}
<1>1. /\ migrations[m].status = "applied"
      /\ indexes' = [t \in Tables |-> indexes[t] \ dropped(t)]
      /\ migrations' = [migrations EXCEPT ![m].status = "rolled_back"]
      /\ UNCHANGED <<schema, sdRows, trail, done, inserted, attached, importing>>
  BY DEF Data!RollbackMigration
<1>2. DataTyped /\ MigrationsFit /\ IndexesDeclared
  BY DEF DataInv
<1>3. plan \in Plans /\ migrations[m] \in PlanRecords
  BY <1>2, PlansAre
<1>4. \A t : dropped(t) = {plan[i].column : i \in indexing(t)}
  BY <1>3, BeforeIs
<1> HIDE DEF dropped
<1>5. /\ migrations' \in Seq(PlanRecords) /\ Len(migrations') = Len(migrations) /\ DOMAIN migrations' = DOMAIN migrations
      /\ migrations'[m].status = "rolled_back" /\ \A l \in DOMAIN migrations \ {m} : migrations'[l] = migrations[l]
  <2> DEFINE r == [migrations[m] EXCEPT !.status = "rolled_back"]
  <2>1. migrations' = [migrations EXCEPT ![m] = r]
    BY <1>1
  <2>2. r \in PlanRecords /\ r.status = "rolled_back"
    BY <1>3 DEF PlanRecords
  <2> HIDE DEF r
  <2>3. migrations \in Seq(PlanRecords)
    BY <1>2 DEF DataTyped
  <2> QED BY <2>1, <2>2, <2>3
<1>6. DataTyped'
  BY <1>1, <1>2, <1>5 DEF DataTyped
<1>7. IndexesDeclared'
  BY <1>1, <1>2 DEF IndexesDeclared
<1>8. ASSUME NEW l \in DOMAIN migrations \ {m}, migrations[l].status = "applied" PROVE InEffect(migrations[l].plan)'
  <2>1. InEffect(migrations[l].plan) /\ migrations'[l].plan = migrations[l].plan
    BY <1>2, <1>5, <1>8 DEF MigrationsFit
  <2>2. ASSUME NEW i \in DOMAIN migrations[l].plan, migrations[l].plan[i].action = "create_index",
               migrations[l].plan[i].column \in dropped(migrations[l].plan[i].table)
        PROVE  FALSE
    <3>1. PICK j \in indexing(migrations[l].plan[i].table) : migrations[l].plan[i].column = plan[j].column
      BY <1>4, <2>2
    <3>2. SameIndex(migrations[l].plan[i], plan[j])
      BY <2>2, <3>1 DEF SameIndex
    <3> QED BY <1>1, <1>2, <1>8, <3>1, <3>2 DEF MigrationsFit
  <2>3. \A i \in DOMAIN migrations[l].plan : migrations[l].plan[i].table \in Tables
    BY <1>2, PlansAre
  <2> QED BY <1>1, <2>1, <2>2, <2>3 DEF InEffect
<1>9. MigrationsFit'
  <2>1. \A l \in DOMAIN migrations' : migrations'[l].status = "applied" =>
          l \in DOMAIN migrations \ {m} /\ migrations'[l] = migrations[l]
    BY <1>5
  <2> QED BY <1>2, <1>8, <2>1 DEF MigrationsFit
<1>10. /\ RowKeysFit' /\ RowsImported' /\ AttachedFit' /\ TrailKnows(sdRows, trail)'
  BY <1>1 DEF DataInv, RowKeysFit, KeyFitsIn, RowsImported, AttachedFit, TrailKnows
<1> QED BY <1>6, <1>7, <1>9, <1>10 DEF DataInv

-----------------------------------------------------------------------------
LEMMA DataKeep == ASSUME DataInv, Data!Next PROVE DataInv'
<1>1. CASE \/ \E t \in Tables, cs \in SUBSET TableColumns : Data!CreateTable(t, cs)
           \/ \E t \in Tables, c \in TableColumns : Data!AddColumn(t, c) \/ Data!CreateIndex(t, c)
  BY <1>1, TableCreated, ColumnAdded, IndexCreated
<1>2. CASE \E t \in Tables, given \in Given, k \in Data!CallKeys : Data!Insert(t, given, k)
  BY <1>2, Inserts
<1>3. CASE \E t \in Tables, c \in TableColumns, v \in Values, k \in Data!CallKeys :
             \/ Data!Delete(t, c, v, k)
             \/ \E d \in TableColumns, w \in Data!Cells : Data!Update(t, c, v, [e \in {d} |-> w], k)
  <2>1. PICK t \in Tables, c \in TableColumns, v \in Values, k \in Data!CallKeys :
             \/ Data!Delete(t, c, v, k)
             \/ \E d \in TableColumns, w \in Data!Cells : Data!Update(t, c, v, [e \in {d} |-> w], k)
    BY <1>3
  <2>2. CASE Data!Delete(t, c, v, k)
    BY <2>2, Deletes
  <2>3. ASSUME NEW d \in TableColumns, NEW w \in Data!Cells, Data!Update(t, c, v, [e \in {d} |-> w], k) PROVE DataInv'
    <3> DEFINE given == [e \in {d} |-> w]
    <3>1. Data!Partial(given) /\ Data!Update(t, c, v, given, k)
      BY <2>3 DEF Data!Partial
    <3> HIDE DEF given
    <3> QED BY <3>1, Updates
  <2> QED BY <2>1, <2>2, <2>3
<1>4. CASE \E t \in Tables, batch \in Batches, k \in Data!CallKeys :
             \/ Data!ImportBegins(t, batch, k[1])
             \/ \E c \in ConflictColumns : Data!Upsert(t, batch, c, k)
  <2>1. \A k \in Data!CallKeys : k[1] \in RowKeys \cup {NoRowKey}
    BY DEF Data!CallKeys
  <2> QED BY <1>4, <2>1, ImportsBegin, UpsertsTurn
<1>5. CASE \E plan \in Plans : Data!PlanMigration(plan) \/ Data!ApplyMigration(plan)
  BY <1>5, MigrationPlanned, MigrationApplied
<1>6. CASE \E m \in DOMAIN migrations : Data!RollbackMigration(m)
  BY <1>6, MigrationRolledBack
<1> QED BY <1>1, <1>2, <1>3, <1>4, <1>5, <1>6, PointersAttach, ImportsRow, ImportsReplay, ImportsStop DEF Data!Next

LEMMA DataStart == Data!Init => DataInv
<1> SUFFICES ASSUME Data!Init PROVE DataInv
  OBVIOUS
<1>1. /\ schema = [t \in Tables |-> {}] /\ indexes = [t \in Tables |-> {}]
      /\ sdRows = [id \in Data!Ids |-> Data!NoRow] /\ trail = [id \in Data!Ids |-> "none"]
      /\ done = [k \in Data!AllKeys |-> Data!NoOp] /\ inserted = [k \in Data!AllKeys |-> {}]
      /\ attached = {} /\ migrations = <<>> /\ importing = Data!NotImporting
  BY DEF Data!Init
<1>2. migrations \in Seq(PlanRecords) /\ Len(migrations) = 0 /\ DOMAIN migrations = {}
  BY <1>1
<1>3. IsFiniteSet(attached) /\ Cardinality(attached) = 0
  BY <1>1, FS_EmptySet
<1>4. DataTyped
  BY <1>1, <1>2, <1>3, DataConstants DEF DataTyped, SomeRows, DoneRecords, Data!Events
<1>5. RowKeysFit
  BY <1>1 DEF RowKeysFit, KeyFitsIn, Data!NoOp
<1> QED BY <1>1, <1>2, <1>4, <1>5 DEF DataInv, TrailKnows, RowsImported, MigrationsFit, IndexesDeclared, AttachedFit

LEMMA DataTurn == DataInv /\ [AllNext]_allVars => DataInv'
<1> SUFFICES ASSUME DataInv, [AllNext]_allVars PROVE DataInv'
  OBVIOUS
<1>1. CASE Data!Next
  BY <1>1, DataKeep
<1>2. CASE UNCHANGED dataVars
  <2>1. UNCHANGED <<schema, indexes, sdRows, trail, done, inserted, attached, migrations, importing>>
    BY <1>2 DEF dataVars
  <2>2. Grows /\ \A t \in Tables : indexes[t] \subseteq indexes'[t]
    BY <2>1 DEF Grows
  <2>3. IndexesDeclared'
    BY <2>1 DEF DataInv, IndexesDeclared
  <2>4. TrailKnows(sdRows', trail)
    BY <2>1 DEF DataInv, TrailKnows
  <2> QED BY <2>1, <2>2, <2>3, <2>4, SchemaChanges, DataKnows
<1> QED BY <1>1, <1>2 DEF AllNext, allVars

LEMMA DataShows == DataInv => DataSafety
<1> SUFFICES ASSUME DataInv PROVE Data!TypeOK /\ Data!KeyedOnce /\ Data!AppliedInEffect
  BY DEF DataSafety
<1>1. DataTyped /\ RowKeysFit /\ RowsImported /\ MigrationsFit /\ IndexesDeclared /\ AttachedFit
  BY DEF DataInv
<1>2. ASSUME NEW k, done[k].kind = "insert", k \in Data!AllKeys PROVE Data!Cardinality(inserted[k]) = 1
  BY <1>1, <1>2, FS_Singleton, DataFinite DEF RowKeysFit, KeyFitsIn
<1>3. Data!TypeOK
  <2>1. \A id \in Data!Ids : sdRows[id] = Data!NoRow
          \/ (sdRows[id].table \in Tables /\ sdRows[id].cells \in [TableColumns -> Data!Cells])
    BY <1>1 DEF DataTyped, SomeRows, TableRecords
  <2>2. \A k \in Data!AllKeys : done[k].kind \in {"none"} \cup Data!Kinds
    BY <1>1 DEF DataTyped, DoneRecords, Data!NoOp
  <2>3. importing.at \in 0..MaxBatch
    BY <1>1, DataConstants DEF DataTyped, Data!NotImporting, ImportRecords
  <2>4. Len(migrations) + Data!Cardinality(attached) <= MaxRecords
    BY <1>1, DataFinite DEF DataTyped
  <2> QED BY <1>1, <2>1, <2>2, <2>3, <2>4 DEF Data!TypeOK, DataTyped
<1>4. Data!KeyedOnce
  <2>1. ASSUME importing # Data!NotImporting, importing.key # NoRowKey, NEW i \in 1..importing.at - 1
        PROVE  Data!Cardinality(inserted[<<importing.key, i>>]) = 1
    <3>1. done[<<importing.key, i>>].kind = "insert"
      BY <1>1, <2>1 DEF RowsImported
    <3>2. importing.key \in RowKeys /\ i \in 0..MaxBatch
      BY <2>1, ImportIs, DataConstants
    <3> QED BY <1>2, <3>1, <3>2 DEF Data!AllKeys
  <2> QED BY <1>1, <1>2, <2>1 DEF Data!KeyedOnce, RowKeysFit, KeyFitsIn
<1>5. Data!AppliedInEffect
  BY <1>1 DEF Data!AppliedInEffect, MigrationsFit, InEffect, IndexesDeclared, AttachedFit
<1> QED BY <1>3, <1>4, <1>5

\* For any tables, rows, batches and plans: a key inserts at most once, an interrupted import that
\* is retried has inserted each row before its position once, and every migration that was applied
\* and not rolled back is in effect.
THEOREM DataHolds == AllSpec => []DataSafety
<1>1. AllInit => DataInv
  BY DataStart DEF AllInit
<1> QED BY <1>1, DataShows, DataTurn, PTL DEF AllSpec
=============================================================================
